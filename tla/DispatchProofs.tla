--------------------------- MODULE DispatchProofs ---------------------------
(***************************************************************************)
(* Theorems about Dispatch, for any number of services, workers and        *)
(* external threads, any weights and any queue length: its types; one      *)
(* owner for every queue, nothing lost, exact reference counts, no         *)
(* dangling pointer; and, from these, that the runtime implements Mailbox. *)
(***************************************************************************)
EXTENDS Dispatch, TLAPS, FiniteSetTheorems

\* Which local variables of a thread are set at each point of its program.
Locals ==
    /\ \A t \in Thread : call[t] = "none" <=> arg[t] = NoHandle
    /\ \A w \in Worker :
        /\ pc[w] \in {"fetch", "sleep"} <=> q[w] = NoHandle
        /\ pc[w] = "pushback" <=> nq[w] # NoHandle
        /\ stage[w] = "none" <=> new[w] = NoHandle
        /\ stage[w] # "none" => pc[w] = "callback" /\ drop[w] = NoHandle
        /\ drop[w] # NoHandle => pc[w] \in {"fetch", "callback"}
        /\ call[w] = "push" => pc[w] = "callback" \/ drop[w] # NoHandle

LEMMA TypeInit == Init => TypeOK /\ Locals
<1> USE DispatchAssumption DEF Init, Ctx, Mem, Pc, Stage, Call, HandleOrNone, Message
<1> SUFFICES ASSUME Init PROVE TypeOK /\ Locals
  OBVIOUS
<1>1. mq \in [Handle -> Seq(Message)]
  <2>1. \A h \in Handle : <<h>> \in Seq(Message) /\ <<>> \in Seq(Message)
    OBVIOUS
  <2> QED
    BY <2>1
<1>2. Q \in Seq(Handle)
  OBVIOUS
<1>3. TypeOK
  BY <1>1, <1>2 DEF TypeOK
<1>4. Locals
  BY DEF Locals, Thread
<1> QED
  BY <1>3, <1>4

LEMMA AppendType == ASSUME NEW S, NEW s \in Seq(S), NEW x \in S
                    PROVE  Append(s, x) \in Seq(S)
OBVIOUS

LEMMA HeadTailType == ASSUME NEW S, NEW s \in Seq(S), s # <<>>
                      PROVE  Head(s) \in S /\ Tail(s) \in Seq(S)
OBVIOUS

LEMMA ShiftType == ASSUME NEW n \in Nat, NEW k \in 0..3 PROVE Shift(n, k) \in Nat
<1>1. k \in {0, 1, 2, 3}
  OBVIOUS
<1> QED
  BY <1>1 DEF Shift

LEMMA TypeStep == TypeOK /\ Locals /\ [Next]_vars => TypeOK'
<1> SUFFICES ASSUME TypeOK, Locals, [Next]_vars PROVE TypeOK'
  OBVIOUS
<1>a. NoHandle \notin Handle
  BY DispatchAssumption
<1>b. Q \in Seq(Handle)
  BY DEF TypeOK
<1>1. ASSUME NEW t \in Thread, NEW h \in Handle, ContextPush(t, h) PROVE TypeOK'
  <2>1. ref' \in [Handle -> Int]
    BY <1>1, <1>a DEF ContextPush, TypeOK, Locals, HandleOrNone, Thread
  <2>2. call' \in [Thread -> Call]
    BY <1>1, <1>a DEF ContextPush, TypeOK, Begin, Return, Call
  <2>3. arg' \in [Thread -> HandleOrNone]
    BY <1>1, <1>a DEF ContextPush, TypeOK, Begin, Return, HandleOrNone
  <2> QED
    BY <1>1, <2>1, <2>2, <2>3 DEF ContextPush, TypeOK, mqVars, ctxVars, workerVars, launchVars
<1>2. ASSUME NEW t \in Thread, MqPush(t) PROVE TypeOK'
  <2>1. mq' \in [Handle -> Seq(Message)]
    BY <1>2, <1>a DEF MqPush, Self, TypeOK, Message, HandleOrNone, Locals, Thread
  <2>2. in_global' \subseteq Handle
    BY <1>2, <1>a DEF MqPush, Self, TypeOK, Locals, HandleOrNone, Thread
  <2>3. Q' \in Seq(Handle)
    <3>1. arg[t] \in Handle
      BY <1>2, <1>a DEF MqPush, TypeOK, Locals, HandleOrNone, At, Thread
    <3>2. Append(Q, arg[t]) \in Seq(Handle)
      BY <3>1, <1>b, AppendType
    <3>3. Q' = Q \/ Q' = Append(Q, arg[t])
      BY <1>2 DEF MqPush, Self, globalmq_push
    <3> QED
      BY <3>2, <3>3, <1>b
  <2>4. call' \in [Thread -> Call]
    BY <1>2, <1>a DEF MqPush, Self, TypeOK, Begin, Return, Call
  <2>5. arg' \in [Thread -> HandleOrNone]
    BY <1>2, <1>a DEF MqPush, Self, TypeOK, Begin, Return, HandleOrNone
  <2> QED
    BY <1>2, <2>1, <2>2, <2>3, <2>4, <2>5 DEF MqPush, TypeOK, mqVars, ctxVars, workerVars, launchVars
<1>3. ASSUME NEW t \in Thread, ContextRelease(t) PROVE TypeOK'
  <2>1. ref' \in [Handle -> Int]
    BY <1>3, <1>a DEF ContextRelease, TypeOK, Locals, HandleOrNone, Thread
  <2>2. call' \in [Thread -> Call]
    BY <1>3, <1>a DEF ContextRelease, TypeOK, Begin, Return, Call
  <2>3. arg' \in [Thread -> HandleOrNone]
    BY <1>3, <1>a DEF ContextRelease, TypeOK, Begin, Return, HandleOrNone
  <2> QED
    BY <1>3, <2>1, <2>2, <2>3 DEF ContextRelease, TypeOK, mqVars, ctxVars, workerVars, launchVars
<1>4. ASSUME NEW t \in Thread, MqMarkRelease(t) PROVE TypeOK'
  <2>1. release' \subseteq Handle
    BY <1>4, <1>a DEF MqMarkRelease, TypeOK, Locals, HandleOrNone, Thread
  <2>2. Q' \in Seq(Handle)
    <3>1. arg[t] \in Handle
      BY <1>4, <1>a DEF MqMarkRelease, TypeOK, Locals, HandleOrNone, At, Thread
    <3>2. Append(Q, arg[t]) \in Seq(Handle)
      BY <3>1, <1>b, AppendType
    <3>3. Q' = Q \/ Q' = Append(Q, arg[t])
      BY <1>4 DEF MqMarkRelease, globalmq_push
    <3> QED
      BY <3>2, <3>3, <1>b
  <2>3. ctx' \in [Handle -> Ctx]
    BY <1>4, <1>a DEF MqMarkRelease, TypeOK, Ctx, Locals, HandleOrNone, Thread
  <2>4. call' \in [Thread -> Call]
    BY <1>4, <1>a DEF MqMarkRelease, TypeOK, Begin, Return, Call
  <2>5. arg' \in [Thread -> HandleOrNone]
    BY <1>4, <1>a DEF MqMarkRelease, TypeOK, Begin, Return, HandleOrNone
  <2> QED
    BY <1>4, <2>1, <2>2, <2>3, <2>4, <2>5 DEF MqMarkRelease, TypeOK, mqVars, ctxVars, workerVars, launchVars
<1>5. ASSUME NEW w \in Worker, NEW h \in Handle, HandleRetire(w, h) PROVE TypeOK'
  <2>1. slot' \subseteq Handle
    BY <1>5, <1>a DEF HandleRetire, TypeOK, Locals, HandleOrNone, Thread
  <2>2. call' \in [Thread -> Call]
    BY <1>5, <1>a DEF HandleRetire, TypeOK, Begin, Return, Call, Thread
  <2>3. arg' \in [Thread -> HandleOrNone]
    BY <1>5, <1>a DEF HandleRetire, TypeOK, Begin, Return, HandleOrNone, Thread
  <2> QED
    BY <1>5, <2>1, <2>2, <2>3 DEF HandleRetire, TypeOK, mqVars, ctxVars, workerVars, launchVars
<1>6. ASSUME NEW w \in Worker, DropMessage(w) PROVE TypeOK'
  <2>1. mq' \in [Handle -> Seq(Message)]
    <3>1. drop[w] \in Handle
      BY <1>6, <1>a DEF DropMessage, TypeOK, Locals, HandleOrNone, At
    <3>2. mq[drop[w]] # <<>> => Tail(mq[drop[w]]) \in Seq(Message)
      BY <3>1, HeadTailType DEF TypeOK
    <3> QED
      BY <1>6, <3>2 DEF DropMessage, TypeOK
  <2>2. ref' \in [Handle -> Int]
    BY <1>6, <1>a DEF DropMessage, TypeOK, Locals, HandleOrNone, Thread
  <2>3. call' \in [Thread -> Call]
    BY <1>6, <1>a DEF DropMessage, TypeOK, Begin, Return, Call, Thread
  <2>4. arg' \in [Thread -> HandleOrNone]
    BY <1>6, <1>a DEF DropMessage, TypeOK, Begin, Return, HandleOrNone, Thread
  <2> QED
    BY <1>6, <2>1, <2>2, <2>3, <2>4 DEF DropMessage, TypeOK, mqVars, ctxVars, workerVars, launchVars
<1>7. ASSUME NEW w \in Worker, DropQueue(w) PROVE TypeOK'
  <2>1. in_global' \subseteq Handle
    BY <1>7, <1>a DEF DropQueue, TypeOK, Locals, HandleOrNone, Thread
  <2>2. mem' \in [Handle -> Mem]
    BY <1>7, <1>a DEF DropQueue, TypeOK, Mem, Locals, HandleOrNone, Thread
  <2>3. drop' \in [Worker -> HandleOrNone]
    BY <1>7, <1>a DEF DropQueue, TypeOK, HandleOrNone
  <2> QED
    BY <1>7, <2>1, <2>2, <2>3 DEF DropQueue, TypeOK, mqVars, ctxVars, workerVars, launchVars
<1>8. ASSUME NEW w \in Worker, NEW h \in Handle, ContextNew(w, h) PROVE TypeOK'
  <2>1. slot' \subseteq Handle
    BY <1>8, <1>a DEF ContextNew, TypeOK, Locals, HandleOrNone, Thread
  <2>2. ctx' \in [Handle -> Ctx]
    BY <1>8, <1>a DEF ContextNew, TypeOK, Ctx, Locals, HandleOrNone, Thread
  <2>3. ref' \in [Handle -> Int]
    BY <1>8, <1>a DEF ContextNew, TypeOK, Locals, HandleOrNone, Thread
  <2>4. mem' \in [Handle -> Mem]
    BY <1>8, <1>a DEF ContextNew, TypeOK, Mem, Locals, HandleOrNone, Thread
  <2>5. in_global' \subseteq Handle
    BY <1>8, <1>a DEF ContextNew, TypeOK, Locals, HandleOrNone, Thread
  <2>6. new' \in [Worker -> HandleOrNone]
    BY <1>8, <1>a DEF ContextNew, TypeOK, HandleOrNone
  <2>7. stage' \in [Worker -> Stage]
    BY <1>8, <1>a DEF ContextNew, TypeOK, Stage
  <2> QED
    BY <1>8, <2>1, <2>2, <2>3, <2>4, <2>5, <2>6, <2>7 DEF ContextNew, TypeOK, mqVars, ctxVars, workerVars, launchVars
<1>9. ASSUME NEW w \in Worker, NEW r \in {"ok", "failed"}, InitReturns(w, r) PROVE TypeOK'
  <2>1. stage' \in [Worker -> Stage]
    BY <1>9, <1>a DEF InitReturns, TypeOK, Stage
  <2>2. call' \in [Thread -> Call]
    BY <1>9, <1>a DEF InitReturns, TypeOK, Begin, Return, Call, Thread
  <2>3. arg' \in [Thread -> HandleOrNone]
    BY <1>9, <1>a DEF InitReturns, TypeOK, Begin, Return, HandleOrNone, Thread
  <2> QED
    BY <1>9, <2>1, <2>2, <2>3 DEF InitReturns, TypeOK, mqVars, ctxVars, workerVars, launchVars
<1>10. ASSUME NEW w \in Worker, ContextReady(w) PROVE TypeOK'
  <2>1. ctx' \in [Handle -> Ctx]
    BY <1>10, <1>a DEF ContextReady, TypeOK, Ctx, Locals, HandleOrNone, Thread
  <2>2. Q' \in Seq(Handle)
    <3>1. new[w] \in Handle
      BY <1>10, <1>a DEF ContextReady, TypeOK, Locals, HandleOrNone, At, Thread
    <3>2. Append(Q, new[w]) \in Seq(Handle)
      BY <3>1, <1>b, AppendType
    <3>3. Q' = Q \/ Q' = Append(Q, new[w])
      BY <1>10 DEF ContextReady, globalmq_push
    <3> QED
      BY <3>2, <3>3, <1>b
  <2>3. new' \in [Worker -> HandleOrNone]
    BY <1>10, <1>a DEF ContextReady, TypeOK, HandleOrNone
  <2>4. stage' \in [Worker -> Stage]
    BY <1>10, <1>a DEF ContextReady, TypeOK, Stage
  <2> QED
    BY <1>10, <2>1, <2>2, <2>3, <2>4 DEF ContextReady, TypeOK, mqVars, ctxVars, workerVars, launchVars
<1>11. ASSUME NEW w \in Worker, ContextFailed(w) PROVE TypeOK'
  <2>1. stage' \in [Worker -> Stage]
    BY <1>11, <1>a DEF ContextFailed, TypeOK, Stage
  <2>2. slot' \subseteq Handle
    BY <1>11, <1>a DEF ContextFailed, TypeOK, Locals, HandleOrNone, Thread
  <2>3. call' \in [Thread -> Call]
    BY <1>11, <1>a DEF ContextFailed, TypeOK, Begin, Return, Call, Thread
  <2>4. arg' \in [Thread -> HandleOrNone]
    BY <1>11, <1>a DEF ContextFailed, TypeOK, Begin, Return, HandleOrNone, Thread
  <2> QED
    BY <1>11, <2>1, <2>2, <2>3, <2>4 DEF ContextFailed, TypeOK, mqVars, ctxVars, workerVars, launchVars
<1>12. ASSUME NEW w \in Worker, NewMqRelease(w) PROVE TypeOK'
  <2>1. Q' \in Seq(Handle)
    <3>1. new[w] \in Handle
      BY <1>12, <1>a DEF NewMqRelease, TypeOK, Locals, HandleOrNone, At, Thread
    <3>2. Append(Q, new[w]) \in Seq(Handle)
      BY <3>1, <1>b, AppendType
    <3>3. Q' = Q \/ Q' = Append(Q, new[w])
      BY <1>12 DEF NewMqRelease, MqReleaseQueue, globalmq_push
    <3> QED
      BY <3>2, <3>3, <1>b
  <2>2. drop' \in [Worker -> HandleOrNone]
    BY <1>12, <1>a DEF NewMqRelease, MqReleaseQueue, TypeOK, HandleOrNone
  <2>3. new' \in [Worker -> HandleOrNone]
    BY <1>12, <1>a DEF NewMqRelease, MqReleaseQueue, TypeOK, HandleOrNone
  <2>4. stage' \in [Worker -> Stage]
    BY <1>12, <1>a DEF NewMqRelease, MqReleaseQueue, TypeOK, Stage
  <2> QED
    BY <1>12, <2>1, <2>2, <2>3, <2>4 DEF NewMqRelease, TypeOK, mqVars, ctxVars, workerVars, launchVars
<1>13. ASSUME NEW w \in Worker, Fetch(w) PROVE TypeOK'
  <2>1. q' \in [Worker -> HandleOrNone]
    <3>1. Q # <<>> => Head(Q) \in Handle
      BY <1>b, HeadTailType
    <3> QED
      BY <1>13, <3>1 DEF Fetch, TypeOK, HandleOrNone
  <2>2. Q' \in Seq(Handle)
    BY <1>13, <1>b, HeadTailType DEF Fetch
  <2>3. pc' \in [Worker -> Pc]
    BY <1>13, <1>a DEF Fetch, TypeOK, Goto, Pc
  <2> QED
    BY <1>13, <2>1, <2>2, <2>3 DEF Fetch, TypeOK, mqVars, ctxVars, workerVars, launchVars
<1>14. ASSUME NEW w \in Worker, Wakeup(w) PROVE TypeOK'
  <2>1. pc' \in [Worker -> Pc]
    BY <1>14, <1>a DEF Wakeup, TypeOK, Goto, Pc
  <2> QED
    BY <1>14, <2>1 DEF Wakeup, TypeOK, mqVars, ctxVars, workerVars, launchVars
<1>15. ASSUME NEW w \in Worker, Grab(w) PROVE TypeOK'
  <2>1. ref' \in [Handle -> Int]
    BY <1>15, <1>a DEF Grab, TypeOK, Locals, HandleOrNone, Thread
  <2>2. pc' \in [Worker -> Pc]
    BY <1>15, <1>a DEF Grab, TypeOK, Goto, Pc
  <2>3. left' \in [Worker -> Int]
    BY <1>15, <1>a DEF Grab, TypeOK
  <2> QED
    BY <1>15, <2>1, <2>2, <2>3 DEF Grab, TypeOK, mqVars, ctxVars, workerVars, launchVars
<1>16. ASSUME NEW w \in Worker, MqRelease(w) PROVE TypeOK'
  <2>1. Q' \in Seq(Handle)
    <3>1. q[w] \in Handle
      BY <1>16, <1>a DEF MqRelease, TypeOK, Locals, HandleOrNone, At, Thread
    <3>2. Append(Q, q[w]) \in Seq(Handle)
      BY <3>1, <1>b, AppendType
    <3>3. Q' = Q \/ Q' = Append(Q, q[w])
      BY <1>16 DEF MqRelease, MqReleaseQueue, globalmq_push
    <3> QED
      BY <3>2, <3>3, <1>b
  <2>2. drop' \in [Worker -> HandleOrNone]
    BY <1>16, <1>a DEF MqRelease, MqReleaseQueue, TypeOK, HandleOrNone
  <2>3. q' \in [Worker -> HandleOrNone]
    BY <1>16, <1>a DEF MqRelease, MqReleaseQueue, TypeOK, HandleOrNone
  <2>4. pc' \in [Worker -> Pc]
    BY <1>16, <1>a DEF MqRelease, MqReleaseQueue, TypeOK, Goto, Pc
  <2> QED
    BY <1>16, <2>1, <2>2, <2>3, <2>4 DEF MqRelease, TypeOK, mqVars, ctxVars, workerVars, launchVars
<1>17. ASSUME NEW w \in Worker, MqPop(w) PROVE TypeOK'
  <2>1. in_global' \subseteq Handle
    BY <1>17, <1>a DEF MqPop, TypeOK, Locals, HandleOrNone, Thread
  <2>2. q' \in [Worker -> HandleOrNone]
    BY <1>17, <1>a DEF MqPop, TypeOK, HandleOrNone
  <2>3. call' \in [Thread -> Call]
    BY <1>17, <1>a DEF MqPop, TypeOK, Begin, Return, Call, Thread
  <2>4. arg' \in [Thread -> HandleOrNone]
    BY <1>17, <1>a DEF MqPop, TypeOK, Begin, Return, HandleOrNone, Thread
  <2>5. pc' \in [Worker -> Pc]
    BY <1>17, <1>a DEF MqPop, TypeOK, Goto, Pc
  <2>6. mq' \in [Handle -> Seq(Message)]
    <3>1. q[w] \in Handle
      BY <1>17, <1>a DEF MqPop, TypeOK, Locals, HandleOrNone, At
    <3>2. mq[q[w]] # <<>> => Tail(mq[q[w]]) \in Seq(Message)
      BY <3>1, HeadTailType DEF TypeOK
    <3> QED
      BY <1>17, <3>2 DEF MqPop, TypeOK
  <2> QED
    BY <1>17, <2>1, <2>2, <2>3, <2>4, <2>5, <2>6 DEF MqPop, TypeOK, mqVars, ctxVars, workerVars, launchVars
<1>18. ASSUME NEW w \in Worker, MqLength(w) PROVE TypeOK'
  <2>1. left' \in [Worker -> Int]
    <3>1. q[w] \in Handle
      BY <1>18, <1>a DEF MqLength, TypeOK, Locals, HandleOrNone, At
    <3>2. Len(mq[q[w]]) \in Nat
      BY <3>1 DEF TypeOK
    <3>3. Weight[w] = -1 \/ Weight[w] \in 0..3
      <4>1. Weight[w] \in -1..3
        BY DispatchAssumption
      <4> QED
        BY <4>1
    <3>4. Weight[w] # -1 => Shift(Len(mq[q[w]]), Weight[w]) \in Nat
      BY <3>2, <3>3, ShiftType
    <3> QED
      BY <1>18, <3>4 DEF MqLength, TypeOK
  <2>2. pc' \in [Worker -> Pc]
    BY <1>18, <1>a DEF MqLength, TypeOK, Goto, Pc
  <2> QED
    BY <1>18, <2>1, <2>2 DEF MqLength, TypeOK, mqVars, ctxVars, workerVars, launchVars
<1>19. ASSUME NEW w \in Worker, CallbackReturns(w) PROVE TypeOK'
  <2>1. pc' \in [Worker -> Pc]
    BY <1>19, <1>a DEF CallbackReturns, TypeOK, Goto, Pc
  <2>2. left' \in [Worker -> Int]
    BY <1>19, <1>a DEF CallbackReturns, TypeOK
  <2> QED
    BY <1>19, <2>1, <2>2 DEF CallbackReturns, TypeOK, mqVars, ctxVars, workerVars, launchVars
<1>20. ASSUME NEW w \in Worker, Requeue(w) PROVE TypeOK'
  <2>1. call' \in [Thread -> Call]
    BY <1>20, <1>a DEF Requeue, TypeOK, Begin, Return, Call, Thread
  <2>2. arg' \in [Thread -> HandleOrNone]
    BY <1>20, <1>a DEF Requeue, TypeOK, Begin, Return, HandleOrNone, Thread
  <2>3. pc' \in [Worker -> Pc]
    BY <1>20, <1>a DEF Requeue, TypeOK, Goto, Pc
  <2>4. Q' \in Seq(Handle)
    BY <1>20, <1>b, HeadTailType DEF Requeue
  <2>5. nq' \in [Worker -> HandleOrNone]
    <3>1. Q # <<>> => Head(Q) \in Handle
      BY <1>b, HeadTailType
    <3> QED
      BY <1>20, <3>1 DEF Requeue, TypeOK, HandleOrNone
  <2> QED
    BY <1>20, <2>1, <2>2, <2>3, <2>4, <2>5 DEF Requeue, TypeOK, mqVars, ctxVars, workerVars, launchVars
<1>21. ASSUME NEW w \in Worker, PushBack(w) PROVE TypeOK'
  <2>1. Q' \in Seq(Handle)
    <3>1. q[w] \in Handle
      BY <1>21, <1>a DEF PushBack, TypeOK, Locals, HandleOrNone, At, Thread
    <3>2. Append(Q, q[w]) \in Seq(Handle)
      BY <3>1, <1>b, AppendType
    <3>3. Q' = Q \/ Q' = Append(Q, q[w])
      BY <1>21 DEF PushBack, globalmq_push
    <3> QED
      BY <3>2, <3>3, <1>b
  <2>2. call' \in [Thread -> Call]
    BY <1>21, <1>a DEF PushBack, TypeOK, Begin, Return, Call, Thread
  <2>3. arg' \in [Thread -> HandleOrNone]
    BY <1>21, <1>a DEF PushBack, TypeOK, Begin, Return, HandleOrNone, Thread
  <2>4. q' \in [Worker -> HandleOrNone]
    BY <1>21, <1>a DEF PushBack, TypeOK, HandleOrNone
  <2>5. nq' \in [Worker -> HandleOrNone]
    BY <1>21, <1>a DEF PushBack, TypeOK, HandleOrNone
  <2>6. pc' \in [Worker -> Pc]
    BY <1>21, <1>a DEF PushBack, TypeOK, Goto, Pc
  <2> QED
    BY <1>21, <2>1, <2>2, <2>3, <2>4, <2>5, <2>6 DEF PushBack, TypeOK, mqVars, ctxVars, workerVars, launchVars
<1>22. CASE UNCHANGED vars
  BY <1>22 DEF vars, TypeOK
<1> QED
  BY <1>1, <1>2, <1>3, <1>4, <1>5, <1>6, <1>7, <1>8, <1>9, <1>10, <1>11, <1>12, <1>13, <1>14, <1>15, <1>16, <1>17, <1>18, <1>19, <1>20, <1>21, <1>22 DEF Next, Operation, Request, Loop

LEMMA LocalsStep == TypeOK /\ Locals /\ [Next]_vars => Locals'
<1> SUFFICES ASSUME TypeOK, Locals, [Next]_vars PROVE Locals'
  OBVIOUS
<1>a. NoHandle \notin Handle
  BY DispatchAssumption
<1>b. Q # <<>> => Head(Q) \in Handle
  BY HeadTailType DEF TypeOK
<1>1. ASSUME NEW t \in Thread, NEW h \in Handle, ContextPush(t, h) PROVE Locals'
  BY <1>1, <1>a DEF ContextPush, TypeOK, Locals, HandleOrNone, Thread, Begin, Return, CanCall, mqVars, ctxVars, workerVars, launchVars
<1>2. ASSUME NEW t \in Thread, MqPush(t) PROVE Locals'
  BY <1>2, <1>a DEF MqPush, TypeOK, Locals, HandleOrNone, Thread, Begin, Return, mqVars, ctxVars, workerVars, launchVars
<1>3. ASSUME NEW t \in Thread, ContextRelease(t) PROVE Locals'
  <2>1. CASE ref[arg[t]] = 1
    <3>1. call' = [call EXCEPT ![t] = "mark"] /\ arg' = [arg EXCEPT ![t] = arg[t]]
      BY <1>3, <2>1 DEF ContextRelease, Begin, Return
    <3>2. call[t] = "release"
      BY <1>3, <2>1 DEF ContextRelease, At, Goto, TypeOK
    <3>3. UNCHANGED <<pc, q, nq, stage, new, drop>>
      BY <1>3, <2>1 DEF ContextRelease, mqVars, ctxVars, workerVars, launchVars
    <3> QED
      BY <1>a, <3>1, <3>2, <3>3 DEF TypeOK, Locals, HandleOrNone, Thread
  <2>2. CASE ~(ref[arg[t]] = 1)
    <3>1. call' = [call EXCEPT ![t] = "none"] /\ arg' = [arg EXCEPT ![t] = NoHandle]
      BY <1>3, <2>2 DEF ContextRelease, Begin, Return
    <3>2. call[t] = "release"
      BY <1>3, <2>2 DEF ContextRelease, At, Goto, TypeOK
    <3>3. UNCHANGED <<pc, q, nq, stage, new, drop>>
      BY <1>3, <2>2 DEF ContextRelease, mqVars, ctxVars, workerVars, launchVars
    <3> QED
      BY <1>a, <3>1, <3>2, <3>3 DEF TypeOK, Locals, HandleOrNone, Thread
  <2> QED
    BY <2>1, <2>2
<1>4. ASSUME NEW t \in Thread, MqMarkRelease(t) PROVE Locals'
  BY <1>4, <1>a DEF MqMarkRelease, TypeOK, Locals, HandleOrNone, Thread, Begin, Return, mqVars, ctxVars, workerVars, launchVars
<1>5. ASSUME NEW w \in Worker, NEW h \in Handle, HandleRetire(w, h) PROVE Locals'
  BY <1>5, <1>a DEF HandleRetire, TypeOK, Locals, HandleOrNone, Thread, Begin, Return, CanCall, mqVars, ctxVars, workerVars, launchVars
<1>6. ASSUME NEW w \in Worker, DropMessage(w) PROVE Locals'
  <2>1. CASE Head(mq[drop[w]]) \in slot
    <3>1. call' = [call EXCEPT ![w] = "push"] /\ arg' = [arg EXCEPT ![w] = Head(mq[drop[w]])]
      BY <1>6, <2>1 DEF DropMessage, Begin, Return
    <3>2. call[w] = "none" /\ drop[w] # NoHandle /\ Head(mq[drop[w]]) \in Handle
      BY <1>6, <2>1 DEF DropMessage, At, Goto, TypeOK
    <3>3. UNCHANGED <<pc, q, nq, stage, new, drop>>
      BY <1>6, <2>1 DEF DropMessage, mqVars, ctxVars, workerVars, launchVars
    <3> QED
      BY <1>a, <3>1, <3>2, <3>3 DEF TypeOK, Locals, HandleOrNone, Thread
  <2>2. CASE ~(Head(mq[drop[w]]) \in slot)
    BY <1>6, <1>a, <1>b, <2>2 DEF DropMessage, TypeOK, Locals, HandleOrNone, Thread, Begin, Return, At, mqVars, ctxVars, workerVars, launchVars
  <2> QED
    BY <2>1, <2>2
<1>7. ASSUME NEW w \in Worker, DropQueue(w) PROVE Locals'
  BY <1>7, <1>a DEF DropQueue, TypeOK, Locals, HandleOrNone, Thread, At, mqVars, ctxVars, workerVars, launchVars
<1>8. ASSUME NEW w \in Worker, NEW h \in Handle, ContextNew(w, h) PROVE Locals'
  BY <1>8, <1>a DEF ContextNew, TypeOK, Locals, HandleOrNone, Thread, At, CanCall, mqVars, ctxVars, workerVars, launchVars
<1>9. ASSUME NEW w \in Worker, NEW r \in {"ok", "failed"}, InitReturns(w, r) PROVE Locals'
  BY <1>9, <1>a DEF InitReturns, TypeOK, Locals, HandleOrNone, Thread, Begin, Return, At, mqVars, ctxVars, workerVars, launchVars
<1>10. ASSUME NEW w \in Worker, ContextReady(w) PROVE Locals'
  BY <1>10, <1>a DEF ContextReady, TypeOK, Locals, HandleOrNone, Thread, At, mqVars, ctxVars, workerVars, launchVars
<1>11. ASSUME NEW w \in Worker, ContextFailed(w) PROVE Locals'
  <2>1. CASE new[w] \in slot
    <3>1. call' = [call EXCEPT ![w] = "release"] /\ arg' = [arg EXCEPT ![w] = new[w]]
      BY <1>11, <2>1 DEF ContextFailed, Begin, Return
    <3>2. call[w] = "none" /\ stage[w] = "failed" /\ stage' = [stage EXCEPT ![w] = "mqrelease"]
      BY <1>11, <2>1 DEF ContextFailed, At, Goto, TypeOK
    <3>3. UNCHANGED <<pc, q, nq, new, drop>>
      BY <1>11, <2>1 DEF ContextFailed, mqVars, ctxVars, workerVars, launchVars
    <3> QED
      BY <1>a, <3>1, <3>2, <3>3 DEF TypeOK, Locals, HandleOrNone, Thread
  <2>2. CASE ~(new[w] \in slot)
    BY <1>11, <1>a, <1>b, <2>2 DEF ContextFailed, TypeOK, Locals, HandleOrNone, Thread, Begin, Return, At, mqVars, ctxVars, workerVars, launchVars
  <2> QED
    BY <2>1, <2>2
<1>12. ASSUME NEW w \in Worker, NewMqRelease(w) PROVE Locals'
  <2>1. CASE new[w] \in release
    BY <1>12, <1>a, <1>b, <2>1 DEF NewMqRelease, MqReleaseQueue, TypeOK, Locals, HandleOrNone, Thread, At, mqVars, ctxVars, workerVars, launchVars
  <2>2. CASE ~(new[w] \in release)
    BY <1>12, <1>a, <1>b, <2>2 DEF NewMqRelease, MqReleaseQueue, TypeOK, Locals, HandleOrNone, Thread, At, mqVars, ctxVars, workerVars, launchVars
  <2> QED
    BY <2>1, <2>2
<1>13. ASSUME NEW w \in Worker, Fetch(w) PROVE Locals'
  <2>1. CASE Q = <<>>
    BY <1>13, <1>a, <1>b, <2>1 DEF Fetch, TypeOK, Locals, HandleOrNone, Thread, Goto, At, mqVars, ctxVars, workerVars, launchVars
  <2>2. CASE ~(Q = <<>>)
    BY <1>13, <1>a, <1>b, <2>2 DEF Fetch, TypeOK, Locals, HandleOrNone, Thread, Goto, At, mqVars, ctxVars, workerVars, launchVars
  <2> QED
    BY <2>1, <2>2
<1>14. ASSUME NEW w \in Worker, Wakeup(w) PROVE Locals'
  BY <1>14, <1>a DEF Wakeup, TypeOK, Locals, HandleOrNone, Thread, Goto, At, mqVars, ctxVars, workerVars, launchVars
<1>15. ASSUME NEW w \in Worker, Grab(w) PROVE Locals'
  <2>1. CASE q[w] \in slot
    BY <1>15, <1>a, <1>b, <2>1 DEF Grab, TypeOK, Locals, HandleOrNone, Thread, Goto, At, mqVars, ctxVars, workerVars, launchVars
  <2>2. CASE ~(q[w] \in slot)
    BY <1>15, <1>a, <1>b, <2>2 DEF Grab, TypeOK, Locals, HandleOrNone, Thread, Goto, At, mqVars, ctxVars, workerVars, launchVars
  <2> QED
    BY <2>1, <2>2
<1>16. ASSUME NEW w \in Worker, MqRelease(w) PROVE Locals'
  <2>1. CASE q[w] \in release
    BY <1>16, <1>a, <1>b, <2>1 DEF MqRelease, MqReleaseQueue, TypeOK, Locals, HandleOrNone, Thread, Goto, At, mqVars, ctxVars, workerVars, launchVars
  <2>2. CASE ~(q[w] \in release)
    BY <1>16, <1>a, <1>b, <2>2 DEF MqRelease, MqReleaseQueue, TypeOK, Locals, HandleOrNone, Thread, Goto, At, mqVars, ctxVars, workerVars, launchVars
  <2> QED
    BY <2>1, <2>2
<1>17. ASSUME NEW w \in Worker, MqPop(w) PROVE Locals'
  <2>1. CASE mq[q[w]] = <<>>
    <3>1. call' = [call EXCEPT ![w] = "release"] /\ arg' = [arg EXCEPT ![w] = q[w]]
      BY <1>17, <2>1 DEF MqPop, Begin, Return
    <3>2. call[w] = "none" /\ pc[w] = "pop" /\ drop[w] = NoHandle /\ pc' = [pc EXCEPT ![w] = "fetch"] /\ q' = [q EXCEPT ![w] = NoHandle]
      BY <1>17, <2>1 DEF MqPop, At, Goto, TypeOK
    <3>3. UNCHANGED <<nq, stage, new, drop>>
      BY <1>17, <2>1 DEF MqPop, mqVars, ctxVars, workerVars, launchVars
    <3> QED
      BY <1>a, <3>1, <3>2, <3>3 DEF TypeOK, Locals, HandleOrNone, Thread
  <2>2. CASE ~(mq[q[w]] = <<>>)
    BY <1>17, <1>a, <1>b, <2>2 DEF MqPop, TypeOK, Locals, HandleOrNone, Thread, Begin, Return, Goto, At, mqVars, ctxVars, workerVars, launchVars
  <2> QED
    BY <2>1, <2>2
<1>18. ASSUME NEW w \in Worker, MqLength(w) PROVE Locals'
  BY <1>18, <1>a DEF MqLength, TypeOK, Locals, HandleOrNone, Thread, Goto, At, mqVars, ctxVars, workerVars, launchVars
<1>19. ASSUME NEW w \in Worker, CallbackReturns(w) PROVE Locals'
  <2>1. CASE left[w] > 0
    BY <1>19, <1>a, <1>b, <2>1 DEF CallbackReturns, TypeOK, Locals, HandleOrNone, Thread, Goto, At, mqVars, ctxVars, workerVars, launchVars
  <2>2. CASE ~(left[w] > 0)
    BY <1>19, <1>a, <1>b, <2>2 DEF CallbackReturns, TypeOK, Locals, HandleOrNone, Thread, Goto, At, mqVars, ctxVars, workerVars, launchVars
  <2> QED
    BY <2>1, <2>2
<1>20. ASSUME NEW w \in Worker, Requeue(w) PROVE Locals'
  <2>1. CASE Q = <<>>
    <3>1. call' = [call EXCEPT ![w] = "release"] /\ arg' = [arg EXCEPT ![w] = q[w]]
      BY <1>20, <2>1 DEF Requeue, Begin, Return
    <3>2. call[w] = "none" /\ pc[w] = "requeue" /\ drop[w] = NoHandle /\ pc' = [pc EXCEPT ![w] = "grab"]
      BY <1>20, <2>1 DEF Requeue, At, Goto, TypeOK
    <3>3. UNCHANGED <<q, nq, stage, new, drop>>
      BY <1>20, <2>1 DEF Requeue, mqVars, ctxVars, workerVars, launchVars
    <3> QED
      BY <1>a, <3>1, <3>2, <3>3 DEF TypeOK, Locals, HandleOrNone, Thread
  <2>2. CASE ~(Q = <<>>)
    BY <1>20, <1>a, <1>b, <2>2 DEF Requeue, TypeOK, Locals, HandleOrNone, Thread, Begin, Return, Goto, At, mqVars, ctxVars, workerVars, launchVars
  <2> QED
    BY <2>1, <2>2
<1>21. ASSUME NEW w \in Worker, PushBack(w) PROVE Locals'
  BY <1>21, <1>a DEF PushBack, TypeOK, Locals, HandleOrNone, Thread, Begin, Return, Goto, At, mqVars, ctxVars, workerVars, launchVars
<1>22. CASE UNCHANGED vars
  BY <1>22 DEF vars, Locals
<1> QED
  BY <1>1, <1>2, <1>3, <1>4, <1>5, <1>6, <1>7, <1>8, <1>9, <1>10, <1>11, <1>12, <1>13, <1>14, <1>15, <1>16, <1>17, <1>18, <1>19, <1>20, <1>21, <1>22 DEF Next, Operation, Request, Loop

\* Every variable keeps its type (TypeOK), in every behaviour of the runtime.
THEOREM TypeCorrect == Spec => []TypeOK
<1>1. Init => TypeOK /\ Locals
  BY TypeInit
<1>2. TypeOK /\ Locals /\ [Next]_vars => (TypeOK /\ Locals)'
  BY TypeStep, LocalsStep
<1> QED
  BY <1>1, <1>2, PTL DEF Spec
-----------------------------------------------------------------------------
Live(h) == ctx[h] \in {"init", "ready"}

\* A context and its queue are created together; the queue outlives the context,
\* and is marked exactly when the context is freed.
CtxMem ==
    \A h \in Handle : /\ ctx[h] = "none" <=> mem[h] = "none"
                      /\ Live(h) => mem[h] = "live"
                      /\ h \in release <=> ctx[h] = "freed"

\* A context that is not initialised is being launched by some worker; nobody finds
\* the handle of a failed launch any more when its queue is given up.
Launching ==
    /\ \A h \in slot : ctx[h] = "init" => \E w \in Worker : new[w] = h
    /\ \A w \in Worker : /\ stage[w] = "init" => ctx[new[w]] = "init"
                         /\ stage[w] = "mqrelease" => new[w] \notin slot

Draining == \A w \in Worker : drop[w] # NoHandle => drop[w] \in release

\* One thread deletes a context, after the last reference has gone.
Marking ==
    /\ \A t \in Thread : call[t] = "mark" => ref[arg[t]] = 0
    /\ \A t, u \in Thread : call[t] = "mark" /\ call[u] = "mark" /\ arg[t] = arg[u] => t = u

\* How the life of a context, of its queue and of the references to them hang
\* together: what the other invariants need to be inductive.
Lifecycle == CtxMem /\ Launching /\ Draining /\ Marking

\* NoDanglingPointer without its conjuncts about queues.
CallLive == \A t \in Thread : call[t] # "none" => Live(arg[t]) /\ mem[arg[t]] = "live"
InUse == /\ \A w \in Worker : Dispatching(w) => ctx[q[w]] = "ready"
         /\ \A h \in slot : Live(h)

Life == Lifecycle /\ CallLive /\ InUse
-----------------------------------------------------------------------------
\* The queues in the global queue, and that each is there once.
linked == {h \in Handle : Linked(h)}
NoDup == \A i, j \in 1..Len(Q) : Q[i] = Q[j] => i = j

\* The other conjuncts of OneOwner, with linked in the place of indices.
OneHolder ==
    /\ \A w \in Worker, h \in linked : ~Holds(w, h)
    /\ \A w, v \in Worker, h \in Handle : Holds(w, h) /\ Holds(v, h) => w = v
    /\ \A w \in Worker : /\ nq[w] # NoHandle => nq[w] # q[w]
                         /\ drop[w] # NoHandle => drop[w] \notin {q[w], nq[w], new[w]}
                         /\ new[w] # NoHandle => new[w] \notin {q[w], nq[w]}

Owned(h) == h \in linked \/ \E w \in Worker : Holds(w, h)

\* NoLostQueue, and the last conjunct of NoDanglingPointer.
QueueOwned ==
    \A h \in Handle :
        /\ Owned(h) => mem[h] = "live"
        /\ mem[h] = "live" => ((h \in in_global \/ h \in release) <=> Owned(h))

Queues == NoDup /\ OneHolder /\ QueueOwned

LEMMA OwnerParts == ASSUME Q \in Seq(Handle) PROVE OneOwner <=> NoDup /\ OneHolder
<1>1. (\A w \in Worker, i \in 1..Len(Q) : ~Holds(w, Q[i]))
      <=> (\A w \in Worker, h \in linked : ~Holds(w, h))
  <2>1. \A i \in 1..Len(Q) : Q[i] \in linked
    BY DEF linked, Linked
  <2>2. \A h \in linked : \E i \in 1..Len(Q) : Q[i] = h
    BY DEF linked, Linked
  <2> QED
    BY <2>1, <2>2
<1> QED
  BY <1>1 DEF OneOwner, NoDup, OneHolder

\* skynet_globalmq_push links a queue at the end.
LEMMA PushLinked == ASSUME Q \in Seq(Handle), NEW x \in Handle, Q' = Append(Q, x)
                    PROVE  /\ linked' = linked \cup {x}
                           /\ NoDup /\ x \notin linked => NoDup'
<1>1. /\ Len(Q') = Len(Q) + 1 /\ Len(Q) \in Nat
      /\ \A i \in 1..Len(Q) : Q'[i] = Q[i] /\ Q[i] \in Handle
      /\ Q'[Len(Q) + 1] = x
  OBVIOUS
<1>2. \A i \in 1..Len(Q') : i \in 1..Len(Q) \/ i = Len(Q) + 1
  BY <1>1
<1>3. linked' = linked \cup {x}
  BY <1>1, <1>2 DEF linked, Linked
<1>4. ASSUME NoDup, x \notin linked PROVE NoDup'
  <2>1. \A i \in 1..Len(Q) : Q[i] # x
    BY <1>1, <1>4 DEF linked, Linked
  <2> QED
    BY <1>1, <1>2, <1>4, <2>1 DEF NoDup
<1> QED
  BY <1>3, <1>4

\* skynet_globalmq_pop takes the first queue off.
LEMMA PopLinked == ASSUME Q \in Seq(Handle), Q # <<>>, NoDup, Q' = Tail(Q)
                   PROVE  /\ Head(Q) \in linked
                          /\ linked' = linked \ {Head(Q)}
                          /\ NoDup'
<1>1. /\ Len(Q) \in Nat /\ Len(Q) > 0 /\ Len(Q') = Len(Q) - 1
      /\ \A i \in 1..Len(Q') : Q'[i] = Q[i + 1]
      /\ Head(Q) = Q[1]
      /\ \A i \in 1..Len(Q) : Q[i] \in Handle
  OBVIOUS
<1>2. Head(Q) \in linked
  BY <1>1 DEF linked, Linked
<1>3. \A i \in 1..Len(Q') : i + 1 \in 1..Len(Q) /\ i + 1 # 1
  BY <1>1
<1>4. ASSUME NEW h \in linked, h # Head(Q) PROVE h \in linked'
  <2>1. PICK i \in 1..Len(Q) : Q[i] = h
    BY DEF linked, Linked
  <2>2. i - 1 \in 1..Len(Q') /\ Q'[i - 1] = h
    BY <1>1, <1>4, <2>1
  <2> QED
    BY <1>1, <2>2 DEF linked, Linked
<1>5. ASSUME NEW h \in linked' PROVE h \in linked /\ h # Head(Q)
  <2>1. PICK i \in 1..Len(Q') : Q'[i] = h
    BY DEF linked, Linked
  <2>2. Q[i + 1] = h /\ i + 1 \in 1..Len(Q) /\ i + 1 # 1
    BY <1>1, <1>3, <2>1
  <2>3. h # Q[1]
    BY <1>1, <2>2 DEF NoDup
  <2> QED
    BY <1>1, <2>2, <2>3 DEF linked, Linked
<1>6. NoDup'
  BY <1>1, <1>3 DEF NoDup
<1> QED
  BY <1>2, <1>4, <1>5, <1>6
-----------------------------------------------------------------------------
\* The inductive invariant.
Inv == /\ TypeOK /\ Locals /\ Lifecycle
       /\ OneOwner /\ NoLostQueue /\ NoLostMessage /\ RefExact /\ NoDanglingPointer

\* What the steps below use of Inv: a queue has an owner exactly when it is scheduled
\* or marked, and whoever is in a call has a live context and queue.
LEMMA Ownership ==
    ASSUME Inv
    PROVE  /\ Q \in Seq(Handle) /\ NoDup /\ OneHolder /\ QueueOwned
           /\ \A h \in Handle : Owned(h) => mem[h] = "live" /\ (h \in in_global \/ h \in release)
           /\ \A h \in Handle : mem[h] = "live" /\ (h \in in_global \/ h \in release) => Owned(h)
           /\ \A t \in Thread : call[t] # "none" =>
                 arg[t] \in Handle /\ Live(arg[t]) /\ mem[arg[t]] = "live" /\ arg[t] \notin release
           /\ \A h \in slot : h \in Handle /\ Live(h) /\ h \notin release /\ mem[h] = "live"
           /\ \A w \in Worker : Dispatching(w) =>
                 q[w] \in Handle /\ ctx[q[w]] = "ready" /\ q[w] \notin release
<1>1. Q \in Seq(Handle) /\ NoDup /\ OneHolder
  BY OwnerParts DEF Inv, TypeOK
<1>2. \A h \in Handle : Owned(h) <=> Linked(h) \/ \E w \in Worker : Holds(w, h)
  BY DEF Owned, linked
<1>3. \A h \in Handle : Owned(h) => mem[h] = "live"
  BY <1>2 DEF Inv, NoDanglingPointer
<1>4. \A h \in Handle : mem[h] = "live" => ((h \in in_global \/ h \in release) <=> Owned(h))
  BY <1>2 DEF Inv, NoLostQueue
<1>5. \A t \in Thread : call[t] # "none" =>
         arg[t] \in Handle /\ Live(arg[t]) /\ mem[arg[t]] = "live" /\ arg[t] \notin release
  <2> SUFFICES ASSUME NEW t \in Thread, call[t] # "none"
               PROVE  arg[t] \in Handle /\ Live(arg[t]) /\ mem[arg[t]] = "live" /\ arg[t] \notin release
    OBVIOUS
  <2>1. arg[t] \in Handle
    BY DEF Inv, TypeOK, Locals, HandleOrNone
  <2>2. Live(arg[t]) /\ mem[arg[t]] = "live"
    BY DEF Inv, NoDanglingPointer, Live
  <2> QED
    BY <2>1, <2>2 DEF Inv, Lifecycle, CtxMem, Live
<1>6. \A h \in slot : h \in Handle /\ Live(h) /\ h \notin release /\ mem[h] = "live"
  BY DEF Inv, TypeOK, NoDanglingPointer, Lifecycle, CtxMem, Live
<1>7. \A w \in Worker : Dispatching(w) =>
         q[w] \in Handle /\ ctx[q[w]] = "ready" /\ q[w] \notin release
  <2> SUFFICES ASSUME NEW w \in Worker, Dispatching(w)
               PROVE  q[w] \in Handle /\ ctx[q[w]] = "ready" /\ q[w] \notin release
    OBVIOUS
  <2>1. q[w] \in Handle
    BY DEF Inv, TypeOK, Locals, HandleOrNone, Dispatching
  <2>2. ctx[q[w]] = "ready"
    BY DEF Inv, NoDanglingPointer
  <2> QED
    BY <2>1, <2>2 DEF Inv, Lifecycle, CtxMem
<1> QED
  BY <1>1, <1>3, <1>4, <1>5, <1>6, <1>7 DEF QueueOwned

\* What a step does to QueueOwned when it moves queue x from one owner to another, ...
LEMMA OwnedMove ==
    ASSUME QueueOwned, UNCHANGED <<mem, in_global, release>>,
           NEW x \in Handle, Owned(x), Owned(x)',
           \A h \in Handle \ {x} : /\ h \in linked' <=> h \in linked
                                   /\ \A v \in Worker : Holds(v, h)' <=> Holds(v, h)
    PROVE  QueueOwned'
<1>1. \A h \in Handle : Owned(h)' <=> Owned(h)
  <2>1. ASSUME NEW h \in Handle \ {x} PROVE Owned(h)' <=> Owned(h)
    BY DEF Owned
  <2> QED
    BY <2>1
<1> QED
  BY <1>1 DEF QueueOwned

\* ... and when it links queue x, which had no owner: x is scheduled or marked.
LEMMA OwnedGain ==
    ASSUME QueueOwned, UNCHANGED <<mem, q, nq, new, drop>>, NEW x \in Handle, mem[x] = "live",
           linked' = linked \cup {x},
           x \in in_global' \/ x \in release',
           \A h \in Handle \ {x} : (h \in in_global' \/ h \in release') <=> (h \in in_global \/ h \in release)
    PROVE  QueueOwned'
<1>1. \A h \in Handle, v \in Worker : Holds(v, h)' <=> Holds(v, h)
  BY DEF Holds
<1>2. \A h \in Handle \ {x} : Owned(h)' <=> Owned(h)
  BY <1>1 DEF Owned
<1>3. Owned(x)'
  BY DEF Owned
<1> QED
  BY <1>2, <1>3 DEF QueueOwned

\* ... and when queue x is given up: it is freed, or neither scheduled nor marked.
LEMMA OwnedLose ==
    ASSUME QueueOwned, NEW x \in Handle, ~Owned(x)',
           mem'[x] = "live" => x \notin in_global' /\ x \notin release',
           \A h \in Handle \ {x} : /\ mem'[h] = mem[h]
                                   /\ h \in in_global' <=> h \in in_global
                                   /\ h \in release' <=> h \in release
                                   /\ h \in linked' <=> h \in linked
                                   /\ \A v \in Worker : Holds(v, h)' <=> Holds(v, h)
    PROVE  QueueOwned'
<1>1. ASSUME NEW h \in Handle \ {x} PROVE Owned(h)' <=> Owned(h)
  BY DEF Owned
<1> QED
  BY <1>1 DEF QueueOwned

LEMMA OwnerStep == Inv /\ [Next]_vars => Queues'
<1> SUFFICES ASSUME Inv, [Next]_vars PROVE Queues'
  OBVIOUS
<1>a. TypeOK /\ Locals /\ Lifecycle /\ NoHandle \notin Handle
  BY DispatchAssumption DEF Inv
<1>b. Q \in Seq(Handle) /\ NoDup /\ OneHolder /\ QueueOwned
  BY Ownership
<1>c. \A h \in Handle : Owned(h) => h \in in_global \/ h \in release
  BY Ownership
<1>1. ASSUME NEW t \in Thread, MqPush(t) PROVE Queues'
  <2>1. CASE arg[t] \in in_global
    BY <1>1, <1>b, <2>1 DEF MqPush, Queues, NoDup, OneHolder, QueueOwned, Owned, Holds, linked, Linked, launchVars, workerVars
  <2>2. CASE arg[t] \notin in_global
    <3>1. arg[t] \in Handle /\ ~Owned(arg[t])
      BY <1>1, <1>c, <2>2, Ownership DEF MqPush
    <3>2. Q' = Append(Q, arg[t]) /\ UNCHANGED <<q, nq, new, drop>>
      BY <1>1, <2>2 DEF MqPush, globalmq_push, launchVars, workerVars
    <3>3. linked' = linked \cup {arg[t]} /\ NoDup'
      BY <1>b, <3>1, <3>2, PushLinked DEF Owned
    <3>8. OneHolder'
      BY <1>b, <3>1, <3>2, <3>3 DEF OneHolder, Holds, Owned
    <3>9. QueueOwned'
      <4>1. mem' = mem /\ mem[arg[t]] = "live"
        BY <1>1, Ownership DEF MqPush
      <4>2. /\ arg[t] \in in_global' \/ arg[t] \in release'
            /\ \A h \in Handle \ {arg[t]} : (h \in in_global' \/ h \in release') <=> (h \in in_global \/ h \in release)
        BY <1>1 DEF MqPush
      <4> QED
        BY <1>b, <3>1, <3>2, <3>3, <4>1, <4>2, OwnedGain
    <3> QED
      BY <3>8, <3>9, <3>3 DEF Queues
  <2> QED
    BY <2>1, <2>2
<1>2. ASSUME NEW t \in Thread, MqMarkRelease(t) PROVE Queues'
  <2>1. CASE arg[t] \in in_global
    BY <1>2, <1>b, <2>1 DEF MqMarkRelease, Queues, NoDup, OneHolder, QueueOwned, Owned, Holds, linked, Linked, launchVars, workerVars
  <2>2. CASE arg[t] \notin in_global
    <3>1. arg[t] \in Handle /\ ~Owned(arg[t])
      BY <1>2, <1>c, <2>2, Ownership DEF MqMarkRelease
    <3>2. Q' = Append(Q, arg[t]) /\ UNCHANGED <<q, nq, new, drop>>
      BY <1>2, <2>2 DEF MqMarkRelease, globalmq_push, launchVars, workerVars
    <3>3. linked' = linked \cup {arg[t]} /\ NoDup'
      BY <1>b, <3>1, <3>2, PushLinked DEF Owned
    <3>8. OneHolder'
      BY <1>b, <3>1, <3>2, <3>3 DEF OneHolder, Holds, Owned
    <3>9. QueueOwned'
      <4>1. mem' = mem /\ mem[arg[t]] = "live"
        BY <1>2, Ownership DEF MqMarkRelease
      <4>2. /\ arg[t] \in in_global' \/ arg[t] \in release'
            /\ \A h \in Handle \ {arg[t]} : (h \in in_global' \/ h \in release') <=> (h \in in_global \/ h \in release)
        BY <1>2 DEF MqMarkRelease
      <4> QED
        BY <1>b, <3>1, <3>2, <3>3, <4>1, <4>2, OwnedGain
    <3> QED
      BY <3>8, <3>9, <3>3 DEF Queues
  <2> QED
    BY <2>1, <2>2
<1>3. ASSUME NEW w \in Worker, DropQueue(w) PROVE Queues'
  <2>1. UNCHANGED <<Q, q, nq, new>> /\ drop' = [drop EXCEPT ![w] = NoHandle]
    BY <1>3 DEF DropQueue, workerVars, launchVars
  <2>2. linked' = linked /\ NoDup'
    BY <1>b, <2>1 DEF NoDup, linked, Linked
  <2>8. OneHolder'
    BY <1>a, <1>b, <2>1, <2>2 DEF OneHolder, Holds, TypeOK, linked
  <2>9. QueueOwned'
    <3>1. /\ drop[w] \in Handle /\ drop[w] \in release
          /\ mem' = [mem EXCEPT ![drop[w]] = "freed"] /\ release' = release
          /\ in_global' = in_global \ {drop[w]}
      BY <1>3, <1>a DEF DropQueue, TypeOK, HandleOrNone, Lifecycle, Draining
    <3>2. PICK x \in Handle : x = drop[w]
      BY <3>1
    <3>3. x \notin linked /\ x \notin {q[w], nq[w], new[w], NoHandle}
          /\ \A v \in Worker \ {w} : ~Holds(v, x)
      BY <1>a, <1>b, <3>2 DEF OneHolder, Holds
    <3>4. \A v \in Worker : ~Holds(v, x)'
      BY <1>a, <2>1, <3>3 DEF Holds, TypeOK
    <3>5. ~Owned(x)'
      BY <2>2, <3>3, <3>4 DEF Owned
    <3>6. \A h \in Handle \ {x}, v \in Worker : Holds(v, h)' <=> Holds(v, h)
      BY <1>a, <2>1, <3>2 DEF Holds, TypeOK
    <3>7. mem'[x] = "freed" /\ \A h \in Handle \ {x} :
             mem'[h] = mem[h] /\ (h \in in_global' <=> h \in in_global)
      BY <1>a, <3>1, <3>2 DEF TypeOK
    <3> QED
      BY <1>b, <2>2, <3>1, <3>5, <3>6, <3>7, OwnedLose
  <2> QED
    BY <2>8, <2>9, <2>2 DEF Queues
<1>4. ASSUME NEW w \in Worker, NEW h \in Handle, ContextNew(w, h) PROVE Queues'
  <2>1. UNCHANGED <<Q, q, nq, drop>> /\ new' = [new EXCEPT ![w] = h]
    BY <1>4 DEF ContextNew, workerVars
  <2>2. linked' = linked /\ NoDup'
    BY <1>b, <2>1 DEF NoDup, linked, Linked
  <2>3. ~Owned(h)
    BY <1>4, <1>a, Ownership DEF ContextNew, Lifecycle, CtxMem
  <2>8. OneHolder'
    BY <1>a, <1>b, <2>1, <2>2, <2>3 DEF OneHolder, Holds, TypeOK, Owned
  <2>9. QueueOwned'
    BY <1>4, <1>a, <1>b, <2>1, <2>2, <2>3 DEF ContextNew, QueueOwned, Owned, Holds, TypeOK, linked
  <2> QED
    BY <2>8, <2>9, <2>2 DEF Queues
<1>5. ASSUME NEW w \in Worker, ContextReady(w) PROVE Queues'
  <2>1. /\ new[w] \in Handle /\ Q' = Append(Q, new[w]) /\ UNCHANGED <<q, nq, drop>>
        /\ new' = [new EXCEPT ![w] = NoHandle]
    BY <1>5, <1>a DEF ContextReady, globalmq_push, workerVars, TypeOK, Locals, HandleOrNone
  <2>2. new[w] \notin linked
    BY <1>b, <2>1 DEF OneHolder, Holds
  <2>3. linked' = linked \cup {new[w]} /\ NoDup'
    BY <1>b, <2>1, <2>2, PushLinked
  <2>8. OneHolder'
    BY <1>a, <1>b, <2>1, <2>3 DEF OneHolder, Holds, TypeOK, linked
  <2>9. QueueOwned'
    BY <1>5, <1>a, <1>b, <2>1, <2>3 DEF ContextReady, QueueOwned, Owned, Holds, TypeOK, linked
  <2> QED
    BY <2>8, <2>9, <2>3 DEF Queues
<1>6. ASSUME NEW w \in Worker, NewMqRelease(w) PROVE Queues'
  <2>1. /\ new[w] \in Handle /\ UNCHANGED <<q, nq>> /\ drop[w] = NoHandle
        /\ new' = [new EXCEPT ![w] = NoHandle]
    BY <1>6, <1>a DEF NewMqRelease, workerVars, TypeOK, Locals, HandleOrNone
  <2>2. CASE new[w] \in release
    <3>1. drop' = [drop EXCEPT ![w] = new[w]] /\ Q' = Q
      BY <1>6, <2>2 DEF NewMqRelease, MqReleaseQueue
    <3>2. linked' = linked /\ NoDup'
      BY <1>b, <3>1 DEF NoDup, linked, Linked
    <3>8. OneHolder'
      BY <1>a, <1>b, <2>1, <3>1, <3>2 DEF OneHolder, Holds, TypeOK, linked
    <3>9. QueueOwned'
      <4>1. PICK x \in Handle : x = new[w]
        BY <2>1, <3>1, <3>2 DEF linked
      <4>2. UNCHANGED <<mem, in_global, release>>
        BY <1>6 DEF NewMqRelease
      <4>3. Owned(x) /\ Owned(x)'
        <5>1. Owned(x)
          BY <4>1, <2>1, <3>1, <3>2 DEF Owned, Holds
        <5>2. Owned(x)'
          BY <1>a, <4>1, <2>1, <3>1, <3>2 DEF Owned, Holds, TypeOK
        <5> QED
          BY <5>1, <5>2
      <4>4. \A h \in Handle \ {x} : h \in linked' <=> h \in linked
        BY <4>1, <2>1, <3>1, <3>2
      <4>5. \A h \in Handle \ {x}, v \in Worker : Holds(v, h)' <=> Holds(v, h)
        BY <1>a, <4>1, <2>1, <3>1, <3>2 DEF Holds, TypeOK
      <4> QED
        BY <1>b, <4>2, <4>3, <4>4, <4>5, OwnedMove
    <3> QED
      BY <3>8, <3>9, <3>2 DEF Queues
  <2>3. CASE new[w] \notin release
    <3>1. drop' = drop /\ Q' = Append(Q, new[w])
      BY <1>6, <2>3 DEF NewMqRelease, MqReleaseQueue, globalmq_push
    <3>2. new[w] \notin linked
      BY <1>b, <2>1 DEF OneHolder, Holds
    <3>3. linked' = linked \cup {new[w]} /\ NoDup'
      BY <1>b, <2>1, <3>1, <3>2, PushLinked
    <3>8. OneHolder'
      BY <1>a, <1>b, <2>1, <3>1, <3>3 DEF OneHolder, Holds, TypeOK, linked
    <3>9. QueueOwned'
      BY <1>6, <1>a, <1>b, <2>1, <3>1, <3>3 DEF NewMqRelease, QueueOwned, Owned, Holds, TypeOK, linked
    <3> QED
      BY <3>8, <3>9, <3>3 DEF Queues
  <2> QED
    BY <2>2, <2>3
<1>7. ASSUME NEW w \in Worker, Fetch(w) PROVE Queues'
  <2>1. CASE Q = <<>>
    BY <1>7, <1>b, <2>1 DEF Fetch, Queues, NoDup, OneHolder, QueueOwned, Owned, Holds, linked, Linked, launchVars
  <2>2. CASE Q # <<>>
    <3>1. /\ Q' = Tail(Q) /\ q' = [q EXCEPT ![w] = Head(Q)] /\ UNCHANGED <<nq, new, drop>>
      BY <1>7, <2>2 DEF Fetch, launchVars
    <3>2. Head(Q) \in linked /\ linked' = linked \ {Head(Q)} /\ NoDup'
      BY <1>b, <2>2, <3>1, PopLinked
    <3>4. q[w] = NoHandle
      BY <1>7, <1>a DEF Fetch, At, Locals
    <3>8. OneHolder'
      BY <1>a, <1>b, <3>1, <3>2 DEF OneHolder, Holds, TypeOK, linked
    <3>9. QueueOwned'
      <4>1. PICK x \in Handle : x = Head(Q)
        BY <3>2 DEF linked
      <4>2. UNCHANGED <<mem, in_global, release>>
        BY <1>7 DEF Fetch
      <4>3. Owned(x) /\ Owned(x)'
        <5>1. Owned(x)
          BY <4>1, <3>1, <3>2 DEF Owned, Holds
        <5>2. Owned(x)'
          BY <1>a, <4>1, <3>1, <3>2 DEF Owned, Holds, TypeOK
        <5> QED
          BY <5>1, <5>2
      <4>4. \A h \in Handle \ {x} : h \in linked' <=> h \in linked
        BY <4>1, <3>1, <3>2
      <4>5. \A h \in Handle \ {x}, v \in Worker : Holds(v, h)' <=> Holds(v, h)
        BY <1>a, <4>1, <3>1, <3>2, <3>4 DEF Holds, TypeOK
      <4> QED
        BY <1>b, <4>2, <4>3, <4>4, <4>5, OwnedMove
    <3> QED
      BY <3>8, <3>9, <3>2 DEF Queues
  <2> QED
    BY <2>1, <2>2
<1>8. ASSUME NEW w \in Worker, MqRelease(w) PROVE Queues'
  <2>1. /\ q[w] \in Handle /\ UNCHANGED <<nq, new>> /\ drop[w] = NoHandle
        /\ q' = [q EXCEPT ![w] = NoHandle] /\ nq[w] = NoHandle
    BY <1>8, <1>a DEF MqRelease, At, launchVars, TypeOK, Locals, HandleOrNone
  <2>2. CASE q[w] \in release
    <3>1. drop' = [drop EXCEPT ![w] = q[w]] /\ Q' = Q
      BY <1>8, <2>2 DEF MqRelease, MqReleaseQueue
    <3>2. linked' = linked /\ NoDup'
      BY <1>b, <3>1 DEF NoDup, linked, Linked
    <3>8. OneHolder'
      BY <1>a, <1>b, <2>1, <3>1, <3>2 DEF OneHolder, Holds, TypeOK, linked
    <3>9. QueueOwned'
      <4>1. PICK x \in Handle : x = q[w]
        BY <2>1, <3>1, <3>2 DEF linked
      <4>2. UNCHANGED <<mem, in_global, release>>
        BY <1>8 DEF MqRelease
      <4>3. Owned(x) /\ Owned(x)'
        <5>1. Owned(x)
          BY <4>1, <2>1, <3>1, <3>2 DEF Owned, Holds
        <5>2. Owned(x)'
          BY <1>a, <4>1, <2>1, <3>1, <3>2 DEF Owned, Holds, TypeOK
        <5> QED
          BY <5>1, <5>2
      <4>4. \A h \in Handle \ {x} : h \in linked' <=> h \in linked
        BY <4>1, <2>1, <3>1, <3>2
      <4>5. \A h \in Handle \ {x}, v \in Worker : Holds(v, h)' <=> Holds(v, h)
        BY <1>a, <4>1, <2>1, <3>1, <3>2 DEF Holds, TypeOK
      <4> QED
        BY <1>b, <4>2, <4>3, <4>4, <4>5, OwnedMove
    <3> QED
      BY <3>8, <3>9, <3>2 DEF Queues
  <2>3. CASE q[w] \notin release
    <3>1. drop' = drop /\ Q' = Append(Q, q[w])
      BY <1>8, <2>3 DEF MqRelease, MqReleaseQueue, globalmq_push
    <3>2. q[w] \notin linked
      BY <1>b, <2>1 DEF OneHolder, Holds
    <3>3. linked' = linked \cup {q[w]} /\ NoDup'
      BY <1>b, <2>1, <3>1, <3>2, PushLinked
    <3>8. OneHolder'
      BY <1>a, <1>b, <2>1, <3>1, <3>3 DEF OneHolder, Holds, TypeOK, linked
    <3>9. QueueOwned'
      BY <1>8, <1>a, <1>b, <2>1, <3>1, <3>3 DEF MqRelease, QueueOwned, Owned, Holds, TypeOK, linked
    <3> QED
      BY <3>8, <3>9, <3>3 DEF Queues
  <2> QED
    BY <2>2, <2>3
<1>9. ASSUME NEW w \in Worker, MqPop(w) PROVE Queues'
  <2>1. /\ UNCHANGED <<Q, nq, new, drop>>
        /\ q' = [q EXCEPT ![w] = NoHandle] \/ q' = q
    BY <1>9 DEF MqPop, launchVars
  <2>2. linked' = linked /\ NoDup'
    BY <1>b, <2>1 DEF NoDup, linked, Linked
  <2>8. OneHolder'
    BY <1>a, <1>b, <2>1, <2>2 DEF OneHolder, Holds, TypeOK, linked
  <2>9. QueueOwned'
    <3>1. CASE mq[q[w]] # <<>>
      BY <1>9, <1>b, <2>1, <2>2, <3>1 DEF MqPop, QueueOwned, Owned, Holds
    <3>2. CASE mq[q[w]] = <<>>
      <4>1. /\ q' = [q EXCEPT ![w] = NoHandle] /\ in_global' = in_global \ {q[w]}
            /\ UNCHANGED <<mem, release>> /\ Dispatching(w)
        BY <1>9, <3>2 DEF MqPop, At, Dispatching
      <4>2. PICK x \in Handle : x = q[w]
        BY <4>1, Ownership
      <4>3. x \notin release /\ x \notin linked /\ x \notin {nq[w], drop[w], new[w], NoHandle}
            /\ \A v \in Worker \ {w} : ~Holds(v, x)
        <5>1. x \notin release
          BY <4>1, <4>2, Ownership
        <5>2. x \notin linked /\ \A v \in Worker \ {w} : ~Holds(v, x)
          BY <1>b, <4>2 DEF OneHolder, Holds
        <5>3. x \notin {nq[w], drop[w], new[w], NoHandle}
          BY <1>a, <1>b, <4>2 DEF OneHolder
        <5> QED
          BY <5>1, <5>2, <5>3
      <4>4. \A v \in Worker : ~Holds(v, x)'
        BY <1>a, <2>1, <4>1, <4>3 DEF Holds, TypeOK
      <4>5. ~Owned(x)'
        BY <2>2, <4>3, <4>4 DEF Owned
      <4>6. \A h \in Handle \ {x}, v \in Worker : Holds(v, h)' <=> Holds(v, h)
        BY <1>a, <2>1, <4>1, <4>2 DEF Holds, TypeOK
      <4> QED
        BY <1>b, <2>2, <4>1, <4>2, <4>3, <4>5, <4>6, OwnedLose
    <3> QED
      BY <3>1, <3>2
  <2> QED
    BY <2>8, <2>9, <2>2 DEF Queues
<1>10. ASSUME NEW w \in Worker, Requeue(w) PROVE Queues'
  <2>1. CASE Q = <<>>
    BY <1>10, <1>b, <2>1 DEF Requeue, Queues, NoDup, OneHolder, QueueOwned, Owned, Holds, linked, Linked, launchVars
  <2>2. CASE Q # <<>>
    <3>1. /\ Q' = Tail(Q) /\ nq' = [nq EXCEPT ![w] = Head(Q)] /\ UNCHANGED <<q, new, drop>>
      BY <1>10, <2>2 DEF Requeue, launchVars
    <3>2. Head(Q) \in linked /\ linked' = linked \ {Head(Q)} /\ NoDup'
      BY <1>b, <2>2, <3>1, PopLinked
    <3>4. nq[w] = NoHandle
      BY <1>10, <1>a DEF Requeue, At, Locals
    <3>8. OneHolder'
      BY <1>a, <1>b, <3>1, <3>2 DEF OneHolder, Holds, TypeOK, linked
    <3>9. QueueOwned'
      <4>1. PICK x \in Handle : x = Head(Q)
        BY <3>1, <3>2, <3>4 DEF linked
      <4>2. UNCHANGED <<mem, in_global, release>>
        BY <1>10 DEF Requeue
      <4>3. Owned(x) /\ Owned(x)'
        <5>1. Owned(x)
          BY <4>1, <3>1, <3>2, <3>4 DEF Owned, Holds
        <5>2. Owned(x)'
          BY <1>a, <4>1, <3>1, <3>2, <3>4 DEF Owned, Holds, TypeOK
        <5> QED
          BY <5>1, <5>2
      <4>4. \A h \in Handle \ {x} : h \in linked' <=> h \in linked
        BY <4>1, <3>1, <3>2, <3>4
      <4>5. \A h \in Handle \ {x}, v \in Worker : Holds(v, h)' <=> Holds(v, h)
        BY <1>a, <4>1, <3>1, <3>2, <3>4 DEF Holds, TypeOK
      <4> QED
        BY <1>b, <4>2, <4>3, <4>4, <4>5, OwnedMove
    <3> QED
      BY <3>8, <3>9, <3>2 DEF Queues
  <2> QED
    BY <2>1, <2>2
<1>11. ASSUME NEW w \in Worker, PushBack(w) PROVE Queues'
  <2>1. /\ q[w] \in Handle /\ UNCHANGED <<new, drop>> /\ Q' = Append(Q, q[w])
        /\ q' = [q EXCEPT ![w] = nq[w]] /\ nq' = [nq EXCEPT ![w] = NoHandle]
    BY <1>11, <1>a DEF PushBack, globalmq_push, At, launchVars, TypeOK, Locals, HandleOrNone
  <2>2. q[w] \notin linked
    BY <1>b, <2>1 DEF OneHolder, Holds
  <2>3. linked' = linked \cup {q[w]} /\ NoDup'
    BY <1>b, <2>1, <2>2, PushLinked
  <2>8. OneHolder'
    BY <1>a, <1>b, <2>1, <2>3 DEF OneHolder, Holds, TypeOK, linked
  <2>9. QueueOwned'
    BY <1>11, <1>a, <1>b, <2>1, <2>3 DEF PushBack, QueueOwned, Owned, Holds, TypeOK, linked
  <2> QED
    BY <2>8, <2>9, <2>3 DEF Queues
<1>12. CASE UNCHANGED <<Q, q, nq, new, drop, mem, in_global, release>>
  BY <1>12, <1>b DEF Queues, NoDup, OneHolder, QueueOwned, Owned, Holds, linked, Linked
<1> QED
  <2>1. ASSUME NEW t \in Thread, ContextRelease(t) \/ Request(t)
        PROVE  Queues'
    BY <2>1, <1>4, <1>12 DEF ContextRelease, Request, ContextPush, HandleRetire, mqVars, workerVars, launchVars
  <2>2. ASSUME NEW w \in Worker, \/ Grab(w) \/ MqLength(w) \/ CallbackReturns(w) \/ DropMessage(w)
                                 \/ ContextFailed(w) \/ Wakeup(w)
                                 \/ InitReturns(w, "ok") \/ InitReturns(w, "failed")
        PROVE  Queues'
    BY <2>2, <1>12 DEF Grab, MqLength, CallbackReturns, DropMessage, ContextFailed, Wakeup,
                       InitReturns, mqVars, workerVars, launchVars
  <2>3. CASE UNCHANGED vars
    BY <2>3, <1>12 DEF vars
  <2> QED
    BY <1>1, <1>2, <1>3, <1>5, <1>6, <1>7, <1>8, <1>9, <1>10, <1>11, <2>1, <2>2, <2>3
    DEF Next, Operation, Loop
-----------------------------------------------------------------------------
\* The step of NoLostMessage: skynet_mq_pop clears in_global only of an empty queue,
\* _release only of a marked one.
LEMMA MessageStep == Inv /\ [Next]_vars => NoLostMessage'
<1> SUFFICES ASSUME Inv, [Next]_vars PROVE NoLostMessage'
  OBVIOUS
<1>a. TypeOK /\ Locals /\ Lifecycle /\ NoLostMessage /\ NoHandle \notin Handle
  BY DispatchAssumption DEF Inv
<1>1. ASSUME NEW t \in Thread, MqPush(t) PROVE NoLostMessage'
  <2>1. arg[t] \in in_global' /\ in_global \subseteq in_global' /\ release' = release
    BY <1>1 DEF MqPush
  <2>2. \A h \in Handle \ {arg[t]} : mq'[h] = mq[h]
    BY <1>1, <1>a DEF MqPush, TypeOK
  <2> QED
    BY <1>a, <2>1, <2>2 DEF NoLostMessage
<1>2. ASSUME NEW w \in Worker, DropQueue(w) PROVE NoLostMessage'
  BY <1>2, <1>a DEF DropQueue, NoLostMessage, Lifecycle, Draining
<1>3. ASSUME NEW w \in Worker, MqPop(w) PROVE NoLostMessage'
  <2>1. CASE mq[q[w]] = <<>>
    BY <1>3, <1>a, <2>1 DEF MqPop, NoLostMessage
  <2>2. CASE mq[q[w]] # <<>>
    <3>1. \A h \in Handle : mq'[h] # <<>> => mq[h] # <<>>
      BY <1>3, <1>a, <2>2 DEF MqPop, TypeOK
    <3> QED
      BY <1>3, <1>a, <2>2, <3>1 DEF MqPop, NoLostMessage
  <2> QED
    BY <2>1, <2>2
<1>4. ASSUME NEW w \in Worker, DropMessage(w) PROVE NoLostMessage'
  <2>1. \A h \in Handle : mq'[h] # <<>> => mq[h] # <<>>
    BY <1>4, <1>a DEF DropMessage, TypeOK
  <2> QED
    BY <1>4, <1>a, <2>1 DEF DropMessage, NoLostMessage
<1>5. CASE mq' = mq /\ in_global \subseteq in_global' /\ release \subseteq release'
  BY <1>5, <1>a DEF NoLostMessage
<1> QED
  <2>1. ASSUME NEW t \in Thread, ContextRelease(t) \/ MqMarkRelease(t) \/ Request(t)
        PROVE  NoLostMessage'
    BY <2>1, <1>5 DEF ContextRelease, MqMarkRelease, Request, ContextPush, HandleRetire,
                      ContextNew, mqVars
  <2>2. ASSUME NEW w \in Worker, \/ Grab(w) \/ MqLength(w) \/ CallbackReturns(w)
                                 \/ ContextFailed(w) \/ Wakeup(w) \/ Fetch(w) \/ MqRelease(w)
                                 \/ Requeue(w) \/ PushBack(w) \/ ContextReady(w) \/ NewMqRelease(w)
                                 \/ InitReturns(w, "ok") \/ InitReturns(w, "failed")
        PROVE  NoLostMessage'
    BY <2>2, <1>5 DEF Grab, MqLength, CallbackReturns, ContextFailed, Wakeup, Fetch, MqRelease,
                      Requeue, PushBack, ContextReady, NewMqRelease, InitReturns, mqVars
  <2>3. CASE UNCHANGED vars
    BY <2>3, <1>5 DEF vars
  <2> QED
    BY <1>1, <1>2, <1>3, <1>4, <2>1, <2>2, <2>3 DEF Next, Operation, Loop
-----------------------------------------------------------------------------
(***************************************************************************)
(* The reference count.  A step leaves the set of references alone, adds   *)
(* one, removes one, or hands one over to another holder.                  *)
(***************************************************************************)
Kind == {"storage", "creator", "call", "dispatch"}
Holder == Thread \cup {NoHandle}

LEMMA RefFinite == ASSUME NEW S \in SUBSET (Kind \X Holder)
                   PROVE  IsFiniteSet(S) /\ Cardinality(S) \in Nat
<1>1. IsFiniteSet(Kind)
  <2>1. Kind = {"storage"} \cup {"creator"} \cup {"call"} \cup {"dispatch"}
    BY DEF Kind
  <2>2. IsFiniteSet({"storage"})
    BY FS_Singleton
  <2>3. IsFiniteSet({"storage"} \cup {"creator"})
    BY <2>2, FS_AddElement
  <2>4. IsFiniteSet({"storage"} \cup {"creator"} \cup {"call"})
    BY <2>3, FS_AddElement
  <2> QED
    BY <2>1, <2>4, FS_AddElement
<1>2. IsFiniteSet(Holder)
  <2>1. IsFiniteSet(Thread)
    BY DispatchAssumption, FS_Union DEF Thread
  <2> QED
    BY <2>1, FS_AddElement DEF Holder
<1>3. IsFiniteSet(Kind \X Holder)
  BY <1>1, <1>2, FS_Product
<1> QED
  BY <1>3, FS_Subset, FS_CardinalityType

LEMMA RefType == ASSUME NEW h
                 PROVE  /\ References(h) \in SUBSET (Kind \X Holder)
                        /\ References(h)' \in SUBSET (Kind \X Holder)
                        /\ \A k \in Kind, x \in Holder :
                              /\ <<k, x>> \in References(h) <=> Refers(k, x, h)
                              /\ <<k, x>> \in References(h)' <=> Refers(k, x, h)'
BY DEF References, Kind, Holder

\* A context whose count is 0 has no reference at all, in particular is not in
\* the handle storage; a context with a reference has a positive count.
LEMMA Counted ==
    ASSUME RefExact, NEW h \in Handle, NEW k \in Kind, NEW x \in Holder, Refers(k, x, h)
    PROVE  ref[h] > 0
<1>1. <<k, x>> \in References(h) /\ IsFiniteSet(References(h)) /\ Cardinality(References(h)) \in Nat
  BY RefType, RefFinite
<1>2. Cardinality(References(h)) # 0
  BY <1>1, FS_EmptySet
<1> QED
  BY <1>1, <1>2 DEF RefExact

LEMMA RefsSame ==
    ASSUME RefExact, ref' = ref,
           \A h \in Handle, k \in Kind, x \in Holder : Refers(k, x, h)' <=> Refers(k, x, h)
    PROVE  RefExact'
<1>1. ASSUME NEW h \in Handle PROVE References(h)' = References(h)
  BY DEF References, Kind, Holder
<1> QED
  BY <1>1 DEF RefExact

LEMMA RefsGain ==
    ASSUME RefExact, ref \in [Handle -> Int],
           NEW g \in Handle, NEW l \in Kind, NEW y \in Holder,
           Refers(l, y, g)',
           NEW n \in Int, n = ref[g] + 1, ref' = [ref EXCEPT ![g] = n],
           \A h \in Handle, k \in Kind, x \in Holder :
               Refers(k, x, h) <=> Refers(k, x, h)' /\ ~(k = l /\ x = y /\ h = g)
    PROVE  RefExact'
<1>1. ASSUME NEW h \in Handle \ {g} PROVE References(h)' = References(h)
  BY DEF References, Kind, Holder
<1>2. References(g)' = References(g) \cup {<<l, y>>}
  <2>1. \A r \in Kind \X Holder : r \in References(g)' <=> r \in References(g) \/ r = <<l, y>>
    BY DEF References, Kind, Holder
  <2> QED
    BY <2>1, RefType
<1>3. <<l, y>> \notin References(g) /\ IsFiniteSet(References(g))
  BY RefType, RefFinite
<1>4. Cardinality(References(g)') = Cardinality(References(g)) + 1
  BY <1>2, <1>3, FS_AddElement
<1> QED
  BY <1>1, <1>4 DEF RefExact

LEMMA RefsLose ==
    ASSUME RefExact, ref \in [Handle -> Int],
           NEW g \in Handle, NEW l \in Kind, NEW y \in Holder, Refers(l, y, g),
           NEW n \in Int, n = ref[g] - 1, ref' = [ref EXCEPT ![g] = n],
           \A h \in Handle, k \in Kind, x \in Holder :
               Refers(k, x, h)' <=> Refers(k, x, h) /\ ~(k = l /\ x = y /\ h = g)
    PROVE  RefExact'
<1>1. ASSUME NEW h \in Handle \ {g} PROVE References(h)' = References(h)
  BY DEF References, Kind, Holder
<1>2. References(g)' = References(g) \ {<<l, y>>}
  <2>1. \A r \in Kind \X Holder : r \in References(g)' <=> r \in References(g) /\ r # <<l, y>>
    BY DEF References, Kind, Holder
  <2> QED
    BY <2>1, RefType
<1>3. <<l, y>> \in References(g) /\ IsFiniteSet(References(g))
  BY RefType, RefFinite
<1>4. Cardinality(References(g)') = Cardinality(References(g)) - 1
  BY <1>2, <1>3, FS_RemoveElement
<1> QED
  BY <1>1, <1>4 DEF RefExact

\* The reference (l, y) to g becomes the reference (m, z) to g.
LEMMA RefsMove ==
    ASSUME RefExact, ref' = ref,
           NEW g \in Handle, NEW l \in Kind, NEW y \in Holder, Refers(l, y, g),
           NEW m \in Kind, NEW z \in Holder, ~Refers(m, z, g),
           \A h \in Handle, k \in Kind, x \in Holder :
               Refers(k, x, h)' <=> \/ Refers(k, x, h) /\ ~(k = l /\ x = y /\ h = g)
                                    \/ k = m /\ x = z /\ h = g
    PROVE  RefExact'
<1>1. ASSUME NEW h \in Handle \ {g} PROVE References(h)' = References(h)
  BY DEF References, Kind, Holder
<1>2. References(g)' = (References(g) \ {<<l, y>>}) \cup {<<m, z>>}
  <2>1. \A r \in Kind \X Holder :
          r \in References(g)' <=> (r \in References(g) /\ r # <<l, y>>) \/ r = <<m, z>>
    BY DEF References, Kind, Holder
  <2> QED
    BY <2>1, RefType
<1>3. /\ <<l, y>> \in References(g) /\ <<m, z>> \notin References(g)
      /\ IsFiniteSet(References(g)) /\ Cardinality(References(g)) \in Nat
  BY RefType, RefFinite
<1>4. /\ Cardinality(References(g) \ {<<l, y>>}) = Cardinality(References(g)) - 1
      /\ IsFiniteSet(References(g) \ {<<l, y>>})
  BY <1>3, FS_RemoveElement
<1>5. Cardinality(References(g)') = Cardinality(References(g) \ {<<l, y>>}) + 1
  BY <1>2, <1>3, <1>4, FS_AddElement
<1> QED
  BY <1>1, <1>3, <1>4, <1>5 DEF RefExact

\* skynet_context_new: the storage's reference and the creator's.
LEMMA RefsNew ==
    ASSUME RefExact, ref \in [Handle -> Int], NEW g \in Handle, NEW w \in Worker,
           \A k \in Kind, x \in Holder : ~Refers(k, x, g),
           ref' = [ref EXCEPT ![g] = 2],
           \A h \in Handle, k \in Kind, x \in Holder :
               Refers(k, x, h)' <=> \/ Refers(k, x, h)
                                    \/ k = "storage" /\ x = NoHandle /\ h = g
                                    \/ k = "creator" /\ x = w /\ h = g
    PROVE  RefExact'
<1>1. ASSUME NEW h \in Handle \ {g} PROVE References(h)' = References(h)
  BY DEF References, Kind, Holder
<1>2. References(g)' = {<<"storage", NoHandle>>} \cup {<<"creator", w>>}
  <2>1. \A r \in Kind \X Holder :
          r \in References(g)' <=> r = <<"storage", NoHandle>> \/ r = <<"creator", w>>
    BY DEF References, Kind, Holder
  <2>2. <<"storage", NoHandle>> \in Kind \X Holder /\ <<"creator", w>> \in Kind \X Holder
    BY DEF Kind, Holder, Thread
  <2> QED
    BY <2>1, <2>2, RefType
<1>3. Cardinality(References(g)') = 2
  <2>1. IsFiniteSet({<<"storage", NoHandle>>}) /\ Cardinality({<<"storage", NoHandle>>}) = 1
    BY FS_Singleton
  <2>2. <<"creator", w>> \notin {<<"storage", NoHandle>>}
    OBVIOUS
  <2>3. ASSUME NEW S, NEW x, IsFiniteSet(S), Cardinality(S) = 1, x \notin S
        PROVE  Cardinality(S \cup {x}) = 2
    <3>1. Cardinality(S \cup {x}) = Cardinality(S) + 1
      BY <2>3, FS_AddElement
    <3> QED
      BY <2>3, <3>1
  <2> QED
    BY <1>2, <2>1, <2>2, <2>3
<1> QED
  BY <1>1, <1>3 DEF RefExact

\* The step of RefExact, action by action.
LEMMA RefStep == Inv /\ [Next]_vars => RefExact'
<1> SUFFICES ASSUME Inv, [Next]_vars PROVE RefExact'
  OBVIOUS
<1>a. TypeOK /\ Locals /\ Lifecycle /\ RefExact /\ NoHandle \notin Handle /\ ref \in [Handle -> Int]
  BY DispatchAssumption DEF Inv, TypeOK
<1>b. Worker \subseteq Holder /\ Thread \subseteq Holder /\ Worker \subseteq Thread /\ NoHandle \in Holder
  BY DEF Holder, Thread
<1>c. /\ \A w \in Worker : Dispatching(w) => q[w] \in Handle
      /\ \A w \in Worker : stage[w] # "none" => new[w] \in Handle
      /\ \A t \in Thread : call[t] # "none" => arg[t] \in Handle
  BY <1>a DEF TypeOK, Locals, HandleOrNone, Dispatching
<1>1. ASSUME NEW t \in Thread, NEW g \in Handle, ContextPush(t, g) PROVE RefExact'
  <2>1. /\ call[t] = "none" /\ UNCHANGED <<slot, stage, new, pc, q>>
        /\ call' = [call EXCEPT ![t] = "push"] /\ arg' = [arg EXCEPT ![t] = g]
        /\ ref' = [ref EXCEPT ![g] = ref[g] + 1]
    BY <1>1 DEF ContextPush, CanCall, Begin, workerVars, launchVars
  <2>2. Refers("call", t, g)'
    BY <1>a, <2>1 DEF Refers, TypeOK
  <2>3. \A h \in Handle, k \in Kind, x \in Holder :
            Refers(k, x, h) <=> Refers(k, x, h)' /\ ~(k = "call" /\ x = t /\ h = g)
    BY <1>a, <2>1 DEF Refers, Dispatching, TypeOK, Kind
  <2>4. "call" \in Kind
    BY DEF Kind
  <2>5. PICK n \in Int : n = ref[g] + 1
    BY <1>a
  <2>6. ref' = [ref EXCEPT ![g] = n]
    BY <2>1, <2>5
  <2> QED
    BY <1>a, <1>b, <2>2, <2>3, <2>4, <2>5, <2>6, RefsGain
<1>2. ASSUME NEW t \in Thread, MqPush(t) PROVE RefExact'
  <2>1. /\ call[t] = "push" /\ UNCHANGED <<ref, slot, stage, new, pc, q>>
        /\ call' = [call EXCEPT ![t] = "release"] /\ arg' = [arg EXCEPT ![t] = arg[t]]
    BY <1>2 DEF MqPush, Begin, workerVars, launchVars, ctxVars
  <2>2. \A h \in Handle, k \in Kind, x \in Holder : Refers(k, x, h)' <=> Refers(k, x, h)
    BY <1>a, <2>1 DEF Refers, Dispatching, TypeOK, Kind
  <2> QED
    BY <1>a, <2>1, <2>2, RefsSame
<1>3. ASSUME NEW t \in Thread, ContextRelease(t) PROVE RefExact'
  <2>1. PICK g \in Handle : g = arg[t]
    BY <1>3, <1>c DEF ContextRelease
  <2>2. /\ call[t] = "release" /\ UNCHANGED <<slot, stage, new, pc, q>>
        /\ \/ call' = [call EXCEPT ![t] = "mark"] /\ arg' = [arg EXCEPT ![t] = g]
           \/ call' = [call EXCEPT ![t] = "none"] /\ arg' = [arg EXCEPT ![t] = NoHandle]
        /\ ref' = [ref EXCEPT ![g] = ref[g] - 1]
    BY <1>3, <2>1 DEF ContextRelease, Begin, Return, workerVars, launchVars
  <2>3. Refers("call", t, g)
    BY <2>1, <2>2 DEF Refers
  <2>4. \A h \in Handle, k \in Kind, x \in Holder :
            Refers(k, x, h)' <=> Refers(k, x, h) /\ ~(k = "call" /\ x = t /\ h = g)
    BY <1>a, <2>1, <2>2 DEF Refers, Dispatching, TypeOK, Kind
  <2>5. "call" \in Kind
    BY DEF Kind
  <2>6. PICK n \in Int : n = ref[g] - 1
    BY <1>a
  <2>7. ref' = [ref EXCEPT ![g] = n]
    BY <2>2, <2>6
  <2> QED
    BY <1>a, <1>b, <2>3, <2>4, <2>5, <2>6, <2>7, RefsLose
<1>4. ASSUME NEW t \in Thread, MqMarkRelease(t) PROVE RefExact'
  <2>1. /\ call[t] = "mark" /\ UNCHANGED <<ref, slot, stage, new, pc, q>>
        /\ call' = [call EXCEPT ![t] = "none"] /\ arg' = [arg EXCEPT ![t] = NoHandle]
    BY <1>4 DEF MqMarkRelease, Begin, Return, workerVars, launchVars
  <2>2. \A h \in Handle, k \in Kind, x \in Holder : Refers(k, x, h)' <=> Refers(k, x, h)
    BY <1>a, <2>1 DEF Refers, Dispatching, TypeOK, Kind
  <2> QED
    BY <1>a, <2>1, <2>2, RefsSame
<1>5. ASSUME NEW w \in Worker, NEW g \in Handle, g \in slot, slot' = slot \ {g}, call[w] = "none",
             Begin(w, "release", g), UNCHANGED <<ref, new, pc, q>>,
             \A v \in Worker : stage[v] = "init" <=> stage'[v] = "init"
      PROVE  RefExact'
  <2>1. call' = [call EXCEPT ![w] = "release"] /\ arg' = [arg EXCEPT ![w] = g]
    BY <1>5 DEF Begin
  <2>2. Refers("storage", NoHandle, g) /\ ~Refers("call", w, g)
    BY <1>5 DEF Refers
  <2>3. \A h \in Handle, k \in Kind, x \in Holder :
            Refers(k, x, h)' <=> \/ Refers(k, x, h) /\ ~(k = "storage" /\ x = NoHandle /\ h = g)
                                 \/ k = "call" /\ x = w /\ h = g
    BY <1>a, <1>b, <1>5, <2>1 DEF Refers, Dispatching, TypeOK, Kind
  <2>4. "call" \in Kind /\ "storage" \in Kind
    BY DEF Kind
  <2> QED
    BY <1>a, <1>b, <1>5, <2>2, <2>3, <2>4, RefsMove
<1>6. ASSUME NEW w \in Worker, NEW g \in Handle, HandleRetire(w, g) PROVE RefExact'
  BY <1>6, <1>5 DEF HandleRetire, CanCall, workerVars, launchVars
<1>7. ASSUME NEW w \in Worker, DropMessage(w) PROVE RefExact'
  <2>1. CASE Head(mq[drop[w]]) \in slot
    <3>1. PICK g \in Handle : g = Head(mq[drop[w]])
      BY <1>a, <2>1 DEF TypeOK
    <3>2. /\ call[w] = "none" /\ UNCHANGED <<slot, stage, new, pc, q>>
          /\ call' = [call EXCEPT ![w] = "push"] /\ arg' = [arg EXCEPT ![w] = g]
          /\ ref' = [ref EXCEPT ![g] = ref[g] + 1]
      BY <1>7, <2>1, <3>1 DEF DropMessage, Begin, workerVars, launchVars
    <3>3. Refers("call", w, g)'
      BY <1>a, <1>b, <3>2 DEF Refers, TypeOK
    <3>4. \A h \in Handle, k \in Kind, x \in Holder :
              Refers(k, x, h) <=> Refers(k, x, h)' /\ ~(k = "call" /\ x = w /\ h = g)
      BY <1>a, <1>b, <3>2 DEF Refers, Dispatching, TypeOK, Kind
    <3>5. "call" \in Kind
      BY DEF Kind
    <3>6. PICK n \in Int : n = ref[g] + 1
      BY <1>a
    <3>7. ref' = [ref EXCEPT ![g] = n]
      BY <3>2, <3>6
    <3> QED
      BY <1>a, <1>b, <3>3, <3>4, <3>5, <3>6, <3>7, RefsGain
  <2>2. CASE Head(mq[drop[w]]) \notin slot
    <3>1. UNCHANGED <<ref, slot, stage, new, pc, q, call, arg>>
      BY <1>7, <2>2 DEF DropMessage, workerVars, launchVars
    <3>2. \A h \in Handle, k \in Kind, x \in Holder : Refers(k, x, h)' <=> Refers(k, x, h)
      BY <3>1 DEF Refers, Dispatching
    <3> QED
      BY <1>a, <3>1, <3>2, RefsSame
  <2> QED
    BY <2>1, <2>2
<1>8. ASSUME NEW w \in Worker, NEW g \in Handle, ContextNew(w, g) PROVE RefExact'
  <2>1. /\ slot' = slot \cup {g} /\ new' = [new EXCEPT ![w] = g] /\ stage' = [stage EXCEPT ![w] = "init"]
        /\ UNCHANGED <<pc, q, call, arg>> /\ ref' = [ref EXCEPT ![g] = 2]
        /\ stage[w] = "none" /\ ctx[g] = "none"
    BY <1>8, <1>a DEF ContextNew, workerVars, Locals
  <2>2. /\ g \notin slot
        /\ \A v \in Worker : stage[v] = "init" => new[v] # g
        /\ \A t \in Thread : call[t] # "none" => arg[t] # g
        /\ \A v \in Worker : Dispatching(v) => q[v] # g
    BY <1>a, <2>1, Ownership DEF Lifecycle, Launching, Live
  <2>3. \A k \in Kind, x \in Holder : ~Refers(k, x, g)
    BY <2>2 DEF Refers
  <2>4. \A h \in Handle, k \in Kind, x \in Holder :
            Refers(k, x, h)' <=> \/ Refers(k, x, h)
                                 \/ k = "storage" /\ x = NoHandle /\ h = g
                                 \/ k = "creator" /\ x = w /\ h = g
    BY <1>a, <2>1 DEF Refers, Dispatching, TypeOK, Kind
  <2> QED
    BY <1>a, <2>1, <2>3, <2>4, RefsNew
<1>9. ASSUME NEW w \in Worker, NEW r \in {"ok", "failed"}, InitReturns(w, r) PROVE RefExact'
  <2>1. PICK g \in Handle : g = new[w]
    BY <1>9, <1>c DEF InitReturns
  <2>2. /\ call[w] = "none" /\ stage[w] = "init" /\ stage' = [stage EXCEPT ![w] = r]
        /\ UNCHANGED <<ref, slot, new, pc, q>>
        /\ call' = [call EXCEPT ![w] = "release"] /\ arg' = [arg EXCEPT ![w] = g]
    BY <1>9, <2>1 DEF InitReturns, Begin, ctxVars, workerVars
  <2>3. Refers("creator", w, g) /\ ~Refers("call", w, g)
    BY <2>1, <2>2 DEF Refers
  <2>4. \A h \in Handle, k \in Kind, x \in Holder :
            Refers(k, x, h)' <=> \/ Refers(k, x, h) /\ ~(k = "creator" /\ x = w /\ h = g)
                                 \/ k = "call" /\ x = w /\ h = g
    BY <1>a, <1>b, <2>1, <2>2 DEF Refers, Dispatching, TypeOK, Kind
  <2>5. "call" \in Kind /\ "creator" \in Kind
    BY DEF Kind
  <2> QED
    BY <1>a, <1>b, <2>2, <2>3, <2>4, <2>5, RefsMove
<1>10. ASSUME NEW w \in Worker, ContextFailed(w) PROVE RefExact'
  <2>1. CASE new[w] \in slot
    <3>1. new[w] \in Handle /\ \A v \in Worker : stage[v] = "init" <=> stage'[v] = "init"
      BY <1>10, <1>a, <1>c DEF ContextFailed, TypeOK
    <3> QED
      BY <1>10, <1>5, <2>1, <3>1 DEF ContextFailed, workerVars
  <2>2. CASE new[w] \notin slot
    <3>1. /\ stage[w] = "failed" /\ stage' = [stage EXCEPT ![w] = "mqrelease"]
          /\ UNCHANGED <<ref, slot, new, pc, q, call, arg>>
      BY <1>10, <2>2 DEF ContextFailed, workerVars
    <3>2. \A h \in Handle, k \in Kind, x \in Holder : Refers(k, x, h)' <=> Refers(k, x, h)
      BY <1>a, <3>1 DEF Refers, Dispatching, TypeOK
    <3> QED
      BY <1>a, <3>1, <3>2, RefsSame
  <2> QED
    BY <2>1, <2>2
<1>11. ASSUME NEW w \in Worker, NEW g \in Handle, Dispatching(w), q[w] = g, call[w] = "none",
              NEW p \in {"fetch", "grab"}, pc' = [pc EXCEPT ![w] = p],
              NEW r, q' = [q EXCEPT ![w] = r],
              Begin(w, "release", g), UNCHANGED <<ref, slot, new, stage>>
       PROVE  RefExact'
  <2>1. call' = [call EXCEPT ![w] = "release"] /\ arg' = [arg EXCEPT ![w] = g]
    BY <1>11 DEF Begin
  <2>2. Refers("dispatch", w, g) /\ ~Refers("call", w, g)
    BY <1>11 DEF Refers
  <2>3. \A v \in Worker, h \in Handle :
            Dispatching(v)' /\ q'[v] = h <=> Dispatching(v) /\ q[v] = h /\ v # w
    BY <1>a, <1>11 DEF Dispatching, TypeOK
  <2>4. \A h \in Handle, k \in Kind, x \in Holder :
            Refers(k, x, h)' <=> \/ Refers(k, x, h) /\ ~(k = "dispatch" /\ x = w /\ h = g)
                                 \/ k = "call" /\ x = w /\ h = g
    BY <1>a, <1>b, <1>11, <2>1, <2>3 DEF Refers, TypeOK, Kind
  <2>5. "call" \in Kind /\ "dispatch" \in Kind
    BY DEF Kind
  <2> QED
    BY <1>a, <1>b, <1>11, <2>2, <2>4, <2>5, RefsMove
<1>12. ASSUME NEW w \in Worker, MqPop(w) PROVE RefExact'
  <2>1. Dispatching(w) /\ q[w] \in Handle
    BY <1>12, <1>c DEF MqPop, At, Dispatching
  <2>2. CASE mq[q[w]] = <<>>
    BY <1>12, <1>11, <2>1, <2>2 DEF MqPop, At, Goto, ctxVars, launchVars
  <2>3. CASE mq[q[w]] # <<>>
    <3>1. /\ pc[w] = "pop" /\ UNCHANGED <<ref, slot, new, stage, q, call, arg>>
          /\ pc' = [pc EXCEPT ![w] = "length"] \/ pc' = [pc EXCEPT ![w] = "callback"]
      BY <1>12, <2>3 DEF MqPop, At, Goto, ctxVars, launchVars
    <3>2. \A h \in Handle, k \in Kind, x \in Holder : Refers(k, x, h)' <=> Refers(k, x, h)
      BY <1>a, <3>1 DEF Refers, Dispatching, TypeOK
    <3> QED
      BY <1>a, <3>1, <3>2, RefsSame
  <2> QED
    BY <2>2, <2>3
<1>13. ASSUME NEW w \in Worker, Requeue(w) PROVE RefExact'
  <2>1. Dispatching(w) /\ q[w] \in Handle
    BY <1>13, <1>c DEF Requeue, At, Dispatching
  <2>2. CASE Q = <<>>
    <3>1. q' = [q EXCEPT ![w] = q[w]]
      BY <1>13, <1>a DEF Requeue, TypeOK
    <3> QED
      BY <1>13, <1>11, <2>1, <2>2, <3>1 DEF Requeue, At, Goto, ctxVars, launchVars
  <2>3. CASE Q # <<>>
    <3>1. /\ pc[w] = "requeue" /\ UNCHANGED <<ref, slot, new, stage, q, call, arg>>
          /\ pc' = [pc EXCEPT ![w] = "pushback"]
      BY <1>13, <2>3 DEF Requeue, At, Goto, ctxVars, launchVars
    <3>2. \A h \in Handle, k \in Kind, x \in Holder : Refers(k, x, h)' <=> Refers(k, x, h)
      BY <1>a, <3>1 DEF Refers, Dispatching, TypeOK
    <3> QED
      BY <1>a, <3>1, <3>2, RefsSame
  <2> QED
    BY <2>2, <2>3
<1>14. ASSUME NEW w \in Worker, PushBack(w) PROVE RefExact'
  <2>1. Dispatching(w) /\ q[w] \in Handle
    BY <1>14, <1>c DEF PushBack, At, Dispatching
  <2> QED
    BY <1>14, <1>11, <2>1 DEF PushBack, At, Goto, ctxVars, launchVars
<1>15. ASSUME NEW w \in Worker, Grab(w) PROVE RefExact'
  <2>1. CASE q[w] \in slot
    <3>1. PICK g \in Handle : g = q[w]
      BY <1>a, <2>1 DEF TypeOK
    <3>2. /\ pc[w] = "grab" /\ UNCHANGED <<slot, new, stage, q, call, arg>>
          /\ pc' = [pc EXCEPT ![w] = "pop"] /\ ref' = [ref EXCEPT ![g] = ref[g] + 1]
      BY <1>15, <2>1, <3>1 DEF Grab, At, Goto, launchVars
    <3>3. Refers("dispatch", w, g)'
      BY <1>a, <3>1, <3>2 DEF Refers, Dispatching, TypeOK
    <3>4. \A v \in Worker, h \in Handle :
              Dispatching(v) /\ q[v] = h <=> Dispatching(v)' /\ q'[v] = h /\ ~(v = w /\ h = g)
      BY <1>a, <3>1, <3>2 DEF Dispatching, TypeOK
    <3>5. \A h \in Handle, k \in Kind, x \in Holder :
              Refers(k, x, h) <=> Refers(k, x, h)' /\ ~(k = "dispatch" /\ x = w /\ h = g)
      BY <1>a, <3>2, <3>4 DEF Refers, Kind
    <3>6. "dispatch" \in Kind
      BY DEF Kind
    <3>7. PICK n \in Int : n = ref[g] + 1
      BY <1>a
    <3>8. ref' = [ref EXCEPT ![g] = n]
      BY <3>2, <3>7
    <3> QED
      BY <1>a, <1>b, <3>3, <3>5, <3>6, <3>7, <3>8, RefsGain
  <2>2. CASE q[w] \notin slot
    <3>1. /\ pc[w] = "grab" /\ UNCHANGED <<ref, slot, new, stage, q, call, arg>>
          /\ pc' = [pc EXCEPT ![w] = "mqrelease"]
      BY <1>15, <2>2 DEF Grab, At, Goto, launchVars
    <3>2. \A h \in Handle, k \in Kind, x \in Holder : Refers(k, x, h)' <=> Refers(k, x, h)
      BY <1>a, <3>1 DEF Refers, Dispatching, TypeOK
    <3> QED
      BY <1>a, <3>1, <3>2, RefsSame
  <2> QED
    BY <2>1, <2>2
<1>16. ASSUME UNCHANGED <<ref, slot, call, arg>>,
              \A v \in Worker : /\ stage'[v] = "init" <=> stage[v] = "init"
                                /\ stage[v] = "init" => new'[v] = new[v]
                                /\ Dispatching(v)' <=> Dispatching(v)
                                /\ Dispatching(v) => q'[v] = q[v]
       PROVE  RefExact'
  <2>1. \A h \in Handle, k \in Kind, x \in Holder : Refers(k, x, h)' <=> Refers(k, x, h)
    BY <1>16 DEF Refers
  <2> QED
    BY <1>a, <1>16, <2>1, RefsSame
<1>17. ASSUME NEW w \in Worker, ContextReady(w) \/ NewMqRelease(w) PROVE RefExact'
  BY <1>17, <1>16, <1>a DEF ContextReady, NewMqRelease, ctxVars, workerVars, TypeOK, Dispatching
<1>18. ASSUME NEW w \in Worker, Fetch(w) \/ Wakeup(w) \/ MqRelease(w) \/ MqLength(w) \/ CallbackReturns(w)
       PROVE  RefExact'
  BY <1>18, <1>16, <1>a DEF Fetch, Wakeup, MqRelease, MqLength, CallbackReturns, At, Goto,
                           ctxVars, workerVars, launchVars, TypeOK, Dispatching
<1>19. ASSUME NEW w \in Worker, DropQueue(w) PROVE RefExact'
  BY <1>19, <1>16 DEF DropQueue, ctxVars, workerVars, launchVars, Dispatching
<1>20. CASE UNCHANGED vars
  BY <1>20, <1>16 DEF vars, Dispatching
<1> QED
  BY <1>1, <1>2, <1>3, <1>4, <1>6, <1>7, <1>8, <1>9, <1>10, <1>12, <1>13, <1>14, <1>15, <1>17,
     <1>18, <1>19, <1>20 DEF Next, Operation, Request, Loop

\* A context whose count is 0 is in nobody's hands.
LEMMA Unreferenced ==
    ASSUME Inv, NEW g \in Handle, ref[g] = 0
    PROVE  /\ g \notin slot
           /\ \A w \in Worker : stage[w] = "init" => new[w] # g
           /\ \A t \in Thread : call[t] \in {"push", "release"} => arg[t] # g
           /\ \A w \in Worker : Dispatching(w) => q[w] # g
<1>1. \A k \in Kind, x \in Holder : ~Refers(k, x, g)
  BY Counted DEF Inv
<1>2. /\ Thread \subseteq Holder /\ Worker \subseteq Thread /\ NoHandle \in Holder
      /\ "storage" \in Kind /\ "creator" \in Kind /\ "call" \in Kind /\ "dispatch" \in Kind
  BY DEF Holder, Thread, Kind
<1>3. /\ ~Refers("storage", NoHandle, g)
      /\ \A w \in Worker : ~Refers("creator", w, g) /\ ~Refers("dispatch", w, g)
      /\ \A t \in Thread : ~Refers("call", t, g)
  BY <1>1, <1>2
<1> QED
  BY <1>3 DEF Refers

\* A context that a thread may start to use: somebody has a reference to it.
Held(g) == g \in Handle /\ ref[g] # 0 /\ Live(g) /\ mem[g] = "live"

LEMMA Referenced ==
    ASSUME Inv
    PROVE  /\ \A g \in slot : Held(g)
           /\ \A w \in Worker : Dispatching(w) => Held(q[w])
           /\ \A w \in Worker : stage[w] = "init" => Held(new[w])
<1>1. /\ \A w \in Worker : stage[w] = "init" => new[w] \in Handle /\ Live(new[w])
      /\ \A w \in Worker : Dispatching(w) => q[w] \in Handle /\ Live(q[w])
  <2>1. \A w \in Worker : stage[w] = "init" => new[w] \in Handle /\ Live(new[w])
    BY DEF Inv, TypeOK, Locals, Lifecycle, Launching, Live, HandleOrNone
  <2> QED
    BY <2>1, Ownership DEF Live
<1>2. \A h \in Handle : Live(h) => mem[h] = "live"
  BY DEF Inv, Lifecycle, CtxMem
<1> QED
  BY <1>1, <1>2, Ownership, Unreferenced DEF Held

\* A thread starts to push to, or to release, a context that is held: no thread can
\* be deleting it.
LEMMA CallBegins ==
    ASSUME TypeOK, Locals, CallLive, Marking,
           NEW t \in Thread, NEW c \in {"push", "release"}, NEW g \in Handle,
           Begin(t, c, g), Held(g), UNCHANGED <<ctx, mem>>,
           \A h \in Handle \ {g} : ref'[h] = ref[h]
    PROVE  CallLive' /\ Marking'
<1>1. /\ call' = [call EXCEPT ![t] = c] /\ arg' = [arg EXCEPT ![t] = g]
      /\ call \in [Thread -> Call] /\ arg \in [Thread -> HandleOrNone]
  BY DEF Begin, TypeOK
<1>2. CallLive'
  BY <1>1 DEF CallLive, Live, Held
<1>3. \A u \in Thread : call'[u] = "mark" =>
          call[u] = "mark" /\ arg'[u] = arg[u] /\ arg[u] \in Handle \ {g}
  <2>1. \A u \in Thread : call[u] = "mark" => arg[u] \in Handle /\ ref[arg[u]] = 0
    BY <1>1 DEF Locals, Marking, HandleOrNone
  <2> QED
    BY <1>1, <2>1 DEF Held
<1>4. Marking'
  BY <1>3 DEF Marking
<1> QED
  BY <1>2, <1>4

\* The step of Lifecycle and of the pointers to contexts, action by action.
LEMMA LifeStep == Inv /\ [Next]_vars => Life'
<1> SUFFICES ASSUME Inv, [Next]_vars PROVE Life'
  OBVIOUS
<1>a. /\ TypeOK /\ Locals /\ NoHandle \notin Handle /\ Worker \subseteq Thread
      /\ CtxMem /\ Launching /\ Draining /\ Marking /\ CallLive /\ InUse
  BY DispatchAssumption DEF Inv, Lifecycle, Thread, NoDanglingPointer, CallLive, InUse, Live
<1>b. /\ \A g \in slot : Held(g)
      /\ \A w \in Worker : Dispatching(w) => Held(q[w])
      /\ \A w \in Worker : stage[w] = "init" => Held(new[w])
  BY Referenced
<1>c. /\ \A w \in Worker : stage[w] # "none" => new[w] \in Handle
      /\ \A t \in Thread : call[t] # "none" => arg[t] \in Handle
  BY <1>a DEF TypeOK, Locals, HandleOrNone
<1>1. ASSUME NEW t \in Thread, NEW g \in Handle, ContextPush(t, g) PROVE Life'
  <2>1. CtxMem' /\ Launching' /\ Draining' /\ InUse'
    BY <1>1, <1>a DEF ContextPush, CtxMem, Live, Launching, Draining, InUse, Dispatching, mqVars, workerVars, launchVars
  <2>2. CallLive' /\ Marking'
    <3>1. Held(g) /\ Begin(t, "push", g) /\ UNCHANGED <<ctx, mem>>
      BY <1>1, <1>b DEF ContextPush, mqVars
    <3>2. \A h \in Handle \ {g} : ref'[h] = ref[h]
      BY <1>1, <1>a DEF ContextPush, TypeOK
    <3> QED
      BY <1>a, <3>1, <3>2, CallBegins
  <2> QED
    BY <2>1, <2>2 DEF Life, Lifecycle
<1>2. ASSUME NEW t \in Thread, MqPush(t) PROVE Life'
  <2>1. CtxMem' /\ Launching' /\ Draining' /\ InUse'
    BY <1>2, <1>a DEF MqPush, CtxMem, Live, Launching, Draining, InUse, Dispatching, ctxVars, workerVars, launchVars
  <2>2. Marking'
    BY <1>2, <1>a, <1>b, <1>c DEF MqPush, Begin, Marking, TypeOK, ctxVars, mqVars, workerVars, launchVars
  <2>3. CallLive'
    BY <1>2, <1>a, <1>b, <1>c DEF MqPush, Begin, CallLive, Live, TypeOK, ctxVars, mqVars, workerVars, launchVars
  <2> QED
    BY <2>1, <2>2, <2>3 DEF Life, Lifecycle
<1>3. ASSUME NEW t \in Thread, ContextRelease(t) PROVE Life'
  <2>1. CtxMem' /\ Launching' /\ Draining' /\ InUse'
    BY <1>3, <1>a DEF ContextRelease, CtxMem, Live, Launching, Draining, InUse, Dispatching, mqVars, workerVars, launchVars
  <2>2. Marking'
    <3>1. PICK g \in Handle : g = arg[t]
      BY <1>3, <1>c DEF ContextRelease
    <3>2. /\ call[t] = "release" /\ \A h \in Handle \ {g} : ref'[h] = ref[h]
          /\ ref[g] # 0 /\ (ref[g] = 1 => ref'[g] = 0)
      <4>1. call[t] = "release" /\ ref' = [ref EXCEPT ![g] = ref[g] - 1] /\ ref \in [Handle -> Int]
        BY <1>3, <1>a, <3>1 DEF ContextRelease, TypeOK
      <4>2. ref[g] # 0
        BY <3>1, <4>1, Unreferenced
      <4> QED
        BY <4>1, <4>2
    <3>3. \A u \in Thread : call[u] = "mark" => arg[u] \in Handle \ {g}
      BY <1>a, <1>c, <3>2 DEF Marking
    <3>4. CASE ref[g] = 1
      <4>1. call' = [call EXCEPT ![t] = "mark"] /\ arg' = [arg EXCEPT ![t] = g]
        BY <1>3, <3>1, <3>4 DEF ContextRelease, Begin
      <4>2. \A u \in Thread : call'[u] = "mark" =>
                \/ u = t /\ arg'[u] = g
                \/ u # t /\ call[u] = "mark" /\ arg'[u] = arg[u] /\ arg[u] \in Handle \ {g}
        BY <1>a, <3>3, <4>1 DEF TypeOK
      <4> QED
        BY <1>a, <3>2, <3>4, <4>2 DEF Marking
    <3>5. CASE ref[g] # 1
      <4>1. call' = [call EXCEPT ![t] = "none"] /\ arg' = [arg EXCEPT ![t] = NoHandle]
        BY <1>3, <3>1, <3>5 DEF ContextRelease, Begin, Return
      <4>2. \A u \in Thread : call'[u] = "mark" =>
                call[u] = "mark" /\ arg'[u] = arg[u] /\ arg[u] \in Handle \ {g}
        BY <1>a, <3>3, <4>1 DEF TypeOK
      <4> QED
        BY <1>a, <3>2, <4>2 DEF Marking
    <3> QED
      BY <3>4, <3>5
  <2>3. CallLive'
    <3>1. /\ call[t] = "release" /\ UNCHANGED <<ctx, mem>>
          /\ \/ call' = [call EXCEPT ![t] = "mark"] /\ arg' = [arg EXCEPT ![t] = arg[t]]
             \/ call' = [call EXCEPT ![t] = "none"] /\ arg' = [arg EXCEPT ![t] = NoHandle]
      BY <1>3 DEF ContextRelease, Begin, Return, mqVars
    <3>2. \A u \in Thread : call'[u] # "none" => call[u] # "none" /\ arg'[u] = arg[u]
      BY <1>a, <3>1 DEF TypeOK
    <3> QED
      BY <1>a, <3>1, <3>2 DEF CallLive, Live
  <2> QED
    BY <2>1, <2>2, <2>3 DEF Life, Lifecycle
<1>4. ASSUME NEW t \in Thread, MqMarkRelease(t) PROVE Life'
  <2>a. PICK g \in Handle : g = arg[t]
    BY <1>4, <1>c DEF MqMarkRelease
  <2>b. /\ call[t] = "mark" /\ ref[g] = 0 /\ Live(g) /\ mem[g] = "live"
        /\ ctx' = [ctx EXCEPT ![g] = "freed"] /\ release' = release \cup {g}
        /\ call' = [call EXCEPT ![t] = "none"] /\ arg' = [arg EXCEPT ![t] = NoHandle]
        /\ UNCHANGED <<ref, slot, mem, new, stage, drop, pc, q>>
    BY <1>4, <1>a, <2>a DEF MqMarkRelease, Begin, Return, Marking, CallLive, workerVars, launchVars
  <2>c. /\ g \notin slot
        /\ \A w \in Worker : stage[w] = "init" => new[w] # g
        /\ \A w \in Worker : Dispatching(w) => q[w] # g
        /\ \A u \in Thread \ {t} : call[u] # "none" => arg[u] # g
    <3>1. \A u \in Thread \ {t} : call[u] = "mark" => arg[u] # g
      BY <1>a, <2>a, <2>b DEF Marking
    <3> QED
      BY <1>a, <2>b, <3>1, Unreferenced DEF TypeOK, Call
  <2>1. CtxMem'
    BY <1>a, <1>c, <2>b, <2>c DEF CtxMem, Live, TypeOK
  <2>2. Launching'
    BY <1>a, <1>c, <2>b, <2>c DEF Launching, TypeOK
  <2>3. Draining'
    BY <1>a, <1>c, <2>b, <2>c DEF Draining
  <2>4. Marking'
    BY <1>a, <1>c, <2>b, <2>c DEF Marking, TypeOK
  <2>5. CallLive'
    BY <1>a, <1>c, <2>b, <2>c DEF CallLive, Live, TypeOK
  <2>6. InUse'
    BY <1>a, <1>c, <2>b, <2>c DEF InUse, Live, Dispatching, TypeOK
  <2> QED
    BY <2>1, <2>2, <2>3, <2>4, <2>5, <2>6 DEF Life, Lifecycle
<1>5. ASSUME NEW w \in Worker, NEW g \in Handle, HandleRetire(w, g) PROVE Life'
  <2>1. CtxMem' /\ Draining'
    BY <1>5, <1>a DEF HandleRetire, CtxMem, Live, Draining, mqVars, workerVars, launchVars
  <2>2. Launching'
    BY <1>5, <1>a, <1>b, <1>c DEF HandleRetire, Launching, TypeOK, ctxVars, mqVars, workerVars, launchVars
  <2>3. InUse'
    BY <1>5, <1>a, <1>b, <1>c DEF HandleRetire, InUse, Live, Dispatching, TypeOK, ctxVars, mqVars, workerVars, launchVars
  <2>4. CallLive' /\ Marking'
    <3>1. /\ Held(g) /\ Begin(w, "release", g) /\ UNCHANGED <<ctx, mem>>
          /\ \A h \in Handle \ {g} : ref'[h] = ref[h]
      BY <1>5, <1>b DEF HandleRetire, mqVars
    <3> QED
      BY <1>a, <3>1, CallBegins
  <2> QED
    BY <2>1, <2>2, <2>3, <2>4 DEF Life, Lifecycle
<1>6. ASSUME NEW w \in Worker, DropMessage(w) PROVE Life'
  <2>1. CtxMem' /\ Launching' /\ Draining' /\ InUse'
    BY <1>6, <1>a DEF DropMessage, CtxMem, Live, Launching, Draining, InUse, Dispatching, workerVars, launchVars
  <2>2. CallLive' /\ Marking'
    <3>1. CASE Head(mq[drop[w]]) \in slot
      <4>1. PICK g \in Handle : g = Head(mq[drop[w]])
        BY <1>b, <3>1 DEF Held
      <4>2. Held(g) /\ Begin(w, "push", g) /\ UNCHANGED <<ctx, mem>>
        BY <1>6, <1>b, <3>1, <4>1 DEF DropMessage
      <4>3. \A h \in Handle \ {g} : ref'[h] = ref[h]
        BY <1>6, <1>a, <3>1, <4>1 DEF DropMessage, TypeOK
      <4> QED
        BY <1>a, <4>2, <4>3, CallBegins
    <3>2. CASE Head(mq[drop[w]]) \notin slot
      BY <1>6, <1>a, <3>2 DEF DropMessage, CallLive, Live, Marking
    <3> QED
      BY <3>1, <3>2
  <2> QED
    BY <2>1, <2>2 DEF Life, Lifecycle
<1>7. ASSUME NEW w \in Worker, DropQueue(w) PROVE Life'
  <2>1. Launching' /\ Marking' /\ InUse'
    BY <1>7, <1>a DEF DropQueue, Launching, Marking, InUse, Live, Dispatching, ctxVars, workerVars, launchVars
  <2>a. PICK g \in Handle : g = drop[w]
    BY <1>7, <1>a DEF DropQueue, TypeOK, HandleOrNone
  <2>b. /\ ctx[g] = "freed" /\ UNCHANGED <<ctx, release, call, arg>>
        /\ mem' = [mem EXCEPT ![g] = "freed"]
    BY <1>7, <1>a, <2>a DEF DropQueue, Draining, CtxMem, ctxVars
  <2>2. CtxMem'
    BY <1>a, <2>b DEF CtxMem, Live, TypeOK
  <2>3. Draining'
    BY <1>7, <1>a, <1>b, <1>c DEF DropQueue, Draining, TypeOK, ctxVars, mqVars, workerVars, launchVars
  <2>4. CallLive'
    BY <1>a, <1>c, <2>b DEF CallLive, Live, TypeOK
  <2> QED
    BY <2>1, <2>2, <2>3, <2>4 DEF Life, Lifecycle
<1>8. ASSUME NEW w \in Worker, NEW g \in Handle, ContextNew(w, g) PROVE Life'
  <2>1. Draining'
    BY <1>8, <1>a DEF ContextNew, Draining, workerVars
  <2>a. /\ ctx[g] = "none" /\ slot' = slot \cup {g} /\ ctx' = [ctx EXCEPT ![g] = "init"]
        /\ ref' = [ref EXCEPT ![g] = 2] /\ mem' = [mem EXCEPT ![g] = "live"]
        /\ new[w] = NoHandle /\ stage[w] = "none"
        /\ new' = [new EXCEPT ![w] = g] /\ stage' = [stage EXCEPT ![w] = "init"]
        /\ UNCHANGED <<release, drop, call, arg, pc, q>>
    BY <1>8, <1>a DEF ContextNew, Locals, workerVars
  <2>b. /\ g \notin slot
        /\ \A v \in Worker : new[v] # g
        /\ \A v \in Worker : Dispatching(v) => q[v] # g
        /\ \A t \in Thread : call[t] # "none" => arg[t] # g
    <3>1. \A v \in Worker : new[v] # g
      BY <1>a, <2>a, Ownership DEF CtxMem, Owned, Holds
    <3> QED
      BY <1>a, <2>a, <3>1 DEF InUse, CallLive, Live
  <2>2. CtxMem'
    BY <1>a, <2>a DEF CtxMem, Live, TypeOK
  <2>3. Launching'
    <3>1. \A v \in Worker \ {w} : new'[v] = new[v] /\ stage'[v] = stage[v]
      BY <1>a, <2>a DEF TypeOK
    <3>2. new'[w] = g /\ stage'[w] = "init" /\ ctx'[g] = "init"
      BY <1>a, <2>a DEF TypeOK
    <3>3. \A h \in Handle \ {g} : ctx'[h] = ctx[h]
      BY <1>a, <2>a DEF TypeOK
    <3>4. \A h \in slot' : ctx'[h] = "init" => \E v \in Worker : new'[v] = h
      <4>1. ASSUME NEW h \in slot', ctx'[h] = "init", h # g PROVE \E v \in Worker : new'[v] = h
        <5>1. h \in slot /\ h \in Handle /\ ctx[h] = "init"
          BY <1>a, <2>a, <3>3, <4>1 DEF TypeOK
        <5>2. PICK v \in Worker : new[v] = h
          BY <1>a, <5>1 DEF Launching
        <5>3. v # w
          BY <1>a, <2>a, <5>1, <5>2
        <5> QED
          BY <3>1, <5>2, <5>3
      <4> QED
        BY <3>2, <4>1
    <3>5. ASSUME NEW v \in Worker \ {w}
          PROVE  /\ stage'[v] = "init" => ctx'[new'[v]] = "init"
                 /\ stage'[v] = "mqrelease" => new'[v] \notin slot'
      BY <1>a, <1>c, <2>a, <2>b, <3>1, <3>3 DEF Launching
    <3> QED
      BY <3>2, <3>4, <3>5 DEF Launching
  <2>4. Marking'
    BY <1>a, <1>c, <2>a, <2>b DEF Marking, TypeOK
  <2>5. CallLive'
    BY <1>a, <1>c, <2>a, <2>b DEF CallLive, Live, TypeOK
  <2>6. InUse'
    BY <1>a, <2>a, <2>b DEF InUse, Live, Dispatching, TypeOK
  <2> QED
    BY <2>1, <2>2, <2>3, <2>4, <2>5, <2>6 DEF Life, Lifecycle
<1>9. ASSUME NEW w \in Worker, NEW r \in {"ok", "failed"}, InitReturns(w, r) PROVE Life'
  <2>1. CtxMem' /\ Draining' /\ InUse'
    BY <1>9, <1>a DEF InitReturns, CtxMem, Live, Draining, InUse, Dispatching, ctxVars, mqVars, workerVars
  <2>2. Launching'
    BY <1>9, <1>a, <1>b, <1>c DEF InitReturns, Launching, TypeOK, ctxVars, mqVars, workerVars, launchVars
  <2>3. CallLive' /\ Marking'
    <3>1. Held(new[w]) /\ new[w] \in Handle
      BY <1>9, <1>b DEF InitReturns, Held
    <3>2. /\ Begin(w, "release", new[w]) /\ UNCHANGED <<ctx, mem>>
          /\ \A h \in Handle \ {new[w]} : ref'[h] = ref[h]
      BY <1>9 DEF InitReturns, ctxVars, mqVars
    <3> QED
      BY <1>a, <3>1, <3>2, CallBegins
  <2> QED
    BY <2>1, <2>2, <2>3 DEF Life, Lifecycle
<1>10. ASSUME NEW w \in Worker, ContextReady(w) PROVE Life'
  <2>1. Draining' /\ Marking'
    BY <1>10, <1>a DEF ContextReady, Draining, Marking, workerVars
  <2>2. CtxMem'
    BY <1>10, <1>a, <1>b, <1>c DEF ContextReady, CtxMem, Live, TypeOK, ctxVars, mqVars, workerVars, launchVars
  <2>3. Launching'
    <3>1. PICK g \in Handle : g = new[w]
      BY <1>10, <1>c DEF ContextReady
    <3>2. /\ new' = [new EXCEPT ![w] = NoHandle] /\ stage' = [stage EXCEPT ![w] = "none"]
          /\ ctx' = [ctx EXCEPT ![g] = IF ctx[g] = "init" THEN "ready" ELSE ctx[g]]
          /\ slot' = slot
      BY <1>10, <3>1 DEF ContextReady
    <3>3. \A v \in Worker \ {w} : new'[v] = new[v] /\ stage'[v] = stage[v] /\ new[v] # g
      <4>1. \A v \in Worker \ {w} : new[v] # g
        BY <3>1, Ownership DEF OneHolder, Holds
      <4> QED
        BY <1>a, <3>2, <4>1 DEF TypeOK
    <3>4. ctx'[g] # "init" /\ \A h \in Handle \ {g} : ctx'[h] = ctx[h]
      BY <1>a, <3>2 DEF TypeOK
    <3>5. \A h \in slot' : ctx'[h] = "init" => \E v \in Worker : new'[v] = h
      <4>1. ASSUME NEW h \in slot', ctx'[h] = "init" PROVE \E v \in Worker : new'[v] = h
        <5>1. h \in slot /\ h \in Handle \ {g} /\ ctx[h] = "init"
          BY <1>a, <3>2, <3>4, <4>1 DEF TypeOK
        <5>2. PICK v \in Worker : new[v] = h
          BY <1>a, <5>1 DEF Launching
        <5> QED
          BY <3>1, <3>3, <5>1, <5>2
      <4> QED
        BY <4>1
    <3>6. ASSUME NEW v \in Worker
          PROVE  /\ stage'[v] = "init" => ctx'[new'[v]] = "init"
                 /\ stage'[v] = "mqrelease" => new'[v] \notin slot'
      <4>1. CASE v = w
        BY <1>a, <3>2, <4>1 DEF TypeOK
      <4>2. CASE v # w
        BY <1>a, <1>c, <3>2, <3>3, <3>4, <4>2 DEF Launching
      <4> QED
        BY <4>1, <4>2
    <3> QED
      BY <3>5, <3>6 DEF Launching
  <2>4. CallLive'
    BY <1>10, <1>a, <1>b, <1>c DEF ContextReady, CallLive, Live, TypeOK, ctxVars, mqVars, workerVars, launchVars
  <2>5. InUse'
    BY <1>10, <1>a, <1>b, <1>c DEF ContextReady, InUse, Live, Dispatching, TypeOK, ctxVars, mqVars, workerVars, launchVars
  <2> QED
    BY <2>1, <2>2, <2>3, <2>4, <2>5 DEF Life, Lifecycle
<1>11. ASSUME NEW w \in Worker, ContextFailed(w) PROVE Life'
  <2>1. CtxMem' /\ Draining'
    BY <1>11, <1>a DEF ContextFailed, CtxMem, Live, Draining, mqVars, workerVars
  <2>2. Launching'
    BY <1>11, <1>a, <1>b, <1>c DEF ContextFailed, Launching, TypeOK, ctxVars, mqVars, workerVars, launchVars
  <2>3. InUse'
    BY <1>11, <1>a, <1>b, <1>c DEF ContextFailed, InUse, Live, Dispatching, TypeOK, ctxVars, mqVars, workerVars, launchVars
  <2>4. CallLive' /\ Marking'
    <3>1. CASE new[w] \in slot
      <4>1. Held(new[w]) /\ new[w] \in Handle
        BY <1>b, <3>1 DEF Held
      <4>2. /\ Begin(w, "release", new[w]) /\ UNCHANGED <<ctx, mem>>
            /\ \A h \in Handle \ {new[w]} : ref'[h] = ref[h]
        BY <1>11, <3>1 DEF ContextFailed, mqVars
      <4> QED
        BY <1>a, <4>1, <4>2, CallBegins
    <3>2. CASE new[w] \notin slot
      BY <1>11, <1>a, <3>2 DEF ContextFailed, mqVars, CallLive, Live, Marking
    <3> QED
      BY <3>1, <3>2
  <2> QED
    BY <2>1, <2>2, <2>3, <2>4 DEF Life, Lifecycle
<1>12. ASSUME NEW w \in Worker, NewMqRelease(w) PROVE Life'
  <2>1. CtxMem' /\ Marking' /\ CallLive' /\ InUse'
    BY <1>12, <1>a DEF NewMqRelease, CtxMem, Live, Marking, CallLive, InUse, Dispatching, ctxVars, workerVars
  <2>2. Launching'
    BY <1>12, <1>a, <1>b, <1>c DEF NewMqRelease, MqReleaseQueue, Launching, TypeOK, ctxVars, mqVars, workerVars, launchVars
  <2>3. Draining'
    BY <1>12, <1>a, <1>b, <1>c DEF NewMqRelease, MqReleaseQueue, Draining, TypeOK, ctxVars, mqVars, workerVars, launchVars
  <2> QED
    BY <2>1, <2>2, <2>3 DEF Life, Lifecycle
<1>13. ASSUME NEW w \in Worker, Fetch(w) PROVE Life'
  <2>1. CtxMem' /\ Launching' /\ Draining' /\ Marking' /\ CallLive'
    BY <1>13, <1>a DEF Fetch, CtxMem, Live, Launching, Draining, Marking, CallLive, ctxVars, launchVars
  <2>2. InUse'
    BY <1>13, <1>a, <1>b, <1>c DEF Fetch, At, Goto, InUse, Live, Dispatching, TypeOK, ctxVars, mqVars, workerVars, launchVars
  <2> QED
    BY <2>1, <2>2 DEF Life, Lifecycle
<1>14. ASSUME NEW w \in Worker, Wakeup(w) PROVE Life'
  <2>1. CtxMem' /\ Launching' /\ Draining' /\ Marking' /\ CallLive'
    BY <1>14, <1>a DEF Wakeup, CtxMem, Live, Launching, Draining, Marking, CallLive, ctxVars, mqVars, launchVars
  <2>2. InUse'
    BY <1>14, <1>a, <1>b, <1>c DEF Wakeup, At, Goto, InUse, Live, Dispatching, TypeOK, ctxVars, mqVars, workerVars, launchVars
  <2> QED
    BY <2>1, <2>2 DEF Life, Lifecycle
<1>15. ASSUME NEW w \in Worker, Grab(w) PROVE Life'
  <2>1. CtxMem' /\ Launching' /\ Draining' /\ CallLive'
    BY <1>15, <1>a DEF Grab, CtxMem, Live, Launching, Draining, CallLive, mqVars, launchVars
  <2>2. Marking'
    <3>1. /\ UNCHANGED <<call, arg>>
          /\ \A h \in Handle : ref[h] = 0 => ref'[h] = ref[h]
      BY <1>15, <1>a, <1>b DEF Grab, TypeOK, Held
    <3> QED
      BY <1>a, <1>c, <3>1 DEF Marking
  <2>3. InUse'
    <3>1. /\ pc[w] = "grab" /\ UNCHANGED <<ctx, slot, q>>
          /\ \/ pc' = [pc EXCEPT ![w] = "mqrelease"]
             \/ pc' = [pc EXCEPT ![w] = "pop"] /\ q[w] \in slot
      BY <1>15 DEF Grab, At, Goto
    <3>2. q[w] \in slot => ctx[q[w]] = "ready"
      <4>1. ASSUME q[w] \in slot, ctx[q[w]] = "init" PROVE FALSE
        <5>1. PICK v \in Worker : new[v] = q[w]
          BY <1>a, <4>1 DEF Launching
        <5>2. v = w /\ new[w] = q[w] /\ q[w] \in Handle
          BY <1>a, <4>1, <5>1, Ownership DEF OneHolder, Holds, TypeOK
        <5> QED
          BY <1>a, <5>2, Ownership DEF OneHolder
      <4> QED
        BY <1>a, <4>1 DEF InUse, Live
    <3> QED
      BY <1>a, <3>1, <3>2 DEF InUse, Live, Dispatching, TypeOK
  <2> QED
    BY <2>1, <2>2, <2>3 DEF Life, Lifecycle
<1>16. ASSUME NEW w \in Worker, MqRelease(w) PROVE Life'
  <2>1. CtxMem' /\ Launching' /\ Marking' /\ CallLive'
    BY <1>16, <1>a DEF MqRelease, CtxMem, Live, Launching, Marking, CallLive, ctxVars, launchVars
  <2>2. Draining'
    BY <1>16, <1>a, <1>b, <1>c DEF MqRelease, At, Goto, MqReleaseQueue, Draining, TypeOK, ctxVars, mqVars, workerVars, launchVars
  <2>3. InUse'
    BY <1>16, <1>a, <1>b, <1>c DEF MqRelease, At, Goto, MqReleaseQueue, InUse, Live, Dispatching, TypeOK, ctxVars, mqVars, workerVars, launchVars
  <2> QED
    BY <2>1, <2>2, <2>3 DEF Life, Lifecycle
<1>17. ASSUME NEW w \in Worker, MqPop(w) PROVE Life'
  <2>1. CtxMem' /\ Launching' /\ Draining'
    BY <1>17, <1>a DEF MqPop, CtxMem, Live, Launching, Draining, ctxVars, launchVars
  <2>2. InUse'
    BY <1>17, <1>a, <1>b, <1>c DEF MqPop, At, Goto, InUse, Live, Dispatching, TypeOK, ctxVars, mqVars, workerVars, launchVars
  <2>3. CallLive' /\ Marking'
    <3>1. Held(q[w]) /\ q[w] \in Handle
      BY <1>17, <1>b DEF MqPop, At, Dispatching, Held
    <3>2. CASE mq[q[w]] = <<>>
      <4>1. /\ Begin(w, "release", q[w]) /\ UNCHANGED <<ctx, mem>>
            /\ \A h \in Handle \ {q[w]} : ref'[h] = ref[h]
        BY <1>17, <3>2 DEF MqPop, ctxVars
      <4> QED
        BY <1>a, <3>1, <4>1, CallBegins
    <3>3. CASE mq[q[w]] # <<>>
      BY <1>17, <1>a, <3>3 DEF MqPop, ctxVars, CallLive, Live, Marking
    <3> QED
      BY <3>2, <3>3
  <2> QED
    BY <2>1, <2>2, <2>3 DEF Life, Lifecycle
<1>18. ASSUME NEW w \in Worker, MqLength(w) PROVE Life'
  <2>1. CtxMem' /\ Launching' /\ Draining' /\ Marking' /\ CallLive'
    BY <1>18, <1>a DEF MqLength, CtxMem, Live, Launching, Draining, Marking, CallLive, ctxVars, mqVars, launchVars
  <2>2. InUse'
    BY <1>18, <1>a, <1>b, <1>c DEF MqLength, At, Goto, InUse, Live, Dispatching, TypeOK, ctxVars, mqVars, workerVars, launchVars
  <2> QED
    BY <2>1, <2>2 DEF Life, Lifecycle
<1>19. ASSUME NEW w \in Worker, CallbackReturns(w) PROVE Life'
  <2>1. CtxMem' /\ Launching' /\ Draining' /\ Marking' /\ CallLive'
    BY <1>19, <1>a DEF CallbackReturns, CtxMem, Live, Launching, Draining, Marking, CallLive, ctxVars, mqVars, launchVars
  <2>2. InUse'
    BY <1>19, <1>a, <1>b, <1>c DEF CallbackReturns, At, Goto, InUse, Live, Dispatching, TypeOK, ctxVars, mqVars, workerVars, launchVars
  <2> QED
    BY <2>1, <2>2 DEF Life, Lifecycle
<1>20. ASSUME NEW w \in Worker, Requeue(w) PROVE Life'
  <2>1. CtxMem' /\ Launching' /\ Draining'
    BY <1>20, <1>a DEF Requeue, CtxMem, Live, Launching, Draining, ctxVars, launchVars
  <2>2. InUse'
    BY <1>20, <1>a, <1>b, <1>c DEF Requeue, At, Goto, InUse, Live, Dispatching, TypeOK, ctxVars, mqVars, workerVars, launchVars
  <2>3. CallLive' /\ Marking'
    <3>1. Held(q[w]) /\ q[w] \in Handle
      BY <1>20, <1>b DEF Requeue, At, Dispatching, Held
    <3>2. CASE Q = <<>>
      <4>1. /\ Begin(w, "release", q[w]) /\ UNCHANGED <<ctx, mem>>
            /\ \A h \in Handle \ {q[w]} : ref'[h] = ref[h]
        BY <1>20, <3>2 DEF Requeue, ctxVars
      <4> QED
        BY <1>a, <3>1, <4>1, CallBegins
    <3>3. CASE Q # <<>>
      BY <1>20, <1>a, <3>3 DEF Requeue, ctxVars, CallLive, Live, Marking
    <3> QED
      BY <3>2, <3>3
  <2> QED
    BY <2>1, <2>2, <2>3 DEF Life, Lifecycle
<1>21. ASSUME NEW w \in Worker, PushBack(w) PROVE Life'
  <2>1. CtxMem' /\ Launching' /\ Draining'
    BY <1>21, <1>a DEF PushBack, CtxMem, Live, Launching, Draining, ctxVars, launchVars
  <2>2. InUse'
    BY <1>21, <1>a, <1>b, <1>c DEF PushBack, At, Goto, InUse, Live, Dispatching, TypeOK, ctxVars, mqVars, workerVars, launchVars
  <2>3. CallLive' /\ Marking'
    <3>1. Held(q[w]) /\ q[w] \in Handle
      BY <1>21, <1>b DEF PushBack, At, Dispatching, Held
    <3>2. /\ Begin(w, "release", q[w]) /\ UNCHANGED <<ctx, mem>>
          /\ \A h \in Handle \ {q[w]} : ref'[h] = ref[h]
      BY <1>21 DEF PushBack, ctxVars
    <3> QED
      BY <1>a, <3>1, <3>2, CallBegins
  <2> QED
    BY <2>1, <2>2, <2>3 DEF Life, Lifecycle
<1>22. CASE UNCHANGED vars
  BY <1>22, <1>a DEF vars, Life, Lifecycle, CtxMem, Live, Launching, Draining, Marking, CallLive, InUse, Dispatching
<1> QED
  BY <1>1, <1>2, <1>3, <1>4, <1>5, <1>6, <1>7, <1>8, <1>9, <1>10, <1>11, <1>12, <1>13, <1>14, <1>15, <1>16, <1>17, <1>18, <1>19, <1>20, <1>21, <1>22 DEF Next, Operation, Request, Loop
-----------------------------------------------------------------------------
LEMMA InvInit == Init => Inv
<1> SUFFICES ASSUME Init PROVE Inv
  OBVIOUS
<1>a. NoHandle \notin Handle /\ Boot \subseteq Handle /\ BootQ \in Seq(Boot)
  BY DispatchAssumption
<1>1. TypeOK /\ Locals
  BY TypeInit
<1>2. \A w \in Worker, h \in Handle : ~Holds(w, h)
  BY <1>a DEF Init, Holds
<1>3. \A h \in Handle : Linked(h) <=> h \in Boot
  <2>1. \A i \in 1..Len(BootQ) : BootQ[i] \in Boot
    BY <1>a
  <2>2. \A h \in Boot : \E i \in 1..Len(BootQ) : BootQ[i] = h
    BY DispatchAssumption
  <2> QED
    BY <2>1, <2>2 DEF Init, Linked
<1>4. OneOwner
  <2>1. NoDup
    BY DispatchAssumption DEF Init, NoDup
  <2>2. OneHolder
    BY <1>2, <1>a DEF Init, OneHolder, linked
  <2> QED
    BY <1>1, <2>1, <2>2, OwnerParts DEF TypeOK
<1>5. NoLostQueue
  BY <1>2, <1>3 DEF Init, NoLostQueue
<1>6. NoLostMessage
  BY DEF Init, NoLostMessage
<1>7. RefExact
  <2>1. ASSUME NEW h \in Handle, NEW k, NEW x PROVE Refers(k, x, h) <=> k = "storage" /\ x = NoHandle /\ h \in Boot
    BY <1>a DEF Init, Refers, Dispatching
  <2>2. ASSUME NEW h \in Boot PROVE ref[h] = Cardinality(References(h))
    <3>1. References(h) = {<<"storage", NoHandle>>}
      BY <1>a, <2>1 DEF References
    <3> QED
      BY <1>a, <3>1, FS_Singleton DEF Init
  <2>3. ASSUME NEW h \in Handle \ Boot PROVE ref[h] = Cardinality(References(h))
    <3>1. References(h) = {}
      BY <2>1 DEF References
    <3> QED
      BY <3>1, FS_EmptySet DEF Init
  <2> QED
    BY <2>2, <2>3 DEF RefExact
<1>8. NoDanglingPointer
  BY <1>a, <1>2, <1>3 DEF Init, NoDanglingPointer, Dispatching
<1>9. Lifecycle
  BY <1>a DEF Init, Lifecycle, CtxMem, Launching, Draining, Marking, Live
<1> QED
  BY <1>1, <1>4, <1>5, <1>6, <1>7, <1>8, <1>9 DEF Inv

\* From the parts the step lemmas speak of back to the invariants.
LEMMA Parts ==
    TypeOK /\ Locals /\ Queues /\ NoLostMessage /\ RefExact /\ Life => Inv
<1> SUFFICES ASSUME TypeOK, Locals, Queues, NoLostMessage, RefExact, Life PROVE Inv
  OBVIOUS
<1>1. OneOwner
  BY OwnerParts DEF TypeOK, Queues
<1>2. \A h \in Handle : Owned(h) <=> Linked(h) \/ \E w \in Worker : Holds(w, h)
  BY DEF Owned, linked
<1>3. NoLostQueue
  BY <1>2 DEF Queues, QueueOwned, NoLostQueue
<1>4. \A t \in Thread : call[t] = "mark" => arg[t] \notin release
  BY DEF Life, Lifecycle, CtxMem, CallLive, Live, TypeOK
<1>5. NoDanglingPointer
  BY <1>2, <1>4 DEF Life, CallLive, InUse, Live, Queues, QueueOwned, NoDanglingPointer
<1> QED
  BY <1>1, <1>3, <1>5 DEF Inv, Life

LEMMA InvStep == Inv /\ [Next]_vars => Inv'
<1>1. Inv /\ [Next]_vars => (TypeOK /\ Locals /\ Queues /\ NoLostMessage /\ RefExact /\ Life)'
  BY TypeStep, LocalsStep, OwnerStep, MessageStep, RefStep, LifeStep DEF Inv
<1> QED
  BY <1>1, Parts, PTL

LEMMA Invariance == Spec => []Inv
BY InvInit, InvStep, PTL DEF Spec

\* A queue is linked at most once and has one owner (OneOwner): the assertions of
\* skynet_globalmq_push and _release hold, and no two workers ever run the same service.
THEOREM OneOwnerAlways == Spec => []OneOwner
<1>1. Inv => OneOwner
  BY DEF Inv
<1> QED
  BY <1>1, Invariance, PTL

\* A queue that is scheduled or marked for deletion is in the global queue or in the
\* hands of a worker (NoLostQueue), whatever the order in which skynet_mq_push,
\* skynet_mq_pop, skynet_mq_mark_release and the launch of a service interleave.
THEOREM NoLostQueueAlways == Spec => []NoLostQueue
<1>1. Inv => NoLostQueue
  BY DEF Inv
<1> QED
  BY <1>1, Invariance, PTL

\* A queue with messages is scheduled or marked (NoLostMessage): skynet_mq_pop clears
\* in_global, and _release frees a queue, only when nothing is left in it.
THEOREM NoLostMessageAlways == Spec => []NoLostMessage
<1>1. Inv => NoLostMessage
  BY DEF Inv
<1> QED
  BY <1>1, Invariance, PTL

\* ctx->ref is the number of references there are (RefExact): every path through
\* skynet_context_new, skynet_context_message_dispatch, skynet_context_push,
\* skynet_handle_retire and drop_message releases what it took, once.
THEOREM RefExactAlways == Spec => []RefExact
<1>1. Inv => RefExact
  BY DEF Inv
<1> QED
  BY <1>1, Invariance, PTL

\* No freed context or queue is used and no callback runs in a service that is not
\* initialised (NoDanglingPointer): assert(ctx->init) of dispatch_message and
\* assert(q->release == 0) of skynet_mq_mark_release hold.
THEOREM NoDanglingPointerAlways == Spec => []NoDanglingPointer
<1>1. Inv => NoDanglingPointer
  BY DEF Inv
<1> QED
  BY <1>1, Invariance, PTL
-----------------------------------------------------------------------------
(***************************************************************************)
(* The refinement: what a worker thread, a queue and a context are to a    *)
(* service is a Mailbox.                                                   *)
(***************************************************************************)
serving == [h \in Handle |-> {w \in Worker : Serves(w, h)}]

LEMMA ServingSame ==
    ASSUME UNCHANGED <<mq, release>>,
           \A v \in Worker : /\ pc'[v] \in {"length", "callback"} <=> pc[v] \in {"length", "callback"}
                             /\ pc[v] \in {"length", "callback"} => q'[v] = q[v]
    PROVE  UNCHANGED Box!vars
<1>1. \A h \in Handle : {w \in Worker : Serves(w, h)}' = {w \in Worker : Serves(w, h)}
  BY DEF Serves
<1> QED
  BY <1>1 DEF Box!vars

LEMMA MailboxInit == Init => Box!Init
<1> SUFFICES ASSUME Init PROVE Box!Init
  OBVIOUS
<1>1. mq \in [Handle -> Seq(Message)]
  BY TypeInit DEF TypeOK
<1>2. \A h \in Handle : {w \in Worker : Serves(w, h)} = {}
  BY DEF Init, Serves
<1>3. Handle \ release = Handle
  BY DEF Init
<1> QED
  BY <1>1, <1>2, <1>3 DEF Box!Init

LEMMA MailboxStep == Inv /\ [Next]_vars => [Box!Next]_(Box!vars)
<1> SUFFICES ASSUME Inv, [Next]_vars PROVE Box!Next \/ UNCHANGED Box!vars
  OBVIOUS
<1>a. TypeOK /\ Locals /\ Lifecycle /\ NoHandle \notin Handle
  BY DispatchAssumption DEF Inv
<1>b. \A w \in Worker, h \in Handle : Serves(w, h) => Dispatching(w) /\ q[w] = h
  BY DEF Serves, Dispatching
<1>c. \A w, v \in Worker, h \in Handle : q[w] = h /\ q[v] = h => w = v
  BY Ownership DEF OneHolder, Holds
<1>1. ASSUME NEW t \in Thread, MqPush(t) PROVE Box!Next
  <2>1. PICK g \in Handle : g = arg[t]
    BY <1>1, Ownership DEF MqPush
  <2>2. PICK m \in Message : mq' = [mq EXCEPT ![g] = Append(mq[g], m)]
    BY <1>1, <1>a, <2>1 DEF MqPush, Self, TypeOK, Message, HandleOrNone, Thread
  <2>3. g \in Handle \ release /\ UNCHANGED <<release, pc, q>>
    BY <1>1, <2>1, Ownership DEF MqPush, workerVars
  <2>4. serving' = serving
    BY <2>3 DEF serving, Serves
  <2>5. Box!Deliver(g, m)
    BY <2>2, <2>3, <2>4 DEF Box!Deliver, serving
  <2> QED
    BY <2>5 DEF Box!Next
<1>2. ASSUME NEW t \in Thread, MqMarkRelease(t) PROVE Box!Next
  <2>1. PICK g \in Handle : g = arg[t]
    BY <1>2, Ownership DEF MqMarkRelease
  <2>2. g \notin release /\ release' = release \cup {g} /\ UNCHANGED <<mq, pc, q>> /\ ref[g] = 0
    BY <1>2, <1>a, <2>1, Ownership DEF MqMarkRelease, workerVars, Lifecycle, Marking
  <2>3. serving' = serving
    BY <2>2 DEF serving, Serves
  <2>4. serving[g] = {}
    BY <1>b, <2>2, Unreferenced DEF serving
  <2>5. Box!Close(g)
    BY <2>2, <2>3, <2>4 DEF Box!Close, serving
  <2> QED
    BY <2>5 DEF Box!Next
<1>3. ASSUME NEW w \in Worker, DropMessage(w) PROVE Box!Next
  <2>1. PICK g \in Handle : g = drop[w]
    BY <1>3, <1>a DEF DropMessage, TypeOK, HandleOrNone
  <2>2. /\ g \in release /\ mq[g] # <<>> /\ mq' = [mq EXCEPT ![g] = Tail(mq[g])]
        /\ UNCHANGED <<release, pc, q>>
    BY <1>3, <1>a, <2>1 DEF DropMessage, workerVars, Lifecycle, Draining
  <2>3. serving' = serving
    BY <2>2 DEF serving, Serves
  <2>4. serving[g] = {}
    BY <1>b, <2>2, Ownership DEF serving
  <2>5. Box!Discard(g)
    BY <2>2, <2>3, <2>4 DEF Box!Discard, serving
  <2> QED
    BY <2>5 DEF Box!Next
<1>4. ASSUME NEW w \in Worker, MqPop(w) PROVE Box!Next \/ UNCHANGED Box!vars
  <2>1. PICK g \in Handle : g = q[w]
    BY <1>4, <1>a DEF MqPop, At, TypeOK, Locals, HandleOrNone
  <2>2. CASE mq[g] = <<>>
    BY <1>4, <1>a, <2>1, <2>2, ServingSame DEF MqPop, At, Goto, TypeOK
  <2>3. CASE mq[g] # <<>>
    <3>1. /\ mq' = [mq EXCEPT ![g] = Tail(mq[g])] /\ UNCHANGED <<release, q>> /\ pc[w] = "pop"
          /\ pc' = [pc EXCEPT ![w] = "length"] \/ pc' = [pc EXCEPT ![w] = "callback"]
      BY <1>4, <2>1, <2>3 DEF MqPop, At, Goto
    <3>2. serving[g] = {}
      BY <1>c, <2>1, <3>1 DEF serving, Serves
    <3>3. \A h \in Handle, v \in Worker : Serves(v, h)' <=> Serves(v, h) \/ (h = g /\ v = w)
      BY <1>a, <2>1, <3>1 DEF Serves, TypeOK
    <3>4. \A h \in Handle : {v \in Worker : Serves(v, h)}' = IF h = g THEN {w} ELSE {v \in Worker : Serves(v, h)}
      BY <3>2, <3>3 DEF serving
    <3>5. serving' = [serving EXCEPT ![g] = {w}]
      BY <3>4 DEF serving
    <3>6. Box!Take(g, w)
      BY <2>3, <3>1, <3>2, <3>5 DEF Box!Take, serving
    <3> QED
      BY <3>6 DEF Box!Next
  <2> QED
    BY <2>2, <2>3
<1>5. ASSUME NEW w \in Worker, CallbackReturns(w) PROVE Box!Next
  <2>1. PICK g \in Handle : g = q[w]
    BY <1>5, <1>a DEF CallbackReturns, At, TypeOK, Locals, HandleOrNone
  <2>2. /\ UNCHANGED <<mq, release, q>> /\ pc[w] = "callback"
        /\ pc' = [pc EXCEPT ![w] = "pop"] \/ pc' = [pc EXCEPT ![w] = "requeue"]
    BY <1>5 DEF CallbackReturns, At, Goto, mqVars
  <2>3. w \in serving[g]
    BY <2>1, <2>2 DEF serving, Serves
  <2>4. \A h \in Handle, v \in Worker : Serves(v, h)' <=> Serves(v, h) /\ h # g
    BY <1>a, <1>c, <2>1, <2>2 DEF Serves, TypeOK
  <2>5. \A h \in Handle : {v \in Worker : Serves(v, h)}' = IF h = g THEN {} ELSE {v \in Worker : Serves(v, h)}
    BY <2>4
  <2>6. serving' = [serving EXCEPT ![g] = {}]
    BY <2>5 DEF serving
  <2>7. Box!Finish(g)
    BY <2>2, <2>3, <2>6 DEF Box!Finish, serving
  <2> QED
    BY <2>7 DEF Box!Next
<1>6. ASSUME UNCHANGED <<mq, release, pc, q>> PROVE UNCHANGED Box!vars
  BY <1>6, ServingSame
<1>7. ASSUME NEW w \in Worker, \/ Fetch(w) \/ Grab(w) \/ MqRelease(w) \/ MqLength(w)
                               \/ Requeue(w) \/ PushBack(w) \/ Wakeup(w)
      PROVE  UNCHANGED Box!vars
  BY <1>7, <1>a, ServingSame DEF Fetch, Grab, MqRelease, MqLength, Requeue, PushBack, Wakeup,
                                 At, Goto, mqVars, TypeOK
<1>8. ASSUME NEW w \in Worker, \/ DropQueue(w) \/ ContextReady(w) \/ ContextFailed(w) \/ NewMqRelease(w)
                               \/ InitReturns(w, "ok") \/ InitReturns(w, "failed")
      PROVE  UNCHANGED Box!vars
  BY <1>8, <1>6 DEF DropQueue, ContextReady, ContextFailed, NewMqRelease, InitReturns,
                    mqVars, workerVars
<1>9. ASSUME NEW t \in Thread, ContextRelease(t) \/ Request(t) PROVE UNCHANGED Box!vars
  BY <1>9, <1>6 DEF ContextRelease, Request, ContextPush, HandleRetire, ContextNew, mqVars, workerVars
<1>10. CASE UNCHANGED vars
  BY <1>10, <1>6 DEF vars
<1> QED
  BY <1>1, <1>2, <1>3, <1>4, <1>5, <1>7, <1>8, <1>9, <1>10 DEF Next, Operation, Loop

\* The runtime implements Mailbox (MailboxSpec): messages are taken in the order they
\* were pushed, by one worker at a time, and a service that is gone receives nothing;
\* skynet_mq_push delivers, skynet_mq_pop takes, the end of a callback finishes,
\* skynet_mq_mark_release closes and drop_message discards.
THEOREM ImplementsMailbox == Spec => MailboxSpec
BY MailboxInit, MailboxStep, Invariance, PTL DEF Spec, MailboxSpec, Box!Spec
=============================================================================
