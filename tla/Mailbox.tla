------------------------------ MODULE Mailbox ------------------------------
(***************************************************************************)
(* What the skynet runtime promises a service: a mailbox that is read in   *)
(* the order it was written, by one worker thread at a time, and that      *)
(* takes no message any more once the service is gone.  The threads, locks,*)
(* reference counts and the global queue that keep this promise are in     *)
(* module Dispatch, which is shown to implement this one.                  *)
(***************************************************************************)
EXTENDS Sequences

CONSTANTS Handle,    \* service handles
          Worker,    \* worker threads
          Message    \* what a mailbox can hold

VARIABLES box,       \* [Handle -> Seq(Message)]: messages not yet taken
          serving,   \* [Handle -> SUBSET Worker]: who runs the service's callback
          open       \* SUBSET Handle: services that may still receive

vars == <<box, serving, open>>

Init == /\ box \in [Handle -> Seq(Message)]
        /\ serving = [h \in Handle |-> {}]
        /\ open = Handle

\* A message goes to the end of an open mailbox.
Deliver(h, m) == /\ h \in open
                 /\ box' = [box EXCEPT ![h] = Append(@, m)]
                 /\ UNCHANGED <<serving, open>>

\* A worker takes the oldest message when no worker serves the mailbox.
Take(h, w) == /\ serving[h] = {}
              /\ box[h] # <<>>
              /\ box' = [box EXCEPT ![h] = Tail(@)]
              /\ serving' = [serving EXCEPT ![h] = {w}]
              /\ UNCHANGED open

\* The callback has returned.
Finish(h) == /\ serving[h] # {}
             /\ serving' = [serving EXCEPT ![h] = {}]
             /\ UNCHANGED <<box, open>>

\* The service is gone: its mailbox is closed, for good, while nobody serves it.
Close(h) == /\ h \in open
            /\ serving[h] = {}
            /\ open' = open \ {h}
            /\ UNCHANGED <<box, serving>>

\* Only a closed mailbox is ever emptied without being served.
Discard(h) == /\ h \notin open
              /\ serving[h] = {}
              /\ box[h] # <<>>
              /\ box' = [box EXCEPT ![h] = Tail(@)]
              /\ UNCHANGED <<serving, open>>

Next == \E h \in Handle :
            \/ \E m \in Message : Deliver(h, m)
            \/ \E w \in Worker : Take(h, w)
            \/ Finish(h)
            \/ Close(h)
            \/ Discard(h)

Spec == Init /\ [][Next]_vars
=============================================================================
