-------------------------------- MODULE Fifo --------------------------------
(***************************************************************************)
(* What a service's message queue is to its users: a sequence.  Module     *)
(* Dispatch uses it in this form; module RingQueue implements it.          *)
(***************************************************************************)
EXTENDS Sequences

CONSTANTS Message,  \* what is queued
          None      \* what a pop of an empty queue returns

VARIABLES items,    \* the messages, oldest first
          got       \* the result of the last pop

Init == items = <<>> /\ got = None

Push(m) == items' = Append(items, m) /\ UNCHANGED got

Pop == /\ items # <<>>
       /\ got' = Head(items)
       /\ items' = Tail(items)

PopEmpty == items = <<>> /\ got' = None /\ UNCHANGED items

Next == (\E m \in Message : Push(m)) \/ Pop \/ PopEmpty

Spec == Init /\ [][Next]_<<items, got>>
=============================================================================
