----------------------------- MODULE MCDispatch -----------------------------
(***************************************************************************)
(* Small instances of Dispatch: a service there from the start and one     *)
(* that may be launched, two workers, and a thread of the runtime.         *)
(***************************************************************************)
EXTENDS Dispatch

CONSTANTS boot, w1, w2

MCBootQ == <<boot>>

\* One worker takes one message at a time, the other the whole queue at once.
MCWeight == [w \in Worker |-> IF w = w1 THEN -1 ELSE 0]
=============================================================================
