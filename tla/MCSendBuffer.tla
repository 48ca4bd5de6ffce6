---------------------------- MODULE MCSendBuffer ----------------------------
(***************************************************************************)
(* A small instance of SendBuffer: the owner of the connection sends two   *)
(* packets and another service one.                                        *)
(***************************************************************************)
EXTENDS SendBuffer

CONSTANTS a, b

TwoAndOne == [s \in Sender |-> IF s = a THEN 2 ELSE 1]
=============================================================================
