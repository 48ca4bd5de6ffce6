----------------------------- MODULE MCSession -----------------------------
(***************************************************************************)
(* Small instances of Session.  Coroutines, session ids and peers are       *)
(* interchangeable.                                                        *)
(***************************************************************************)
EXTENDS Session

Symmetry == Permutations(Co) \cup Permutations(SessionId) \cup Permutations(Peer)
=============================================================================
