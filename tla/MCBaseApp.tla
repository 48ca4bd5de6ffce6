----------------------------- MODULE MCBaseApp -----------------------------
(***************************************************************************)
(* Instances of BaseApp for TLC.                                           *)
(***************************************************************************)
EXTENDS BaseApp

CONSTANTS a1
AllAccounts == {a1}
AllPackets == [kind : {"login"}, account : AllAccounts] \cup [kind : {"bad_token"}]
              \cup [kind : {"room"}]
=============================================================================
