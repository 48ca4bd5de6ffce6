----------------------------- MODULE MCRoomMgr -----------------------------
(***************************************************************************)
(* Small instances of RoomMgr: two rooms, matches of two, so that a third  *)
(* join comes too late.                                                    *)
(***************************************************************************)
EXTENDS RoomMgr

CONSTANTS r1, r2

MCIdTbl == <<r1, r2>>
=============================================================================
