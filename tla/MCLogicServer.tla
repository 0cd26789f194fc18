--------------------------- MODULE MCLogicServer ---------------------------
(* Small instances of LogicServer; the message set follows the other bounds. *)
EXTENDS LogicServer

MCLogicMessage == [session_id : 1..MaxSessions, body : 1..MaxMsgs]
=============================================================================
