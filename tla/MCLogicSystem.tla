--------------------------- MODULE MCLogicSystem ---------------------------
(* Small instance of LogicSystem: two kinds of messages. *)
EXTENDS LogicSystem
=============================================================================
