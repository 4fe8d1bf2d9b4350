--------------------------- MODULE MCSingleMsgQueue ---------------------------
(* Small instances of SingleMsgQueue: the constants are given in the .cfg files. *)
EXTENDS SingleMsgQueue
================================================================================
