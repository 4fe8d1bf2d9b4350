---------------------------- MODULE MCTraceRequest ----------------------------
(* Small instances of TraceRequest: the constants are given in the .cfg files. *)
EXTENDS TraceRequest
================================================================================
