------------------------------ MODULE MCSetpoints ------------------------------
(* Small instances of Setpoints: the constants are given in the .cfg files. *)
EXTENDS Setpoints
================================================================================
