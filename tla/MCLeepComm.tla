------------------------------ MODULE MCLeepComm ------------------------------
(* Small instances of LeepComm. *)
EXTENDS LeepComm, TLC
Symmetry == Permutations(Senders)
================================================================================
