------------------------------ MODULE StopAndWait ------------------------------
(***************************************************************************)
(* What the network side of leepDrv promises while MAX_PARALLEL_REQUESTS   *)
(* has its default value 1: the FPGA's small network stack is never given  *)
(* a request while an earlier one is still being waited for.               *)
(*                                                                         *)
(* count is the number in the nonce of the latest request, busy says that  *)
(* a request is being waited for.                                          *)
(***************************************************************************)
EXTENDS Naturals

CONSTANT Wrap       \* the nonce is counted modulo Wrap

VARIABLES count, busy
vars == <<count, busy>>

Init == count = 0 /\ busy = FALSE

\* A request is issued only when none is waited for.  A request that could
\* not be written still uses up its number, and nobody waits for it.
Issue ==
  /\ ~busy
  /\ count' = (count + 1) % Wrap
  /\ busy' \in BOOLEAN

\* The answer came, or it is given up for lost.
Settle == busy /\ busy' = FALSE /\ UNCHANGED count

Next == Issue \/ Settle

Spec == Init /\ [][Next]_vars
FairSpec == Spec /\ WF_vars(Settle)
================================================================================
