----------------------------- MODULE MCWakelock -----------------------------
(***************************************************************************)
(* A small instance of Wakelock: one lock, one period.                     *)
(***************************************************************************)
EXTENDS Wakelock

CONSTANT l1

\* No call comes between the timer task's last look at its queue and its taking of
\* the expired timer: what the run shows needs no such coincidence.
NoneBetween == daemon = Looking => queue = <<>>
=============================================================================
