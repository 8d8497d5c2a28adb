---------------------------- MODULE MCRunEvents ----------------------------
(* Instances of RunEvents. *)
EXTENDS RunEvents

CONSTANTS w1, w2

OneWorker == {w1}
TwoWorkers == {w1, w2}
=============================================================================
