----------------------------- MODULE MCRunLease -----------------------------
(* Two Worker processes with two concurrent tasks each, clocks that agree   *)
(* or are ahead of or far behind the database.                              *)
EXTENDS RunLease, TLC

CONSTANTS w1, w2, a1, a2, b1, b2

MCWorkers == {w1, w2}
MCTasks == {a1, a2, b1, b2}
MCWorkerOf == (a1 :> w1) @@ (a2 :> w1) @@ (b1 :> w2) @@ (b2 :> w2)
MCSkews == {-2, 0}
=============================================================================
