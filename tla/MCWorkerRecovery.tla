--------------------------- MODULE MCWorkerRecovery ---------------------------
(* Two processes with a task each, that answer no command.                  *)
EXTENDS WorkerRecovery, TLC

CONSTANTS w1, w2, a1, b1

TwoWorkers == {w1, w2}
OneTaskEach == {a1, b1}
Placement == (a1 :> w1) @@ (b1 :> w2)

Silent == {}
AllowedExec == {[tool |-> "exec", policy |-> "allow"]}
=============================================================================
