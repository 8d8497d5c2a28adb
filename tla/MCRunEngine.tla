---------------------------- MODULE MCRunEngine ----------------------------
(* Instances of RunEngine: processes numbered w1, w2, tasks named after     *)
(* their process.                                                           *)
EXTENDS RunEngine, TLC

CONSTANTS w1, w2, a1, a2, b1, b2

OneWorker == {w1}
TwoWorkers == {w1, w2}

OneTask == {a1}
TasksOfOne == {a1, a2}
OneTaskEach == {a1, b1}

Placement == (a1 :> w1) @@ (a2 :> w1) @@ (b1 :> w2) @@ (b2 :> w2)
PlacementOfTasks == [t \in Tasks |-> Placement[t]]

CallOf(tool, policy) == [tool |-> tool, policy |-> policy]

AllowedExec == {CallOf("exec", "allow")}
AskedExec == {CallOf("exec", "ask")}
MixedCalls == [tool: {"exec", "network"}, policy: {"allow", "ask", "deny"}]

NoCommands == {}
Cancel == {"cancel"}
AllCommands == {"cancel", "recover", "answer", "approve_once", "approve_run",
                "reject_once", "reject_run", "edit_approve"}
Decisions == {"approve_once", "approve_run", "reject_once", "reject_run",
              "edit_approve"}
=============================================================================
