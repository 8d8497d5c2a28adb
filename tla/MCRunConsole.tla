---------------------------- MODULE MCRunConsole ----------------------------
(* Instances of RunConsole. *)
EXTENDS RunConsole

CONSTANTS r1, r2, r3, p1, p2

AllRuns == {r1, r2, r3}
Started == {r1, r2}
FirstProject == {p1}
BothProjects == {p1, p2}
OneInTheOther == [r \in Runs |-> IF r = r2 THEN p2 ELSE p1]
=============================================================================
