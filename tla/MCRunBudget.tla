----------------------------- MODULE MCRunBudget -----------------------------
(* Two Runs, of one user or of two; the first asks its provider twice.       *)
EXTENDS RunBudget, TLC

CONSTANTS r1, r2, u1, u2, q1, q2

TwoRuns == {r1, r2}
TwoUsers == {u1, u2}
UserOfRuns == (r1 :> u1) @@ (r2 :> u2)
SameUser == (r1 :> u1) @@ (r2 :> u1)
TwoRequests == {q1, q2}
RunOfRequests == (q1 :> r1) @@ (q2 :> r1)
NoRequests == {}
NoRunOf == <<>>
WithinEnvelope == {0, 2}
ToolCallsOnly == {"toolCalls"}
NoCounters == {}
Limits == [k \in Counters |-> 1]
=============================================================================
