---------------------------- MODULE MCModelTurn ----------------------------
(* One Run whose driver asks a provider, and another that is admitted beside *)
(* it; three requests.                                                       *)
EXTENDS ModelTurn, TLC

CONSTANTS r1, r2, u1, q1, q2, q3

TwoRuns == {r1, r2}
OneRun == {r1}
OneUser == {u1}
UserOfRuns == [r \in Runs |-> u1]
ThreeRequests == {q1, q2, q3}
RunOfRequests == [q \in Requests |-> r1]
RequestSymmetry == Permutations(ThreeRequests)
WithinEnvelope == {1}
BothCounters == {"toolCalls", "modelRetries"}
Limits == ("toolCalls" :> 2) @@ ("modelRetries" :> 1)
\* One token of input, or one that was read from the cache.
Usual == {[input |-> i, output |-> 0, cacheRead |-> 1 - i, cacheCreation |-> 0] : i \in 0..1}
Responses == {"responses"}
Chat == {"chat"}
Messages == {"messages"}
EveryProtocol == Responses \cup Chat \cup Messages
Mixed == {[kind |-> "execute_command", json |-> TRUE], [kind |-> "execute_command", json |-> FALSE],
          [kind |-> "request_user_input", json |-> TRUE]}
=============================================================================
