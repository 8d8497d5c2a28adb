------------------------- MODULE MCSteeringMailbox -------------------------
(* Instances of SteeringMailbox: two Workers, a driver on each. *)
EXTENDS SteeringMailbox

CONSTANTS w1, w2, d1, d2, s1, s2, s3, c1, c2

TwoWorkers == {w1, w2}
TwoDrivers == {d1, d2}
ThreeAttempts == {s1, s2, s3}
OneEach == [x \in Drivers \cup Attempts |-> IF x \in {d1, s1} THEN w1 ELSE w2]
RepeatedCommand == [a \in Attempts |-> IF a = s3 THEN c2 ELSE c1]
=============================================================================
