------------------------ MODULE MCDesktopCredential ------------------------
EXTENDS DesktopCredential, TLC

CONSTANTS ann, ben, p1, s1, x1, x2, c1, c2, c3, r1, r2

\* ann administers p1; ben develops it and has bound device 1, and holds a code.
OneAdmin == [p \in {p1} |-> [u \in {ann, ben} |-> IF u = ann THEN "admin" ELSE "developer"]]
TwoDevices == 1..2
BenBound == [d \in TwoDevices |->
    IF d = 1 THEN [NoDevice EXCEPT !.user = ben, !.project = p1] ELSE NoDevice]
BenMinted == [c \in {c1, c2, c3} |->
    IF c = c1 THEN [NoCode EXCEPT !.user = ben, !.project = p1] ELSE NoCode]
\* Time passes for what the database holds at first.
Early == {c1, 1}
Removal == {[project |-> p1, user |-> ben, role |-> "none"]}
LocalRun == {[project |-> p1, mode |-> "request_approval", local |-> TRUE]}
Sym == Permutations({r1, r2}) \cup Permutations({x1, x2})
=============================================================================
