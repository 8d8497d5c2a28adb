---------------------------- MODULE MCLocalRunner ----------------------------
EXTENDS LocalRunner

CONSTANTS r1, r2
Device == {r1, r2}
OneRun == {r1}
Asked == {"workspace_only", "selected_directories"}

\* What the Windows adapter enforces, and the macOS one.
Windows == [scope \in Asked |-> "argv_fence"]
MacOS == [scope \in Asked |-> "kernel"]

\* A bare word in the worktree, a path that is named, a relative one the fence
\* takes for another, and a script it does not look into.
Argued == {[place |-> "worktree", judged |-> "nothing"],
           [place |-> "chosen", judged |-> "chosen"],
           [place |-> "elsewhere", judged |-> "nothing"],
           [place |-> "worktree", judged |-> "elsewhere"]}
=============================================================================
