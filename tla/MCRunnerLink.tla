---------------------------- MODULE MCRunnerLink ----------------------------
(* RunnerLink for TLC: calls, sockets and command ids are numbers, so the    *)
(* configurations bound them directly and nothing is left to define.         *)
EXTENDS RunnerLink
=============================================================================
