----------------------------- MODULE EventFeed -----------------------------
(***************************************************************************)
(* What the durable event stream of a Run promises to one follower: events *)
(* are only ever appended, and the follower accepts them in order, none    *)
(* twice and none skipped, until it stops by itself. A response that was   *)
(* bypassed may skip some, and what it skips is not made good: the next    *)
(* response begins where the follower stands.                              *)
(***************************************************************************)
EXTENDS Naturals, Sequences

VARIABLES log,      \* the durable events of the Run
          seen,     \* the sequence numbers the follower accepted
          stopped,  \* the follower returned
          bypassed  \* the response may skip events

feedVars == <<log, seen, stopped, bypassed>>

FeedInit == log = <<>> /\ seen = <<>> /\ stopped = FALSE /\ bypassed = FALSE

append ==
    /\ Len(log') > Len(log)
    /\ SubSeq(log', 1, Len(log)) = log
    /\ UNCHANGED <<seen, stopped, bypassed>>

position == IF seen = <<>> THEN 0 ELSE seen[Len(seen)]

\* The response that was bypassed may end with what it brings.
accept ==
    /\ ~stopped
    /\ \E n \in (position + 1)..Len(log) :
         /\ ~bypassed => n = position + 1
         /\ seen' = Append(seen, n)
    /\ stopped' \in BOOLEAN
    /\ bypassed' \in {bypassed, FALSE}
    /\ UNCHANGED log

bypass ==
    /\ bypassed' = TRUE
    /\ UNCHANGED <<log, seen, stopped>>

\* The response ends; another begins at the follower's position.
reconnect ==
    /\ bypassed' = FALSE
    /\ UNCHANGED <<log, seen, stopped>>

FeedNext == append \/ accept \/ bypass \/ reconnect

FeedSpec == FeedInit /\ [][FeedNext]_feedVars
=============================================================================
