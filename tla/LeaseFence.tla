----------------------------- MODULE LeaseFence -----------------------------
(***************************************************************************)
(* What the run lease promises its callers (contracts: RunLease).  At any  *)
(* moment one worker owns the lease of a Run and at most one task of that  *)
(* worker - one call of resume() or command() - holds the token the        *)
(* database still accepts.  Generations, timestamps and SQL are absent:    *)
(* RunLease implements this module with them, and RunEngine drives a Run   *)
(* with exactly these operations.                                          *)
(***************************************************************************)
CONSTANTS Workers,    \* Worker processes (workerId)
          Tasks,      \* asynchronous calls a process can have in flight
          WorkerOf,   \* the process a task runs in
          NoWorker,   \* the lease row does not exist yet
          NoTask      \* no task holds the current token

ASSUME LeaseFenceAssumption ==
    /\ WorkerOf \in [Tasks -> Workers]
    /\ NoWorker \notin Workers
    /\ NoTask \notin Tasks

VARIABLES owner,   \* owner_id of the row
          holder,  \* the task whose token matches the row
          live     \* lease_until has not passed

fenceVars == <<owner, holder, live>>

FenceTypeOK ==
    /\ owner \in Workers \cup {NoWorker}
    /\ holder \in Tasks \cup {NoTask}
    /\ live \in BOOLEAN

FenceInit == owner = NoWorker /\ holder = NoTask /\ live = FALSE

(* acquire: a new, an expired or the caller's own lease is taken over, and  *)
(* the token handed out supersedes every earlier one.                       *)
Acquirable(w) == owner \in {NoWorker, w} \/ ~live

Acquire(t) ==
    /\ Acquirable(WorkerOf[t])
    /\ owner' = WorkerOf[t]
    /\ holder' = t
    /\ live' \in BOOLEAN

TokenAccepted(t) == holder = t

(* renew: extends the lease of its owner; it never moves the token.         *)
Renew(w) == owner = w /\ live' \in BOOLEAN /\ UNCHANGED <<owner, holder>>

(* A caller is finished with its token, or its process died.                *)
Forget(ts) == holder' = IF holder \in ts THEN NoTask ELSE holder

(* release: checks the owner only, so a late release by a superseded task   *)
(* of the same process ends the lease of its successor.                     *)
Release(t) ==
    /\ live' = IF owner = WorkerOf[t] THEN FALSE ELSE live
    /\ Forget({t})
    /\ UNCHANGED owner

(* invalidate: the owner voids its own lease and the token with it.         *)
Invalidate(w) == owner = w /\ live' = FALSE /\ holder' = NoTask /\ UNCHANGED owner

Expire == live /\ live' = FALSE /\ UNCHANGED <<owner, holder>>

Drop(ts) == Forget(ts) /\ UNCHANGED <<owner, live>>

FenceNext ==
    \/ \E t \in Tasks : Acquire(t) \/ Release(t)
    \/ \E w \in Workers : Renew(w) \/ Invalidate(w)
    \/ \E ts \in SUBSET Tasks : Drop(ts)
    \/ Expire

FenceSpec == FenceInit /\ [][FenceNext]_fenceVars
=============================================================================
