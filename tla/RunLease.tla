------------------------------ MODULE RunLease ------------------------------
(***************************************************************************)
(* The PostgreSQL run lease (packages/run-engine/src/postgres-run-lease.ts)*)
(* for one Run: the row <owner_id, lease_until, generation>, the tokens    *)
(* that tasks of several Worker processes still hold, and one action per   *)
(* SQL statement.  lease_until is computed from the Worker's clock and     *)
(* compared with the database's, so every Worker may be off by a skew.     *)
(***************************************************************************)
EXTENDS Integers

CONSTANTS Workers, Tasks, WorkerOf, NoWorker, NoTask,
          LeaseMilliseconds,  \* length of a lease, in clock ticks
          Skews,              \* Worker clock minus database clock
          MaxClock,           \* bound: the database clock stops here
          MaxGeneration       \* bound: tokens and invalidations issued

ASSUME RunLeaseAssumption ==
    /\ WorkerOf \in [Tasks -> Workers]
    /\ NoWorker \notin Workers
    /\ NoTask \notin Tasks
    /\ LeaseMilliseconds \in Nat
    /\ Skews \subseteq Int
    /\ MaxClock \in Nat
    /\ MaxGeneration \in Nat

VARIABLES clock,       \* transaction_timestamp()
          owner_id,    \* NoWorker: the row does not exist
          expired,     \* TRUE: lease_until = '-infinity'
          lease_until,
          generation,
          token        \* token[t]: generation t was given; 0 = none

vars == <<clock, owner_id, expired, lease_until, generation, token>>

TypeOK ==
    /\ clock \in Nat
    /\ owner_id \in Workers \cup {NoWorker}
    /\ expired \in BOOLEAN
    /\ lease_until \in Int
    /\ generation \in Nat
    /\ token \in [Tasks -> Nat]

Init ==
    /\ clock = 0
    /\ owner_id = NoWorker
    /\ expired = TRUE
    /\ lease_until = 0
    /\ generation = 0
    /\ token = [t \in Tasks |-> 0]

-----------------------------------------------------------------------------
(* WHERE lease_until < transaction_timestamp()                              *)
Lapsed == expired \/ lease_until < clock

(* renewLease passes the token's generation and matches only while it is    *)
(* the row's.                                                               *)
Matches(t) == token[t] # 0 /\ owner_id = WorkerOf[t] /\ generation = token[t]

SetLeaseUntil == \E s \in Skews :
    /\ lease_until' = clock + LeaseMilliseconds + s
    /\ expired' = FALSE

(* Slips in the statements below that the properties must catch.            *)
acquireKeepsGeneration(t) ==
    /\ generation < MaxGeneration
    /\ owner_id \in {NoWorker, WorkerOf[t]} \/ Lapsed
    /\ SetLeaseUntil
    /\ owner_id' = WorkerOf[t]
    /\ generation' = IF owner_id = NoWorker THEN 1 ELSE generation
    /\ token' = [token EXCEPT ![t] = generation']
    /\ UNCHANGED clock

releaseRewindsGeneration(t) ==
    /\ token[t] # 0
    /\ expired' = IF owner_id = WorkerOf[t] THEN TRUE ELSE expired
    /\ generation' = IF owner_id = WorkerOf[t] THEN generation - 1 ELSE generation
    /\ token' = [token EXCEPT ![t] = 0]
    /\ UNCHANGED <<clock, owner_id, lease_until>>

heartbeatTakesLapsed(t) ==
    /\ token[t] # 0
    /\ owner_id = WorkerOf[t] \/ Lapsed
    /\ SetLeaseUntil
    /\ owner_id' = WorkerOf[t]
    /\ UNCHANGED <<clock, generation, token>>

(* INSERT ... generation 1, or ON CONFLICT DO UPDATE ... generation + 1     *)
acquire(t) ==
    /\ generation < MaxGeneration
    /\ owner_id \in {NoWorker, WorkerOf[t]} \/ Lapsed
    /\ SetLeaseUntil
    /\ owner_id' = WorkerOf[t]
    /\ generation' = generation + 1
    /\ token' = [token EXCEPT ![t] = generation + 1]
    /\ UNCHANGED clock

(* A successful renew with a generation (renewLease).  Expiry is not        *)
(* checked: a lapsed lease nobody took is simply prolonged.                 *)
renew(t) ==
    /\ Matches(t)
    /\ SetLeaseUntil
    /\ UNCHANGED <<clock, owner_id, generation, token>>

(* The heartbeat's renew carries no generation: the owner alone decides.    *)
heartbeatRenew(t) ==
    /\ token[t] # 0
    /\ owner_id = WorkerOf[t]
    /\ SetLeaseUntil
    /\ UNCHANGED <<clock, owner_id, generation, token>>

(* release: owner only, generation kept; the task drops its token.          *)
release(t) ==
    /\ token[t] # 0
    /\ expired' = IF owner_id = WorkerOf[t] THEN TRUE ELSE expired
    /\ token' = [token EXCEPT ![t] = 0]
    /\ UNCHANGED <<clock, owner_id, lease_until, generation>>

(* invalidate: owner only, generation + 1, no new token.                    *)
invalidate(t) ==
    /\ generation < MaxGeneration
    /\ token[t] # 0
    /\ owner_id = WorkerOf[t]
    /\ expired' = TRUE
    /\ generation' = generation + 1
    /\ UNCHANGED <<clock, owner_id, lease_until, token>>

(* The process of w dies; its tokens are gone, the row stays.               *)
crash(w) ==
    /\ \E t \in Tasks : WorkerOf[t] = w /\ token[t] # 0
    /\ token' = [t \in Tasks |-> IF WorkerOf[t] = w THEN 0 ELSE token[t]]
    /\ UNCHANGED <<clock, owner_id, expired, lease_until, generation>>

tick ==
    /\ clock < MaxClock
    /\ clock' = clock + 1
    /\ UNCHANGED <<owner_id, expired, lease_until, generation, token>>

Next ==
    \/ \E t \in Tasks : \/ acquire(t) \/ renew(t) \/ heartbeatRenew(t)
                        \/ release(t) \/ invalidate(t)
    \/ \E w \in Workers : crash(w)
    \/ tick

Spec == Init /\ [][Next]_vars

-----------------------------------------------------------------------------
(* One active driver: two tasks never both hold a token that renewLease     *)
(* accepts, whatever the clocks say and however leases lapse, are released  *)
(* by a superseded task or are invalidated.                                 *)
OneAcceptedToken ==
    \A t, u \in Tasks : Matches(t) /\ Matches(u) => t = u

(* A token that stopped matching never matches again: after a takeover and  *)
(* a return of the first owner the old token must still be refused.         *)
StaleStaysStale ==
    [][\A t \in Tasks :
         token[t] # 0 /\ token'[t] = token[t] /\ ~Matches(t) => ~Matches(t)']_vars

(* The accepted token, as LeaseFence sees it.                               *)
Holder == IF \E t \in Tasks : Matches(t)
          THEN CHOOSE t \in Tasks : Matches(t) ELSE NoTask

Fence == INSTANCE LeaseFence WITH owner <- owner_id, holder <- Holder,
                                  live <- ~Lapsed

(* The SQL lease keeps the promise of LeaseFence.                           *)
ImplementsFence == Fence!FenceSpec

=============================================================================
