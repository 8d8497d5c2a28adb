------------------------------ MODULE RunBudget ------------------------------
(***************************************************************************)
(* The PostgreSQL budget of Runs (packages/run-engine/src/                 *)
(* postgres-run-budget.ts) and its callers: admission of new Runs,         *)
(* reservation of the worst case before a provider request, settlement,    *)
(* forfeit, recovery and closure.                                          *)
(*                                                                         *)
(* A statement of READ COMMITTED sees what was committed when it BEGAN.    *)
(* open and reserveModelRequest take an advisory lock inside their single  *)
(* statement, so a statement that waited for the lock still decides on its *)
(* earlier view; close does not see a reservation inserted after it began. *)
(* These three are two steps each, begin and commit.  An UPDATE of one row *)
(* re-checks the row it locks and is one step.  Tokens and cost are one    *)
(* amount; all Runs belong to one project and one month.                   *)
(***************************************************************************)
EXTENDS Integers, FiniteSets, FiniteSetsExt

CONSTANTS Runs, Users, UserOf,
          Requests, RunOf,   \* provider requests, each with a fresh requestId
          Envelope,          \* maxInputTokens + maxOutputTokens of a request
          Usages,            \* what a provider may report
          MaxTotalTokens, TeamMonthlyMax,
          MaxActiveRunsPerUser, MaxActiveRunsPerProject,
          Counters,          \* what is counted: toolCalls, modelRetries
          Limit,             \* maxToolCalls, maxModelRetries
          MaxRecords,        \* bound: tool calls, retries recorded per Run
          MaxOverlap         \* bound: provider requests of a Run at one time

ASSUME RunBudgetAssumption ==
    /\ UserOf \in [Runs -> Users]
    /\ RunOf \in [Requests -> Runs]
    /\ IsFiniteSet(Requests)
    /\ Usages \subseteq Nat
    /\ Counters \subseteq {"toolCalls", "modelRetries"}
    /\ Limit \in [Counters -> Nat]
    /\ {Envelope, MaxTotalTokens, TeamMonthlyMax, MaxActiveRunsPerUser,
        MaxActiveRunsPerProject, MaxRecords, MaxOverlap} \subseteq Nat

VARIABLES budget,       \* run_engine_budgets
          reservation,  \* run_engine_model_reservations
          admission,    \* what the open statement of a Run saw
          view,         \* what the reserve statement of a request saw
          closing,      \* what the close statement of a Run saw
          phase,        \* how far a request got in its driver
          deciding,     \* counted calls and retries not decided yet
          granted       \* calls and retries that were allowed

vars == <<budget, reservation, admission, view, closing, phase, deciding, granted>>

Phases == {"idle", "reserving", "reserved", "refused", "sent", "done"}
Statuses == {"none", "active", "settled", "forfeited"}

TypeOK ==
    /\ budget \in [Runs -> [state: {"none", "active", "finished"}, charged: Nat,
                            toolCalls: Nat, modelRetries: Nat]]
    /\ reservation \in [Requests -> [status: Statuses, used: Nat]]
    /\ \A r \in Runs : admission[r].pending \in BOOLEAN
    /\ closing \in [Runs -> [pending: BOOLEAN, seen: SUBSET Requests]]
    /\ phase \in [Requests -> Phases]
    /\ deciding \in [Runs -> [Counters -> Nat]]
    /\ granted \in [Runs -> [Counters -> Nat]]

NoAdmission == [pending |-> FALSE, user |-> 0, project |-> 0, team |-> 0]
NotClosing == [pending |-> FALSE, seen |-> {}]
NoView == [active |-> FALSE, charged |-> 0, team |-> 0, busy |-> FALSE]

Init ==
    /\ budget = [r \in Runs |-> [state |-> "none", charged |-> 0, toolCalls |-> 0,
                                 modelRetries |-> 0]]
    /\ reservation = [q \in Requests |-> [status |-> "none", used |-> 0]]
    /\ admission = [r \in Runs |-> NoAdmission]
    /\ view = [q \in Requests |-> NoView]
    /\ closing = [r \in Runs |-> NotClosing]
    /\ phase = [q \in Requests |-> "idle"]
    /\ deciding = [r \in Runs |-> [k \in Counters |-> 0]]
    /\ granted = [r \in Runs |-> [k \in Counters |-> 0]]

-----------------------------------------------------------------------------
ActiveRuns == {r \in Runs : budget[r].state = "active"}
RequestsOf(r) == {q \in Requests : RunOf[q] = r}
Active(r) == {q \in RequestsOf(r) : reservation[q].status = "active"}
Overlapping(r) == {q \in RequestsOf(r) : phase[q] \in {"reserving", "reserved", "sent"}}

(* Actual cost of the month, and the envelopes still reserved in it.        *)
TeamCost == MapThenSumSet(LAMBDA r : budget[r].charged, Runs)
TeamExposure ==
    TeamCost
    + Envelope * Cardinality({q \in Requests : reservation[q].status = "active"})

(* decide(snapshot)                                                         *)
AllowedOneMore(r) ==                      \* slip: off by one
    \A k \in Counters : budget[r][k] <= Limit[k] + 1

Allowed(r) ==
    /\ budget[r].charged <= MaxTotalTokens
    /\ TeamCost <= TeamMonthlyMax
    /\ \A k \in Counters : budget[r][k] <= Limit[k]

-----------------------------------------------------------------------------
(* open: the counts are read when the statement begins, the row is inserted *)
(* under the lock.                                                          *)
open(r) ==
    /\ budget[r].state = "none" /\ ~admission[r].pending
    /\ admission' = [admission EXCEPT ![r] =
          [pending |-> TRUE,
           user |-> Cardinality({s \in ActiveRuns : UserOf[s] = UserOf[r]}),
           project |-> Cardinality(ActiveRuns),
           team |-> TeamExposure]]
    /\ UNCHANGED <<budget, reservation, view, phase, deciding, granted, closing>>

admit(r) ==
    /\ admission[r].pending
    /\ admission' = [admission EXCEPT ![r] = NoAdmission]
    /\ IF /\ admission[r].user < MaxActiveRunsPerUser
          /\ admission[r].project < MaxActiveRunsPerProject
          /\ admission[r].team < TeamMonthlyMax
       THEN budget' = [budget EXCEPT ![r].state = "active"]
       ELSE UNCHANGED budget
    /\ UNCHANGED <<reservation, view, phase, deciding, granted, closing>>

(* reserveModelRequest, called only by a driver whose Run was admitted.     *)
reserve(q) ==
    LET r == RunOf[q]
    IN  /\ phase[q] = "idle" /\ budget[r].state # "none"
        /\ Cardinality(Overlapping(r)) < MaxOverlap
        /\ phase' = [phase EXCEPT ![q] = "reserving"]
        /\ view' = [view EXCEPT ![q] =
              [active |-> budget[r].state = "active", charged |-> budget[r].charged,
               team |-> TeamExposure, busy |-> Active(r) # {}]]
        /\ UNCHANGED <<budget, reservation, admission, deciding, granted, closing>>

Fits(v) ==
    /\ v.active /\ ~v.busy
    /\ v.charged + Envelope <= MaxTotalTokens
    /\ v.team + Envelope <= TeamMonthlyMax

(* The unique index on active reservations sees the current rows: the loser *)
(* of a race gets an error.                                                 *)
reserved(q) ==
    /\ phase[q] = "reserving"
    /\ view' = [view EXCEPT ![q] = NoView]
    /\ IF Fits(view[q]) /\ Active(RunOf[q]) = {}
       THEN /\ reservation' = [reservation EXCEPT ![q].status = "active"]
            /\ phase' = [phase EXCEPT ![q] = "reserved"]
       ELSE /\ phase' = [phase EXCEPT ![q] = "refused"]
            /\ UNCHANGED reservation
    /\ UNCHANGED <<budget, admission, deciding, granted, closing>>

(* requireActiveBudget, read after the insert: a budget closed meanwhile    *)
(* stops the request and leaves the reservation.                            *)
send(q) ==
    /\ phase[q] = "reserved"
    /\ phase' = [phase EXCEPT ![q] =
          IF budget[RunOf[q]].state = "active" THEN "sent" ELSE "refused"]
    /\ UNCHANGED <<budget, reservation, admission, view, deciding, granted, closing>>

(* Slip: the status of the reservation is not compared.                     *)
ChargeAgain(q, status, amount) ==
    LET r == RunOf[q]
    IN  /\ reservation' = [reservation EXCEPT ![q] =
                    [status |-> status, used |-> amount]]
        /\ budget' = IF budget[r].state = "finished" THEN budget
                     ELSE [budget EXCEPT ![r].charged = @ + amount]

(* Both UPDATEs of settle and forfeit: the reservation that is still        *)
(* active, and the budget row while it is not finished.                     *)
Charge(q, status, amount) ==
    LET r == RunOf[q]
    IN  IF reservation[q].status = "active"
        THEN /\ reservation' = [reservation EXCEPT ![q] =
                    [status |-> status, used |-> amount]]
             /\ budget' = IF budget[r].state = "finished" THEN budget
                          ELSE [budget EXCEPT ![r].charged = @ + amount]
        ELSE UNCHANGED <<reservation, budget>>

(* The provider answered with its usage, which may exceed the envelope.  A  *)
(* reservation that recovery or closure forfeited meanwhile is refused and  *)
(* stays as it is.                                                          *)
settleModelRequest(q) ==
    /\ phase[q] = "sent"
    /\ phase' = [phase EXCEPT ![q] = "done"]
    /\ \E used \in Usages : Charge(q, "settled", used)
    /\ UNCHANGED <<admission, view, deciding, granted, closing>>

(* The provider failed, or its answer carried no usage.                     *)
forfeitModelRequest(q) ==
    /\ phase[q] = "sent"
    /\ phase' = [phase EXCEPT ![q] = "done"]
    /\ Charge(q, "forfeited", Envelope)
    /\ UNCHANGED <<admission, view, deciding, granted, closing>>

(* The process of the driver dies; what it sent may have been billed.       *)
crash(q) ==
    /\ phase[q] \in {"reserving", "reserved", "sent"}
    /\ phase' = [phase EXCEPT ![q] = IF @ = "sent" THEN "done" ELSE "refused"]
    /\ view' = [view EXCEPT ![q] = NoView]
    /\ UNCHANGED <<budget, reservation, admission, deciding, granted, closing>>

(* A new driver charges what its predecessor left reserved.  The id is read *)
(* first; when that request is settled in between, forfeit finds nothing.   *)
reconcileModelRequests(r) ==
    \E q \in Active(r) :
        /\ Charge(q, "forfeited", Envelope)
        /\ UNCHANGED <<admission, view, phase, deciding, granted, closing>>

(* close: terminal Run, or a Run that could not be stored.  Forfeits the    *)
(* reservations that were active when the statement began and still are.    *)
close(r) ==
    /\ budget[r].state # "none" /\ ~closing[r].pending
    /\ closing' = [closing EXCEPT ![r] = [pending |-> TRUE, seen |-> Active(r)]]
    /\ UNCHANGED <<budget, reservation, admission, view, phase, deciding, granted>>

closed(r) ==
    LET forfeited == closing[r].seen \cap Active(r)
    IN  /\ closing[r].pending
        /\ closing' = [closing EXCEPT ![r] = NotClosing]
        /\ reservation' = [q \in Requests |->
              IF q \in forfeited THEN [status |-> "forfeited", used |-> Envelope]
              ELSE reservation[q]]
        /\ budget' = [budget EXCEPT ![r].state = "finished",
                                    ![r].charged = @ + Envelope * Cardinality(forfeited)]
        /\ UNCHANGED <<admission, view, phase, deciding, granted>>

(* recordToolCall, recordModelRetry: the count is stored, then the snapshot *)
(* read back decides.                                                       *)
record(r, k) ==
    /\ budget[r].state = "active" /\ budget[r][k] < MaxRecords
    /\ budget' = [budget EXCEPT ![r][k] = @ + 1]
    /\ deciding' = [deciding EXCEPT ![r][k] = @ + 1]
    /\ UNCHANGED <<reservation, admission, view, phase, granted, closing>>

decide(r, k) ==
    /\ deciding[r][k] > 0
    /\ deciding' = [deciding EXCEPT ![r][k] = @ - 1]
    /\ granted' = IF Allowed(r) THEN [granted EXCEPT ![r][k] = @ + 1] ELSE granted
    /\ UNCHANGED <<budget, reservation, admission, view, phase, closing>>

Next ==
    \/ \E r \in Runs : \/ open(r) \/ admit(r) \/ close(r) \/ closed(r)
                       \/ reconcileModelRequests(r)
    \/ \E q \in Requests : \/ reserve(q) \/ reserved(q) \/ send(q) \/ crash(q)
                           \/ settleModelRequest(q) \/ forfeitModelRequest(q)
    \/ \E r \in Runs, k \in Counters : record(r, k) \/ decide(r, k)

Spec == Init /\ [][Next]_vars

-----------------------------------------------------------------------------
Amounts(qs) == MapThenSumSet(LAMBDA q : reservation[q].used, qs)
Due(r) == {q \in RequestsOf(r) : reservation[q].status \in {"settled", "forfeited"}}

(* A request is charged at most once, whoever settles or forfeits it, and   *)
(* while the Run is open exactly once.                                      *)
ChargedOnce ==
    \A r \in Runs :
        IF budget[r].state = "finished"
        THEN budget[r].charged <= Amounts(Due(r))
        ELSE budget[r].charged = Amounts(Due(r))

(* As long as providers stay within their envelopes, one driver at a time   *)
(* never exceeds the token limit of its Run, through failures, crashes and  *)
(* recovery.                                                                *)
RunWithinLimit ==
    \A r \in Runs :
        budget[r].charged + Envelope * Cardinality(Active(r)) <= MaxTotalTokens

(* However many drivers count, no more tool calls and retries are allowed   *)
(* than the Run's limits.                                                   *)
GrantedWithinLimit ==
    \A r \in Runs, k \in Counters : granted[r][k] <= Limit[k]

(* A user never has more Runs active than the limit.                        *)
UserConcurrencyHeld ==
    \A u \in Users :
        Cardinality({r \in ActiveRuns : UserOf[r] = u}) <= MaxActiveRunsPerUser
=============================================================================
