--------------------------- MODULE RunBudgetProofs ---------------------------
(***************************************************************************)
(* Proofs about RunBudget and the turns that use it (ModelTurn), for any   *)
(* Runs, requests, limits and bounds: the types, that concurrent drivers   *)
(* of a Run are never allowed more tool calls or retries than its limits,  *)
(* that each request is charged once, that a driver uses the budget only   *)
(* as RunBudget allows, and that a request carries the whole conversation  *)
(* and follows every result.                                               *)
(***************************************************************************)
EXTENDS ModelTurn, FiniteSetTheorems, SequenceTheorems, WellFoundedInduction, TLAPS

Row == [state: {"none", "active", "finished"}, charged: Nat, toolCalls: Nat,
        modelRetries: Nat]

(* Every decision under way or granted was counted first, and what was      *)
(* granted stays within the limit.                                          *)
CountedFirst ==
    \A r \in Runs, k \in Counters : granted[r][k] + deciding[r][k] <= budget[r][k]

(* What a step does to the rows' types, and the domain of admission, which  *)
(* TypeOK does not mention.                                                 *)
RowType == budget \in [Runs -> Row] /\ reservation \in [Requests -> [status: Statuses, used: Nat]]

DecisionType ==
    /\ deciding \in [Runs -> [Counters -> Nat]]
    /\ granted \in [Runs -> [Counters -> Nat]]

(* The counters of two rows are the same.                                   *)
SameCounters(a, b) == a.toolCalls = b.toolCalls /\ a.modelRetries = b.modelRetries

(* The inductive invariant.                                                 *)
IInv == TypeOK /\ DOMAIN admission = Runs /\ CountedFirst /\ GrantedWithinLimit

-----------------------------------------------------------------------------
(* A row is a function of the counters, whose values are naturals.          *)
LEMMA RowCounter ==
  ASSUME NEW b \in Row, NEW k \in Counters
  PROVE  /\ b[k] \in Nat
         /\ k = "toolCalls" => b[k] = b.toolCalls
         /\ k = "modelRetries" => b[k] = b.modelRetries
         /\ k \in {"toolCalls", "modelRetries"}
BY RunBudgetAssumption DEF Row

(* Rows with the same counters agree on every counter.                      *)
LEMMA SameCounter ==
  ASSUME NEW a \in Row, NEW b \in Row, SameCounters(a, b), NEW k \in Counters
  PROVE  a[k] = b[k]
BY RowCounter DEF SameCounters

(* A step that leaves the counters, the decisions and the grants alone      *)
(* keeps what was counted first.                                            *)
LEMMA CountersStay ==
  ASSUME CountedFirst, GrantedWithinLimit, RowType, RowType',
         \A r \in Runs : SameCounters(budget'[r], budget[r]),
         UNCHANGED <<deciding, granted>>
  PROVE  CountedFirst' /\ GrantedWithinLimit'
<1>1. \A r \in Runs, k \in Counters : budget'[r][k] = budget[r][k]
  BY SameCounter DEF RowType
<1> QED BY <1>1 DEF CountedFirst, GrantedWithinLimit

(* A charge changes no counter.                                             *)
LEMMA RowCharged ==
  ASSUME NEW b \in Row, NEW amount \in Nat
  PROVE  /\ [b EXCEPT !.charged = @ + amount] \in Row
         /\ SameCounters([b EXCEPT !.charged = @ + amount], b)
<1>1. b.charged + amount \in Nat
  BY DEF Row
<1> QED BY <1>1 DEF Row, SameCounters

(* Settling, forfeiting and reconciling keep the rows well typed and change *)
(* no counter.                                                              *)
LEMMA ChargeType ==
  ASSUME RowType, NEW q \in Requests, NEW status \in Statuses, NEW amount \in Nat,
         Charge(q, status, amount)
  PROVE  RowType' /\ \A r \in Runs : SameCounters(budget'[r], budget[r])
<1>1. RunOf[q] \in Runs
  BY RunBudgetAssumption
<1>2. CASE reservation[q].status = "active"
  <2>1. reservation' = [reservation EXCEPT ![q] = [status |-> status, used |-> amount]]
    BY <1>2 DEF Charge
  <2>2. reservation' \in [Requests -> [status: Statuses, used: Nat]]
    BY <2>1 DEF RowType
  <2>3. CASE budget[RunOf[q]].state = "finished"
    BY <1>2, <2>2, <2>3 DEF Charge, RowType, SameCounters
  <2>4. CASE budget[RunOf[q]].state # "finished"
    <3>1. budget' = [budget EXCEPT ![RunOf[q]].charged = @ + amount]
      BY <1>2, <2>4 DEF Charge
    <3>2. \A r \in Runs : budget[r] \in Row
      BY DEF RowType
    <3>3. budget' = [r \in Runs |-> IF r = RunOf[q]
                                    THEN [budget[r] EXCEPT !.charged = @ + amount]
                                    ELSE budget[r]]
      BY <3>1 DEF RowType
    <3>4. \A r \in Runs : budget'[r] \in Row /\ SameCounters(budget'[r], budget[r])
      BY <3>2, <3>3, RowCharged DEF SameCounters
    <3> QED BY <2>2, <3>3, <3>4 DEF RowType
  <2> QED BY <2>3, <2>4
<1>3. CASE reservation[q].status # "active"
  BY <1>3 DEF Charge, RowType, SameCounters
<1> QED BY <1>2, <1>3

(* The types of the rows are a part of TypeOK.                              *)
LEMMA RowsTyped == TypeOK => RowType /\ DecisionType
BY DEF TypeOK, RowType, Row, DecisionType

(* An action that leaves decisions and grants alone: types of what it       *)
(* changes are enough.                                                      *)
LEMMA Quiet ==
  ASSUME IInv, RowType', \A r \in Runs : SameCounters(budget'[r], budget[r]),
         UNCHANGED <<deciding, granted>>,
         DOMAIN admission' = Runs, \A r \in Runs : admission'[r].pending \in BOOLEAN,
         closing' \in [Runs -> [pending: BOOLEAN, seen: SUBSET Requests]],
         phase' \in [Requests -> Phases]
  PROVE  IInv'
<1>1. RowType /\ DecisionType
  BY RowsTyped DEF IInv
<1>2. CountedFirst' /\ GrantedWithinLimit'
  BY <1>1, CountersStay DEF IInv
<1> QED BY <1>1, <1>2 DEF IInv, TypeOK, RowType, Row, DecisionType

(* Rows that are left alone.                                                *)
LEMMA RowsStay ==
  ASSUME RowType, UNCHANGED <<budget, reservation>>
  PROVE  RowType' /\ \A r \in Runs : SameCounters(budget'[r], budget[r])
BY DEF RowType, SameCounters

-----------------------------------------------------------------------------
(* The invariant holds at the start and is kept by every action.            *)
LEMMA InitIInv == Init => IInv
<1> SUFFICES ASSUME Init PROVE IInv
  OBVIOUS
<1>1. \A r \in Runs : budget[r] \in Row
  BY DEF Init, Row
<1>2. TypeOK
  BY DEF Init, TypeOK, NoAdmission, NotClosing, Phases, Statuses
<1>3. DOMAIN admission = Runs
  BY DEF Init
<1>4. \A r \in Runs, k \in Counters :
        granted[r][k] = 0 /\ deciding[r][k] = 0 /\ budget[r][k] \in Nat /\ Limit[k] \in Nat
  BY <1>1, RowCounter, RunBudgetAssumption DEF Init
<1> QED BY <1>2, <1>3, <1>4 DEF IInv, CountedFirst, GrantedWithinLimit

(* Opening reads the counts and keeps the rows.                             *)
LEMMA openStep == ASSUME IInv, NEW r \in Runs, open(r) PROVE IInv'
<1>1. RowType' /\ \A s \in Runs : SameCounters(budget'[s], budget[s])
  BY RowsTyped, RowsStay DEF IInv, open
<1>2. DOMAIN admission' = Runs /\ \A s \in Runs : admission'[s].pending \in BOOLEAN
  BY DEF IInv, TypeOK, open
<1> QED BY <1>1, <1>2, Quiet DEF IInv, TypeOK, open

(* An admission activates the row and keeps its counters.                   *)
LEMMA admitStep == ASSUME IInv, NEW r \in Runs, admit(r) PROVE IInv'
<1>1. RowType' /\ \A s \in Runs : SameCounters(budget'[s], budget[s])
  <2>1. RowType
    BY RowsTyped DEF IInv
  <2>2. CASE UNCHANGED budget
    BY <2>1, <2>2, RowsStay DEF admit
  <2>3. CASE budget' = [budget EXCEPT ![r].state = "active"]
    BY <2>1, <2>3 DEF admit, RowType, Row, SameCounters
  <2> QED BY <2>2, <2>3 DEF admit
<1>2. DOMAIN admission' = Runs /\ \A s \in Runs : admission'[s].pending \in BOOLEAN
  BY DEF IInv, TypeOK, admit, NoAdmission
<1> QED BY <1>1, <1>2, Quiet DEF IInv, TypeOK, admit

(* A request that begins its statement, is refused or dies keeps the rows.  *)
LEMMA phaseStep ==
  ASSUME IInv, NEW q \in Requests, NEW p \in Phases,
         phase' = [phase EXCEPT ![q] = p],
         UNCHANGED <<budget, reservation, admission, deciding, granted, closing>>
  PROVE  IInv'
<1>1. RowType' /\ \A s \in Runs : SameCounters(budget'[s], budget[s])
  BY RowsTyped, RowsStay DEF IInv
<1> QED BY <1>1, Quiet DEF IInv, TypeOK

(* The insert of a reservation keeps the budget rows.                       *)
LEMMA reservedStep == ASSUME IInv, NEW q \in Requests, reserved(q) PROVE IInv'
<1>1. CASE reservation' = reservation
  <2>1. phase' = [phase EXCEPT ![q] = "refused"] \/ phase' = [phase EXCEPT ![q] = "reserved"]
    BY DEF reserved
  <2> QED BY <1>1, <2>1, phaseStep DEF reserved, Phases
<1>2. CASE reservation' = [reservation EXCEPT ![q].status = "active"]
  <2>1. RowType
    BY RowsTyped DEF IInv
  <2>2. RowType' /\ \A s \in Runs : SameCounters(budget'[s], budget[s])
    BY <1>2, <2>1 DEF reserved, RowType, SameCounters, Statuses
  <2>3. phase' \in [Requests -> Phases]
    BY DEF reserved, IInv, TypeOK, Phases
  <2> QED BY <2>2, <2>3, Quiet DEF IInv, TypeOK, reserved
<1> QED BY <1>1, <1>2 DEF reserved

(* A driver that settles or forfeits its request.                           *)
LEMMA chargeStep ==
  ASSUME IInv, NEW q \in Requests, NEW status \in Statuses, NEW amount \in Nat,
         Charge(q, status, amount),
         phase' \in [Requests -> Phases],
         UNCHANGED <<admission, view, deciding, granted, closing>>
  PROVE  IInv'
<1>1. RowType' /\ \A s \in Runs : SameCounters(budget'[s], budget[s])
  BY RowsTyped, ChargeType DEF IInv
<1> QED BY <1>1, Quiet DEF IInv, TypeOK

(* What closing charges is a natural: there are finitely many requests.     *)
LEMMA ForfeitedCount ==
  ASSUME NEW qs \in SUBSET Requests
  PROVE  Envelope * Cardinality(qs) \in Nat
<1>1. Cardinality(qs) \in Nat
  BY RunBudgetAssumption, FS_Subset, FS_CardinalityType
<1>2. Envelope \in Nat
  BY RunBudgetAssumption
<1> QED BY <1>1, <1>2

(* Closing begins by looking at the active reservations.                    *)
LEMMA closeStep == ASSUME IInv, NEW r \in Runs, close(r) PROVE IInv'
<1>1. RowType' /\ \A s \in Runs : SameCounters(budget'[s], budget[s])
  BY RowsTyped, RowsStay DEF IInv, close
<1>2. Active(r) \in SUBSET Requests
  BY DEF Active, RequestsOf
<1>3. closing' \in [Runs -> [pending: BOOLEAN, seen: SUBSET Requests]]
  BY <1>2 DEF IInv, TypeOK, close
<1> QED BY <1>1, <1>3, Quiet DEF IInv, TypeOK, close

(* Closing charges what it saw and finishes the row.                        *)
LEMMA closedStep == ASSUME IInv, NEW r \in Runs, closed(r) PROVE IInv'
<1> DEFINE forfeited == closing[r].seen \cap Active(r)
           due == Envelope * Cardinality(forfeited)
<1>1. forfeited \in SUBSET Requests
  BY DEF Active, RequestsOf
<1>2. due \in Nat
  BY <1>1, ForfeitedCount
<1>3. RowType
  BY RowsTyped DEF IInv
<1>4. reservation' \in [Requests -> [status: Statuses, used: Nat]]
  <2>1. reservation' = [q \in Requests |->
              IF q \in forfeited THEN [status |-> "forfeited", used |-> Envelope]
              ELSE reservation[q]]
    BY DEF closed
  <2> HIDE DEF forfeited
  <2> QED BY <1>3, <2>1, RunBudgetAssumption DEF RowType, Statuses
<1>5. RowType' /\ \A s \in Runs : SameCounters(budget'[s], budget[s])
  <2>1. budget' = [budget EXCEPT ![r].state = "finished", ![r].charged = @ + due]
    BY DEF closed
  <2> HIDE DEF due
  <2>2. \A s \in Runs : budget[s] \in Row
    BY <1>3 DEF RowType
  <2>3. budget' = [s \in Runs |->
              IF s = r THEN [[budget[r] EXCEPT !.state = "finished"] EXCEPT !.charged = @ + due]
              ELSE budget[s]]
    BY <1>3, <2>1, <2>2 DEF RowType, Row
  <2>4. [budget[r] EXCEPT !.state = "finished"] \in Row
    BY <2>2 DEF Row
  <2>5. \A s \in Runs : budget'[s] \in Row /\ SameCounters(budget'[s], budget[s])
    BY <1>2, <2>2, <2>3, <2>4, RowCharged DEF SameCounters, Row
  <2> QED BY <1>4, <2>3, <2>5 DEF RowType
<1>6. closing' \in [Runs -> [pending: BOOLEAN, seen: SUBSET Requests]]
  BY DEF IInv, TypeOK, closed, NotClosing
<1> QED BY <1>5, <1>6, Quiet DEF IInv, TypeOK, closed

(* Counting raises the count and the decisions under way together.          *)
LEMMA recordStep ==
  ASSUME IInv, NEW r \in Runs, NEW k \in Counters, record(r, k) PROVE IInv'
<1>1. RowType /\ DecisionType
  BY RowsTyped DEF IInv
<1>2. \A s \in Runs : budget[s] \in Row
  BY <1>1 DEF RowType
<1>3. budget' = [s \in Runs |-> IF s = r THEN [budget[r] EXCEPT ![k] = @ + 1]
                                ELSE budget[s]]
  BY <1>1 DEF record, RowType
<1>4. /\ [budget[r] EXCEPT ![k] = @ + 1] \in Row
      /\ \A j \in Counters :
           [budget[r] EXCEPT ![k] = @ + 1][j] = IF j = k THEN budget[r][j] + 1 ELSE budget[r][j]
  <2>1. budget[r] \in Row
    BY <1>2
  <2>2. CASE k = "toolCalls"
    BY <2>1, <2>2, RunBudgetAssumption DEF Row
  <2>3. CASE k = "modelRetries"
    BY <2>1, <2>3, RunBudgetAssumption DEF Row
  <2> QED BY <2>2, <2>3, RunBudgetAssumption
<1>5. RowType'
  <2>1. \A s \in Runs : budget'[s] \in Row
    BY <1>2, <1>3, <1>4
  <2> QED BY <1>1, <1>3, <2>1 DEF RowType, record
<1>6. deciding' = [deciding EXCEPT ![r][k] = @ + 1] /\ UNCHANGED granted
  BY DEF record
<1>7. DecisionType'
  BY <1>1, <1>6 DEF DecisionType
<1>8. CountedFirst'
  <2> SUFFICES ASSUME NEW s \in Runs, NEW j \in Counters
               PROVE  granted'[s][j] + deciding'[s][j] <= budget'[s][j]
    BY DEF CountedFirst
  <2>1. granted[s][j] + deciding[s][j] <= budget[s][j]
    BY DEF IInv, CountedFirst
  <2>2. granted[s][j] \in Nat /\ deciding[s][j] \in Nat
    BY <1>1 DEF DecisionType
  <2>3. budget[s][j] \in Nat
    BY <1>2, RowCounter
  <2>4. CASE s = r /\ j = k
    <3>1. deciding'[s][j] = deciding[s][j] + 1
      BY <1>1, <1>6, <2>4 DEF DecisionType
    <3>2. budget'[s][j] = budget[s][j] + 1
      BY <1>3, <1>4, <2>4
    <3> QED BY <1>6, <2>1, <2>2, <2>3, <3>1, <3>2
  <2>5. CASE ~(s = r /\ j = k)
    <3>1. deciding'[s][j] = deciding[s][j]
      BY <1>1, <1>6, <2>5 DEF DecisionType
    <3>2. budget'[s][j] = budget[s][j]
      BY <1>3, <1>4, <2>5
    <3> QED BY <1>6, <2>1, <3>1, <3>2
  <2> QED BY <2>4, <2>5
<1>9. GrantedWithinLimit'
  BY <1>6 DEF IInv, GrantedWithinLimit
<1> QED BY <1>5, <1>7, <1>8, <1>9
        DEF IInv, TypeOK, RowType, Row, DecisionType, record

(* A decision moves one from under way to granted, or drops it; what is     *)
(* granted was counted, and the count was seen within the limit.            *)
LEMMA decideStep ==
  ASSUME IInv, NEW r \in Runs, NEW k \in Counters, decide(r, k) PROVE IInv'
<1>1. RowType /\ DecisionType
  BY RowsTyped DEF IInv
<1>2. /\ deciding[r][k] > 0
      /\ deciding' = [deciding EXCEPT ![r][k] = @ - 1]
      /\ UNCHANGED <<budget, reservation, admission, phase, closing>>
  BY DEF decide
<1>3. \/ UNCHANGED granted
      \/ Allowed(r) /\ granted' = [granted EXCEPT ![r][k] = @ + 1]
  BY DEF decide
<1>4. DecisionType'
  <2>1. deciding[r][k] - 1 \in Nat
    BY <1>1, <1>2 DEF DecisionType
  <2>2. deciding' \in [Runs -> [Counters -> Nat]]
    BY <1>1, <1>2, <2>1 DEF DecisionType
  <2>3. granted' \in [Runs -> [Counters -> Nat]]
    <3>1. granted[r][k] + 1 \in Nat
      BY <1>1 DEF DecisionType
    <3>2. CASE granted' = [granted EXCEPT ![r][k] = @ + 1]
      BY <1>1, <3>1, <3>2 DEF DecisionType
    <3>3. CASE UNCHANGED granted
      BY <1>1, <3>3 DEF DecisionType
    <3> QED BY <1>3, <3>2, <3>3
  <2> QED BY <2>2, <2>3 DEF DecisionType
<1>5. ASSUME NEW s \in Runs, NEW j \in Counters
      PROVE  /\ granted'[s][j] + deciding'[s][j] <= budget'[s][j]
             /\ granted'[s][j] <= Limit[j]
  <2>1. granted[s][j] + deciding[s][j] <= budget[s][j] /\ granted[s][j] <= Limit[j]
    BY DEF IInv, CountedFirst, GrantedWithinLimit
  <2>2. granted[s][j] \in Nat /\ deciding[s][j] \in Nat
    BY <1>1 DEF DecisionType
  <2>3. budget[s][j] \in Nat /\ budget'[s][j] = budget[s][j] /\ Limit[j] \in Nat
    BY <1>1, <1>2, RowCounter, RunBudgetAssumption DEF RowType
  <2>4. CASE s = r /\ j = k
    <3>1. deciding'[s][j] = deciding[s][j] - 1
      BY <1>1, <1>2, <2>4 DEF DecisionType
    <3>2. CASE UNCHANGED granted
      BY <2>1, <2>2, <2>3, <3>1, <3>2
    <3>3. CASE Allowed(r) /\ granted' = [granted EXCEPT ![r][k] = @ + 1]
      <4>1. granted'[s][j] = granted[s][j] + 1
        BY <1>1, <2>4, <3>3 DEF DecisionType
      <4>2. budget[s][j] <= Limit[j]
        BY <2>4, <3>3 DEF Allowed
      <4> QED BY <1>2, <2>1, <2>2, <2>3, <2>4, <3>1, <4>1, <4>2
    <3> QED BY <1>3, <3>2, <3>3
  <2>5. CASE ~(s = r /\ j = k)
    <3>1. deciding'[s][j] = deciding[s][j] /\ granted'[s][j] = granted[s][j]
      BY <1>1, <1>2, <1>3, <2>5 DEF DecisionType
    <3> QED BY <2>1, <2>3, <3>1
  <2> QED BY <2>4, <2>5
<1>6. CountedFirst' /\ GrantedWithinLimit'
  BY <1>5 DEF CountedFirst, GrantedWithinLimit
<1> QED BY <1>2, <1>4, <1>6 DEF IInv, TypeOK, DecisionType

(* One case per action.                                                     *)
LEMMA NextIInv == IInv /\ [Next]_vars => IInv'
<1> SUFFICES ASSUME IInv, [Next]_vars PROVE IInv'
  OBVIOUS
<1>1. ASSUME NEW r \in Runs, open(r) \/ admit(r) \/ close(r) \/ closed(r) PROVE IInv'
  BY <1>1, openStep, admitStep, closeStep, closedStep
<1>2. ASSUME NEW r \in Runs, reconcileModelRequests(r) PROVE IInv'
  <2>1. PICK q \in Active(r) :
          /\ Charge(q, "forfeited", Envelope)
          /\ UNCHANGED <<admission, view, phase, deciding, granted, closing>>
    BY <1>2 DEF reconcileModelRequests
  <2>2. q \in Requests
    BY DEF Active, RequestsOf
  <2> QED BY <2>1, <2>2, chargeStep, RunBudgetAssumption DEF IInv, TypeOK, Statuses
<1>3. ASSUME NEW q \in Requests, reserve(q) \/ send(q) \/ crash(q) PROVE IInv'
  <2>1. PICK p \in Phases : phase' = [phase EXCEPT ![q] = p]
    BY <1>3 DEF reserve, send, crash, Phases
  <2> QED BY <1>3, <2>1, phaseStep DEF reserve, send, crash
<1>4. ASSUME NEW q \in Requests, reserved(q) PROVE IInv'
  BY <1>4, reservedStep
<1>5. ASSUME NEW q \in Requests, settleModelRequest(q) \/ forfeitModelRequest(q) PROVE IInv'
  <2>1. phase' \in [Requests -> Phases]
    BY <1>5 DEF settleModelRequest, forfeitModelRequest, IInv, TypeOK, Phases
  <2>2. UNCHANGED <<admission, view, deciding, granted, closing>>
    BY <1>5 DEF settleModelRequest, forfeitModelRequest
  <2>3. \E status \in Statuses, amount \in Nat : Charge(q, status, amount)
    BY <1>5, RunBudgetAssumption DEF settleModelRequest, forfeitModelRequest, Statuses
  <2> QED BY <2>1, <2>2, <2>3, chargeStep
<1>6. ASSUME NEW r \in Runs, NEW k \in Counters, record(r, k) \/ decide(r, k) PROVE IInv'
  BY <1>6, recordStep, decideStep
<1>7. CASE UNCHANGED vars
  BY <1>7, RowsTyped, RowsStay, Quiet DEF vars, IInv, TypeOK
<1> QED BY <1>1, <1>2, <1>3, <1>4, <1>5, <1>6, <1>7 DEF Next

(* IInv holds in every reachable state.                                     *)
LEMMA Invariance == Spec => []IInv
BY InitIInv, NextIInv, PTL DEF Spec

(* Every reachable state of the budget tables and their callers is well     *)
(* typed.                                                                   *)
THEOREM TypeCorrect == Spec => []TypeOK
<1>1. IInv => TypeOK
  BY DEF IInv
<1> QED BY <1>1, Invariance, PTL

(* However many drivers of a Run count against its limits at the same time, *)
(* they are never allowed more tool calls or retries than the limits.       *)
THEOREM NeverOverLimit == Spec => []GrantedWithinLimit
<1>1. IInv => GrantedWithinLimit
  BY DEF IInv
<1> QED BY <1>1, Invariance, PTL

-----------------------------------------------------------------------------
(* The sum of what the requests of a Run used.                              *)

(* The sum of the used amounts of the requests in S, when f is what is      *)
(* reserved, and the function its definition unfolds to: the elements are   *)
(* added in the order in which CHOOSE takes them.                           *)
SumOf(f, S) == MapThenSumSet(LAMBDA q : f[q].used, S)
FirstOf(s) == CHOOSE x \in s : TRUE
Adds(f, S, g) ==
    g = [s \in SUBSET S |-> IF s = {} THEN 0
                            ELSE f[FirstOf(s)].used + g[s \ {FirstOf(s)}]]

(* The sum is the value of that function at the whole set.                  *)
LEMMA SumIsAdded ==
  ASSUME NEW f, NEW S
  PROVE SumOf(f, S) = (CHOOSE g : Adds(f, S, g))[S]
BY DEF SumOf, MapThenSumSet, MapThenFoldSet, Adds, FirstOf

(* A set of naturals that is not empty has a least element.                 *)
LEMMA LeastOf ==
  ASSUME NEW S, S \subseteq Nat, S # {}
  PROVE  \E x \in S : \A y \in S : x <= y
<1>1. PICK x \in S : \A y \in S : ~(<<y, x>> \in OpToRel(<, Nat))
  BY NatLessThanWellFounded, WFMin, Zenon
<1>2. ASSUME NEW y \in S PROVE x <= y
  <2>1. x \in Nat /\ y \in Nat
    OBVIOUS
  <2>2. ~(<<y, x>> \in OpToRel(<, Nat))
    BY <1>1, Zenon
  <2>3. ~(y < x)
    BY <2>1, <2>2 DEF OpToRel
  <2> QED BY ONLY <2>1, <2>3
<1> QED BY <1>2

(* Among subsets of a finite set one holds no other: the facts below are    *)
(* proved by looking at a smallest set for which they fail.                 *)
LEMMA SmallestSet ==
  ASSUME NEW S, IsFiniteSet(S), NEW F, F \subseteq SUBSET S, F # {}
  PROVE  \E s \in F : \A t \in F : t \subseteq s => t = s
<1> DEFINE sizes == {Cardinality(t) : t \in F}
<1>1. \A t \in F : IsFiniteSet(t) /\ Cardinality(t) \in Nat
  BY FS_Subset, FS_CardinalityType
<1>2. sizes \subseteq Nat /\ sizes # {}
  BY <1>1
<1>3. PICK n \in sizes : \A m \in sizes : n <= m
  <2> HIDE DEF sizes
  <2> QED BY <1>2, LeastOf
<1>4. PICK s \in F : n = Cardinality(s)
  OBVIOUS
<1>5. ASSUME NEW t \in F, t \subseteq s PROVE t = s
  <2>1. Cardinality(s) <= Cardinality(t)
    BY <1>3, <1>4
  <2>2. t # s => Cardinality(t) < Cardinality(s)
    BY <1>1, <1>5, FS_Subset
  <2> QED BY <1>1, <2>1, <2>2
<1> QED BY <1>5

(* CHOOSE takes an element of the set.                                      *)
LEMMA FirstIn == ASSUME NEW s, s # {} PROVE FirstOf(s) \in s
BY DEF FirstOf

(* Two functions that add as defined agree wherever both are defined.       *)
LEMMA SumUnique ==
  ASSUME NEW f, NEW S, IsFiniteSet(S), NEW T \in SUBSET S, NEW g, NEW h,
         Adds(f, S, g), Adds(f, T, h), NEW s \in SUBSET T
  PROVE  g[s] = h[s]
<1> DEFINE bad == {t \in SUBSET T : g[t] # h[t]}
<1>1. \A t \in SUBSET T : g[t] = IF t = {} THEN 0 ELSE f[FirstOf(t)].used + g[t \ {FirstOf(t)}]
  BY Zenon DEF Adds
<1>2. \A t \in SUBSET T : h[t] = IF t = {} THEN 0 ELSE f[FirstOf(t)].used + h[t \ {FirstOf(t)}]
  BY Zenon DEF Adds
<1>3. CASE bad # {}
  <2>1. PICK t \in bad : \A r \in bad : r \subseteq t => r = t
    <3>1. bad \subseteq SUBSET T /\ IsFiniteSet(T)
      BY FS_Subset
    <3> HIDE DEF bad
    <3> QED BY <1>3, <3>1, SmallestSet
  <2>2. t # {}
    BY <1>1, <1>2
  <2>3. FirstOf(t) \in t
    BY <2>2, FirstIn
  <2>4. t \ {FirstOf(t)} \notin bad
    BY <2>1, <2>3
  <2>5. g[t \ {FirstOf(t)}] = h[t \ {FirstOf(t)}]
    BY <2>1, <2>4
  <2> QED BY <1>1, <1>2, <2>1, <2>2, <2>5
<1> QED BY <1>3

(* There is such a function: the recursive definition is not empty.         *)
LEMMA SumExists ==
  ASSUME NEW f, NEW S, IsFiniteSet(S)
  PROVE  \E g : Adds(f, S, g)
<1> DEFINE bad == {s \in SUBSET S : ~ \E g : Adds(f, s, g)}
<1>1. CASE bad # {}
  <2>1. PICK s \in bad : \A r \in bad : r \subseteq s => r = s
    <3>1. bad \subseteq SUBSET S
      OBVIOUS
    <3> HIDE DEF bad
    <3> QED BY <1>1, <3>1, SmallestSet
  <2>2. \A t \in SUBSET s : t # s => \E g : Adds(f, t, g)
    BY <2>1
  <2> DEFINE H(t) == CHOOSE g : Adds(f, t, g)
             G == [t \in SUBSET s |->
                    IF t = {} THEN 0
                    ELSE f[FirstOf(t)].used + H(t \ {FirstOf(t)})[t \ {FirstOf(t)}]]
  <2>3. \A t \in SUBSET s : t # s => Adds(f, t, H(t))
    BY <2>2, Zenon
  <2> HIDE DEF H
  <2>4. ASSUME NEW t \in SUBSET s, t # s PROVE G[t] = H(t)[t]
    <3>1. CASE t = {}
      BY <2>3, <2>4, <3>1 DEF Adds
    <3>2. CASE t # {}
      <4> DEFINE r == t \ {FirstOf(t)}
      <4>1. r \in SUBSET t /\ r \in SUBSET s /\ r # s
        BY <3>2, FirstIn
      <4>2. H(t)[t] = f[FirstOf(t)].used + H(t)[r]
        BY <2>3, <2>4, <3>2 DEF Adds
      <4>3. H(t)[r] = H(r)[r]
        <5>1. Adds(f, t, H(t)) /\ Adds(f, r, H(r)) /\ IsFiniteSet(t)
          BY <2>3, <2>4, <4>1, FS_Subset
        <5> HIDE DEF r
        <5> QED BY <4>1, <5>1, SumUnique
      <4>4. G[t] = f[FirstOf(t)].used + H(r)[r]
        BY <3>2
      <4> QED BY <4>2, <4>3, <4>4
    <3> QED BY <3>1, <3>2
  <2>5. G = [t \in SUBSET s |-> IF t = {} THEN 0
                                ELSE f[FirstOf(t)].used + G[t \ {FirstOf(t)}]]
    <3>1. ASSUME NEW t \in SUBSET s, t # {}
          PROVE  G[t \ {FirstOf(t)}] = H(t \ {FirstOf(t)})[t \ {FirstOf(t)}]
      <4>1. t \ {FirstOf(t)} \in SUBSET s /\ t \ {FirstOf(t)} # s
        BY <3>1, FirstIn
      <4> HIDE DEF G
      <4> QED BY <2>4, <4>1
    <3> QED BY <3>1, Zenon
  <2>6. Adds(f, s, G)
    BY <2>5, Zenon DEF Adds
  <2> QED BY <2>1, <2>6
<1>2. CASE bad = {}
  BY <1>2
<1> QED BY <1>1, <1>2

(* Finitely many requests with amounts that are naturals.                   *)
Counts(f, S) == IsFiniteSet(S) /\ \A q \in S : f[q].used \in Nat

(* The sum is computed by a function that adds as defined,                  *)
LEMMA SumWith ==
  ASSUME NEW f, NEW S, IsFiniteSet(S)
  PROVE  \E g : Adds(f, S, g) /\ SumOf(f, S) = g[S]
<1>1. Adds(f, S, CHOOSE g : Adds(f, S, g))
  BY SumExists, Zenon
<1> QED BY <1>1, SumIsAdded, Zenon

(* and so are the sums of the subsets.                                      *)
LEMMA SumPart ==
  ASSUME NEW f, NEW S, IsFiniteSet(S), NEW T \in SUBSET S, NEW g, Adds(f, S, g)
  PROVE  SumOf(f, T) = g[T]
<1>0. IsFiniteSet(T)
  BY FS_Subset
<1>1. PICK h : Adds(f, T, h) /\ SumOf(f, T) = h[T]
  BY <1>0, SumWith
<1> QED BY <1>1, SumUnique

(* Nothing adds up to zero.                                                 *)
LEMMA SumEmpty == ASSUME NEW f PROVE SumOf(f, {}) = 0
<1>0. IsFiniteSet({})
  BY FS_EmptySet
<1>1. PICK g : Adds(f, {}, g) /\ SumOf(f, {}) = g[{}]
  BY <1>0, SumWith
<1> QED BY <1>1 DEF Adds

(* The element that CHOOSE takes can be added last.                         *)
LEMMA SumOfFirst ==
  ASSUME NEW f, NEW S, IsFiniteSet(S), S # {}
  PROVE  SumOf(f, S) = f[FirstOf(S)].used + SumOf(f, S \ {FirstOf(S)})
<1>1. PICK g : Adds(f, S, g) /\ SumOf(f, S) = g[S]
  BY SumWith
<1>2. g[S] = f[FirstOf(S)].used + g[S \ {FirstOf(S)}]
  BY <1>1 DEF Adds
<1>3. SumOf(f, S \ {FirstOf(S)}) = g[S \ {FirstOf(S)}]
  BY <1>1, SumPart
<1> QED BY <1>1, <1>2, <1>3

(* The sum is a natural.                                                    *)
LEMMA SumNatural ==
  ASSUME NEW f, NEW S, Counts(f, S)
  PROVE  SumOf(f, S) \in Nat
<1> DEFINE bad == {s \in SUBSET S : SumOf(f, s) \notin Nat}
<1>0. IsFiniteSet(S) /\ bad \subseteq SUBSET S
  BY DEF Counts
<1>1. CASE bad # {}
  <2>1. PICK s \in bad : \A r \in bad : r \subseteq s => r = s
    <3> HIDE DEF bad
    <3> QED BY <1>1, <1>0, SmallestSet
  <2>2. s # {} /\ IsFiniteSet(s) /\ s \subseteq S
    <3>1. s \subseteq S /\ SumOf(f, s) \notin Nat
      OBVIOUS
    <3>2. s # {}
      BY <3>1, SumEmpty
    <3> QED BY <1>0, <3>1, <3>2, FS_Subset
  <2>3. FirstOf(s) \in s
    BY <2>2, FirstIn
  <2>4. SumOf(f, s \ {FirstOf(s)}) \in Nat
    BY <2>1, <2>2, <2>3
  <2>5. f[FirstOf(s)].used \in Nat
    BY <2>2, <2>3 DEF Counts
  <2>6. SumOf(f, s) = f[FirstOf(s)].used + SumOf(f, s \ {FirstOf(s)})
    BY <2>2, SumOfFirst
  <2>7. SumOf(f, s) \in Nat
    BY <2>4, <2>5, <2>6
  <2> QED BY <2>1, <2>7
<1> QED BY <1>1

(* Any element can be added last: the order does not matter.                *)
LEMMA SumWithout ==
  ASSUME NEW f, NEW S, Counts(f, S), NEW q \in S
  PROVE  SumOf(f, S) = f[q].used + SumOf(f, S \ {q})
<1> DEFINE ok(s) == \A x \in s : SumOf(f, s) = f[x].used + SumOf(f, s \ {x})
           bad == {s \in SUBSET S : ~ok(s)}
<1>0. IsFiniteSet(S) /\ bad \subseteq SUBSET S
  BY DEF Counts
<1>1. CASE bad # {}
  <2>1. PICK s \in bad : \A r \in bad : r \subseteq s => r = s
    <3> HIDE DEF bad
    <3> QED BY <1>1, <1>0, SmallestSet
  <2>2. IsFiniteSet(s) /\ s \subseteq S
    BY <1>0, FS_Subset
  <2>3. PICK x \in s : SumOf(f, s) # f[x].used + SumOf(f, s \ {x})
    BY <2>1
  <2> DEFINE c == FirstOf(s)
             both == (s \ {c}) \ {x}
  <2>4. c \in s
    BY <2>3, FirstIn
  <2>5. SumOf(f, s) = f[c].used + SumOf(f, s \ {c})
    BY <2>2, <2>3, SumOfFirst
  <2>6. c # x
    BY <2>3, <2>5
  <2>7. ok(s \ {c}) /\ ok(s \ {x})
    BY <2>1, <2>2, <2>3, <2>4
  <2> HIDE DEF c
  <2>8. SumOf(f, s \ {c}) = f[x].used + SumOf(f, both)
    BY <2>3, <2>6, <2>7
  <2>9. SumOf(f, s \ {x}) = f[c].used + SumOf(f, both)
    <3>1. both = (s \ {x}) \ {c}
      OBVIOUS
    <3> QED BY <3>1, <2>4, <2>6, <2>7
  <2>10. SumOf(f, both) \in Nat
    <3>1. Counts(f, both)
      BY <2>2, FS_Subset DEF Counts
    <3> HIDE DEF both
    <3> QED BY <3>1, SumNatural
  <2>11. f[c].used \in Nat /\ f[x].used \in Nat
    BY <2>2, <2>3, <2>4 DEF Counts
  <2> HIDE DEF both
  <2> QED BY <2>3, <2>5, <2>8, <2>9, <2>10, <2>11
<1>2. CASE bad = {}
  BY <1>2
<1> QED BY <1>1, <1>2

(* The sum depends on the amounts of its elements only.                     *)
LEMMA SumSame ==
  ASSUME NEW f, NEW h, NEW S, IsFiniteSet(S), \A q \in S : f[q].used = h[q].used
  PROVE  SumOf(f, S) = SumOf(h, S)
<1>1. PICK g : Adds(f, S, g) /\ SumOf(f, S) = g[S]
  BY SumWith
<1>2. Adds(h, S, g)
  <2>1. \A s \in SUBSET S : s # {} => f[FirstOf(s)].used = h[FirstOf(s)].used
    BY FirstIn
  <2> QED BY <1>1, <2>1 DEF Adds
<1> QED BY <1>1, <1>2, SumPart

-----------------------------------------------------------------------------
(* What is charged to a Run.                                                *)

(* The requests of r that were settled or forfeited, and what they used,    *)
(* when f is what is reserved; and what the row of the Run must say of it.  *)
DueOf(f, r) == {q \in RequestsOf(r) : f[q].status \in {"settled", "forfeited"}}
Owed(f, r) == SumOf(f, DueOf(f, r))
Agrees(b, n) == IF b.state = "finished" THEN b.charged <= n ELSE b.charged = n

(* ChargedOnce in these terms, now and after a step.                        *)
LEMMA ChargedOnceIs ==
  /\ ChargedOnce <=> \A r \in Runs : Agrees(budget[r], Owed(reservation, r))
  /\ ChargedOnce' <=> \A r \in Runs : Agrees(budget'[r], Owed(reservation', r))
<1>1. \A r \in Runs : Amounts(Due(r)) = Owed(reservation, r)
  BY DEF Amounts, Due, Owed, DueOf, SumOf
<1>2. \A r \in Runs : Amounts(Due(r))' = Owed(reservation', r)
  BY DEF Amounts, Due, Owed, DueOf, SumOf, RequestsOf, MapThenSumSet, MapThenFoldSet
<1>3. ChargedOnce <=> \A r \in Runs : Agrees(budget[r], Owed(reservation, r))
  BY <1>1 DEF ChargedOnce, Agrees
<1>4. ChargedOnce' <=> \A r \in Runs : Agrees(budget'[r], Owed(reservation', r))
  BY <1>2 DEF ChargedOnce, Agrees
<1> QED BY <1>3, <1>4

(* What is reserved is well typed.                                          *)
Reservations == [Requests -> [status: Statuses, used: Nat]]

(* The requests of a Run that are due are finitely many naturals.           *)
LEMMA DueCounts ==
  ASSUME NEW f \in Reservations, NEW r \in Runs
  PROVE  Counts(f, DueOf(f, r)) /\ Owed(f, r) \in Nat
<1>1. DueOf(f, r) \subseteq Requests
  BY DEF DueOf, RequestsOf
<1>2. IsFiniteSet(DueOf(f, r))
  BY <1>1, RunBudgetAssumption, FS_Subset
<1>3. Counts(f, DueOf(f, r))
  BY <1>1, <1>2 DEF Counts, Reservations
<1> QED BY <1>3, SumNatural DEF Owed

(* A reservation that ends adds its amount to what its Run owes, and        *)
(* nothing to what the others owe.                                          *)
LEMMA OwedGrows ==
  ASSUME NEW f \in Reservations, NEW h \in Reservations, NEW q \in Requests,
         f[q].status = "active", h[q].status \in {"settled", "forfeited"},
         \A p \in Requests \ {q} : h[p] = f[p],
         NEW r \in Runs
  PROVE  Owed(h, r) = IF RunOf[q] = r THEN h[q].used + Owed(f, r) ELSE Owed(f, r)
<1>1. Counts(f, DueOf(f, r)) /\ Counts(h, DueOf(h, r))
  BY DueCounts
<1>2. q \notin DueOf(f, r)
  BY DEF DueOf
<1>3. \A p \in DueOf(f, r) : f[p].used = h[p].used
  BY <1>2 DEF DueOf, RequestsOf
<1>4. SumOf(f, DueOf(f, r)) = SumOf(h, DueOf(f, r))
  BY <1>1, <1>3, SumSame DEF Counts
<1>5. CASE RunOf[q] = r
  <2>1. q \in DueOf(h, r) /\ DueOf(h, r) \ {q} = DueOf(f, r)
    BY <1>2, <1>5 DEF DueOf, RequestsOf
  <2>2. SumOf(h, DueOf(h, r)) = h[q].used + SumOf(h, DueOf(h, r) \ {q})
    BY <1>1, <2>1, SumWithout
  <2> QED BY <1>4, <1>5, <2>1, <2>2 DEF Owed
<1>6. CASE RunOf[q] # r
  <2>1. DueOf(h, r) = DueOf(f, r)
    BY <1>6 DEF DueOf, RequestsOf
  <2> QED BY <1>4, <1>6, <2>1 DEF Owed
<1> QED BY <1>5, <1>6

(* What a Run owes does not change when no reservation ends.                *)
LEMMA OwedStays ==
  ASSUME NEW f \in Reservations, NEW h \in Reservations,
         \A p \in Requests : /\ h[p].used = f[p].used
                             /\ h[p].status \in {"settled", "forfeited"}
                                  <=> f[p].status \in {"settled", "forfeited"},
         NEW r \in Runs
  PROVE  Owed(h, r) = Owed(f, r)
<1>1. DueOf(h, r) = DueOf(f, r) /\ DueOf(f, r) \subseteq Requests
  BY DEF DueOf, RequestsOf
<1>2. \A p \in DueOf(f, r) : h[p].used = f[p].used
  BY <1>1
<1>3. IsFiniteSet(DueOf(f, r))
  BY DueCounts DEF Counts
<1> QED BY <1>1, <1>2, <1>3, SumSame DEF Owed

(* A row is admitted once, before anything closes it; a Run has at most one *)
(* reservation active; a request reserves before it does anything else.     *)
(* With these, what is charged to a Run is what its requests used.          *)
OpenedOnce ==
    \A r \in Runs : /\ admission[r].pending => budget[r].state = "none"
                    /\ closing[r].pending => budget[r].state # "none"

OneReserved ==
    \A p, q \in Requests :
        RunOf[p] = RunOf[q] /\ reservation[p].status = "active"
            /\ reservation[q].status = "active" => p = q

ReservedLater ==
    \A q \in Requests : phase[q] \in {"idle", "reserving"} => reservation[q].status = "none"

ChargeInv == OpenedOnce /\ OneReserved /\ ReservedLater /\ ChargedOnce

(* The types these steps need.                                              *)
LEMMA ChargeTypes ==
  /\ IInv => /\ reservation \in Reservations
             /\ \A r \in Runs : budget[r] \in Row /\ budget[r].charged \in Nat
  /\ IInv' => reservation' \in Reservations
BY DEF IInv, TypeOK, Reservations, Row

(* Counting a call changes one counter of one row.                          *)
LEMMA RecordStays ==
  ASSUME IInv, NEW r \in Runs, NEW k \in Counters, record(r, k)
  PROVE  \A s \in Runs : /\ budget'[s].charged = budget[s].charged
                         /\ budget'[s].state = budget[s].state
<1>1. /\ budget \in [Runs -> Row] /\ k \in {"toolCalls", "modelRetries"}
      /\ budget' = [budget EXCEPT ![r] = [budget[r] EXCEPT ![k] = budget[r][k] + 1]]
  BY RunBudgetAssumption DEF record, IInv, TypeOK, Row
<1>2. \A s \in Runs : s # r => budget'[s] = budget[s]
  BY <1>1
<1>3. budget[r] \in Row /\ budget'[r] = [budget[r] EXCEPT ![k] = budget[r][k] + 1]
  BY <1>1
<1>4. budget'[r].charged = budget[r].charged /\ budget'[r].state = budget[r].state
  <2>1. CASE k = "toolCalls"
    BY <1>3, <2>1 DEF Row
  <2>2. CASE k = "modelRetries"
    BY <1>3, <2>2 DEF Row
  <2> QED BY <1>1, <2>1, <2>2
<1> QED BY <1>2, <1>4

(* No reservation ends and nothing is charged.                              *)
LEMMA ChargedStays ==
  ASSUME IInv, IInv', ChargedOnce,
         \A p \in Requests : /\ reservation'[p].used = reservation[p].used
                             /\ reservation'[p].status \in {"settled", "forfeited"}
                                  <=> reservation[p].status \in {"settled", "forfeited"},
         \A r \in Runs : /\ budget'[r].charged = budget[r].charged
                         /\ budget[r].state = "finished" => budget'[r].state = "finished"
  PROVE  ChargedOnce'
<1>1. reservation \in Reservations /\ reservation' \in Reservations
  BY ChargeTypes
<1>2. \A r \in Runs : Owed(reservation', r) = Owed(reservation, r)
  BY <1>1, OwedStays
<1>3. ASSUME NEW r \in Runs PROVE Agrees(budget'[r], Owed(reservation', r))
  <2>1. Agrees(budget[r], Owed(reservation, r))
    BY ChargedOnceIs
  <2>2. budget[r].charged \in Nat
    BY ChargeTypes
  <2> QED BY <1>2, <2>1, <2>2 DEF Agrees
<1> QED BY <1>3, ChargedOnceIs

(* Both UPDATEs of settle and forfeit charge what the reservation becomes.  *)
LEMMA ChargeOnce ==
  ASSUME IInv, IInv', ChargedOnce, OneReserved, NEW q \in Requests,
         NEW status \in {"settled", "forfeited"}, NEW amount \in Nat,
         Charge(q, status, amount)
  PROVE  /\ ChargedOnce' /\ OneReserved'
         /\ \A r \in Runs : budget'[r].state = budget[r].state
         /\ \A p \in Requests : reservation[p].status = "none"
                                  => reservation'[p].status = "none"
<1>0. reservation \in Reservations /\ reservation' \in Reservations /\ RunOf[q] \in Runs
  BY ChargeTypes, RunBudgetAssumption
<1>1. CASE reservation[q].status # "active"
  <2>1. UNCHANGED <<reservation, budget>>
    BY <1>1 DEF Charge
  <2>2. ChargedOnce'
    BY <2>1, ChargedStays
  <2> QED BY <2>1, <2>2 DEF OneReserved
<1>2. CASE reservation[q].status = "active"
  <2>1. reservation' = [reservation EXCEPT ![q] = [status |-> status, used |-> amount]]
    BY <1>2 DEF Charge
  <2>2. \A p \in Requests : reservation'[p] =
          IF p = q THEN [status |-> status, used |-> amount] ELSE reservation[p]
    BY <1>0, <2>1 DEF Reservations
  <2>3. OneReserved'
    BY <2>2 DEF OneReserved
  <2>4. \A r \in Runs : Owed(reservation', r) =
          IF RunOf[q] = r THEN amount + Owed(reservation, r) ELSE Owed(reservation, r)
    BY <1>0, <1>2, <2>2, OwedGrows
  <2>5. \A r \in Runs :
          /\ budget'[r].state = budget[r].state
          /\ budget'[r].charged = IF r = RunOf[q] /\ budget[r].state # "finished"
                                  THEN budget[r].charged + amount ELSE budget[r].charged
    <3>1. CASE budget[RunOf[q]].state = "finished"
      BY <1>2, <3>1 DEF Charge
    <3>2. CASE budget[RunOf[q]].state # "finished"
      <4>1. budget' = [budget EXCEPT ![RunOf[q]].charged = @ + amount]
        BY <1>2, <3>2 DEF Charge
      <4> QED BY <1>0, <3>2, <4>1 DEF IInv, TypeOK
    <3> QED BY <3>1, <3>2
  <2>6. ASSUME NEW r \in Runs PROVE Agrees(budget'[r], Owed(reservation', r))
    <3>1. Agrees(budget[r], Owed(reservation, r))
      BY ChargedOnceIs
    <3>2. budget[r].charged \in Nat /\ Owed(reservation, r) \in Nat
      BY <1>0, ChargeTypes, DueCounts
    <3> QED BY <2>4, <2>5, <3>1, <3>2 DEF Agrees
  <2>7. ChargedOnce'
    BY <2>6, ChargedOnceIs
  <2>8. \A p \in Requests : reservation[p].status = "none" => reservation'[p].status = "none"
    BY <1>2, <2>2
  <2> QED BY <2>3, <2>5, <2>7, <2>8
<1> QED BY <1>1, <1>2

(* Closing charges the envelope of the one reservation it forfeits.         *)
LEMMA CloseCharges ==
  ASSUME IInv, IInv', ChargedOnce, OneReserved, NEW r \in Runs, closed(r)
  PROVE  /\ ChargedOnce' /\ OneReserved'
         /\ \A s \in Runs : budget'[s].state = IF s = r THEN "finished" ELSE budget[s].state
         /\ \A p \in Requests : reservation[p].status = "none"
                                  => reservation'[p].status = "none"
<1> DEFINE forfeited == closing[r].seen \cap Active(r)
           due == Envelope * Cardinality(forfeited)
<1>0. reservation \in Reservations /\ reservation' \in Reservations
  BY ChargeTypes
<1>1. \A p \in forfeited : p \in Requests /\ RunOf[p] = r /\ reservation[p].status = "active"
  BY DEF Active, RequestsOf
<1>2. due \in Nat
  BY <1>1, ForfeitedCount
<1>3. \A p \in Requests : reservation'[p] =
        IF p \in forfeited THEN [status |-> "forfeited", used |-> Envelope] ELSE reservation[p]
  <2>1. reservation' = [q \in Requests |->
              IF q \in forfeited THEN [status |-> "forfeited", used |-> Envelope]
              ELSE reservation[q]]
    BY DEF closed
  <2> HIDE DEF forfeited
  <2> QED BY <2>1
<1>4. \A s \in Runs :
        /\ budget'[s].state = IF s = r THEN "finished" ELSE budget[s].state
        /\ budget'[s].charged = IF s = r THEN budget[s].charged + due ELSE budget[s].charged
  <2>1. budget' = [budget EXCEPT ![r].state = "finished", ![r].charged = @ + due]
    BY DEF closed
  <2> HIDE DEF due
  <2> QED BY <2>1 DEF IInv, TypeOK
<1>5. OneReserved' /\ \A p \in Requests : reservation[p].status = "none"
                                            => reservation'[p].status = "none"
  <2> HIDE DEF forfeited
  <2> QED BY <1>1, <1>3 DEF OneReserved
<1>6. CASE forfeited = {}
  <2>1. due = 0
    <3>1. Cardinality(forfeited) = 0
      BY <1>6, FS_EmptySet
    <3> QED BY <3>1, RunBudgetAssumption
  <2>2. ChargedOnce'
    <3> HIDE DEF due, forfeited
    <3>1. \A s \in Runs : budget[s].charged \in Nat
      BY ChargeTypes
    <3> QED BY <1>3, <1>4, <1>6, <2>1, <3>1, ChargedStays
  <2> QED BY <1>4, <1>5, <2>2
<1>7. CASE forfeited # {}
  <2>1. PICK q \in forfeited : TRUE
    BY <1>7
  <2>2. forfeited = {q}
    BY <1>1, <2>1 DEF OneReserved
  <2>3. due = Envelope
    <3>1. Cardinality(forfeited) = 1
      BY <2>2, FS_Singleton
    <3> QED BY <3>1, RunBudgetAssumption
  <2>4. q \in Requests /\ RunOf[q] = r /\ reservation[q].status = "active"
    BY <1>1, <2>1
  <2> HIDE DEF due, forfeited
  <2>5. \A s \in Runs : Owed(reservation', s) =
          IF RunOf[q] = s THEN Envelope + Owed(reservation, s) ELSE Owed(reservation, s)
    <3>1. reservation'[q] = [status |-> "forfeited", used |-> Envelope]
      BY <1>3, <2>2, <2>4
    <3>2. \A p \in Requests \ {q} : reservation'[p] = reservation[p]
      BY <1>3, <2>2
    <3> QED BY <1>0, <2>4, <3>1, <3>2, OwedGrows
  <2>6. ASSUME NEW s \in Runs PROVE Agrees(budget'[s], Owed(reservation', s))
    <3>1. Agrees(budget[s], Owed(reservation, s))
      BY ChargedOnceIs
    <3>2. budget[s].charged \in Nat /\ Owed(reservation, s) \in Nat /\ Envelope \in Nat
      BY <1>0, ChargeTypes, DueCounts, RunBudgetAssumption
    <3> QED BY <1>4, <2>3, <2>4, <2>5, <3>1, <3>2 DEF Agrees
  <2> QED BY <1>4, <1>5, <2>6, ChargedOnceIs
<1> QED BY <1>6, <1>7

(* ChargeInv holds at the start, and every action keeps it.                 *)
LEMMA InitCharge == Init => ChargeInv
<1> SUFFICES ASSUME Init PROVE ChargeInv
  OBVIOUS
<1>1. OpenedOnce /\ OneReserved /\ ReservedLater
  BY DEF Init, OpenedOnce, OneReserved, ReservedLater, NoAdmission, NotClosing
<1>2. ASSUME NEW r \in Runs PROVE Agrees(budget[r], Owed(reservation, r))
  <2>1. DueOf(reservation, r) = {}
    BY DEF Init, DueOf, RequestsOf
  <2>2. Owed(reservation, r) = 0
    BY <2>1, SumEmpty DEF Owed
  <2> QED BY <2>2 DEF Init, Agrees
<1> QED BY <1>1, <1>2, ChargedOnceIs DEF ChargeInv

(* The statements that open and close a row, and the counters, reserve and  *)
(* charge nothing.                                                          *)
LEMMA RowSteps ==
  ASSUME IInv, IInv', ChargeInv, NEW r \in Runs,
         \/ open(r) \/ admit(r) \/ close(r)
         \/ \E k \in Counters : record(r, k) \/ decide(r, k)
  PROVE  ChargeInv'
<1>1. UNCHANGED <<reservation, phase>>
  BY DEF open, admit, close, record, decide
<1>2. \A s \in Runs : /\ budget'[s].charged = budget[s].charged
                      /\ budget[s].state = "finished" => budget'[s].state = "finished"
  <2>1. CASE admit(r)
    <3>1. budget[r].state = "none" /\ \A s \in Runs : budget[s] \in Row
      BY <2>1, ChargeTypes DEF admit, ChargeInv, OpenedOnce
    <3>2. \A s \in Runs : s # r => budget'[s] = budget[s]
      BY <2>1 DEF admit, IInv, TypeOK
    <3>3. budget'[r].charged = budget[r].charged
      BY <2>1, <3>1 DEF admit, IInv, TypeOK, Row
    <3> QED BY <3>1, <3>2, <3>3
  <2>2. CASE open(r) \/ close(r) \/ \E k \in Counters : decide(r, k)
    BY <2>2 DEF open, close, decide
  <2>3. ASSUME NEW k \in Counters, record(r, k)
        PROVE  \A s \in Runs : /\ budget'[s].charged = budget[s].charged
                               /\ budget[s].state = "finished" => budget'[s].state = "finished"
    BY <2>3, RecordStays
  <2> QED BY <2>1, <2>2, <2>3
<1>3. ChargedOnce'
  BY <1>1, <1>2, ChargedStays DEF ChargeInv
<1>4. OneReserved' /\ ReservedLater'
  BY <1>1 DEF ChargeInv, OneReserved, ReservedLater
<1>5. OpenedOnce'
  <2>1. CASE open(r)
    BY <2>1 DEF open, ChargeInv, OpenedOnce, IInv, TypeOK
  <2>2. CASE admit(r)
    BY <2>2 DEF admit, NoAdmission, ChargeInv, OpenedOnce, IInv, TypeOK
  <2>3. CASE close(r)
    BY <2>3 DEF close, ChargeInv, OpenedOnce, IInv, TypeOK
  <2>4. ASSUME NEW k \in Counters, record(r, k) \/ decide(r, k) PROVE OpenedOnce'
    <3>1. \A s \in Runs : budget'[s].state = budget[s].state
      <4>1. CASE record(r, k)
        BY <4>1, RecordStays
      <4>2. CASE decide(r, k)
        BY <4>2 DEF decide
      <4> QED BY <2>4, <4>1, <4>2
    <3>2. UNCHANGED <<admission, closing>>
      BY <2>4 DEF record, decide
    <3> QED BY <3>1, <3>2 DEF ChargeInv, OpenedOnce
  <2> QED BY <2>1, <2>2, <2>3, <2>4
<1> QED BY <1>3, <1>4, <1>5 DEF ChargeInv

(* A request that begins to reserve, is sent or dies.                       *)
LEMMA PhaseSteps ==
  ASSUME IInv, IInv', ChargeInv, NEW q \in Requests, reserve(q) \/ send(q) \/ crash(q)
  PROVE  ChargeInv'
<1>1. UNCHANGED <<budget, reservation, admission, closing>>
  BY DEF reserve, send, crash
<1>2. ChargedOnce'
  BY <1>1, ChargedStays DEF ChargeInv
<1>3. OneReserved' /\ OpenedOnce'
  BY <1>1 DEF ChargeInv, OneReserved, OpenedOnce
<1>4. \A p \in Requests : phase'[p] \in {"idle", "reserving"} => phase[p] \in {"idle", "reserving"}
  <2>1. \A p \in Requests : p # q => phase'[p] = phase[p]
    BY DEF reserve, send, crash, IInv, TypeOK
  <2>2. phase'[q] \in {"idle", "reserving"} => phase[q] = "idle"
    BY DEF reserve, send, crash, IInv, TypeOK
  <2> QED BY <2>1, <2>2
<1>5. ReservedLater'
  BY <1>1, <1>4 DEF ChargeInv, ReservedLater
<1> QED BY <1>2, <1>3, <1>5 DEF ChargeInv

(* A reservation is inserted only while its Run has none.                   *)
LEMMA ReserveSteps ==
  ASSUME IInv, IInv', ChargeInv, NEW q \in Requests, reserved(q)
  PROVE  ChargeInv'
<1>1. UNCHANGED <<budget, admission, closing>> /\ phase[q] = "reserving"
  BY DEF reserved
<1>2. phase'[q] \in {"reserved", "refused"} /\ \A p \in Requests : p # q => phase'[p] = phase[p]
  BY DEF reserved, IInv, TypeOK
<1>3. reservation[q].status = "none"
  BY <1>1 DEF ChargeInv, ReservedLater
<1>4. CASE reservation' = reservation
  <2>1. ChargedOnce'
    BY <1>1, <1>4, ChargedStays DEF ChargeInv
  <2> QED BY <1>1, <1>2, <1>4, <2>1 DEF ChargeInv, OneReserved, OpenedOnce, ReservedLater
<1>5. CASE Active(RunOf[q]) = {} /\ reservation' = [reservation EXCEPT ![q].status = "active"]
  <2>1. \A p \in Requests : /\ reservation'[p].used = reservation[p].used
                            /\ p # q => reservation'[p] = reservation[p]
                            /\ p = q => reservation'[p].status = "active"
    BY <1>5 DEF IInv, TypeOK
  <2>2. ChargedOnce'
    BY <1>1, <1>3, <2>1, ChargedStays DEF ChargeInv
  <2>3. OneReserved'
    BY <1>5, <2>1 DEF ChargeInv, OneReserved, Active, RequestsOf
  <2>4. ReservedLater'
    BY <1>2, <2>1 DEF ChargeInv, ReservedLater
  <2>5. OpenedOnce'
    BY <1>1 DEF ChargeInv, OpenedOnce
  <2> QED BY <2>2, <2>3, <2>4, <2>5 DEF ChargeInv
<1> QED BY <1>4, <1>5 DEF reserved

(* A driver that settles or forfeits, and a new driver that reconciles.     *)
LEMMA ChargeSteps ==
  ASSUME IInv, IInv', ChargeInv, NEW q \in Requests,
         NEW status \in {"settled", "forfeited"}, NEW amount \in Nat,
         Charge(q, status, amount), UNCHANGED <<admission, closing>>,
         \A p \in Requests : phase'[p] \in {"idle", "reserving"} => phase'[p] = phase[p]
  PROVE  ChargeInv'
<1>1. /\ ChargedOnce' /\ OneReserved'
      /\ \A r \in Runs : budget'[r].state = budget[r].state
      /\ \A p \in Requests : reservation[p].status = "none" => reservation'[p].status = "none"
  BY ChargeOnce DEF ChargeInv
<1>2. OpenedOnce' /\ ReservedLater'
  BY <1>1 DEF ChargeInv, OpenedOnce, ReservedLater
<1> QED BY <1>1, <1>2 DEF ChargeInv

(* The commit of a closing.                                                 *)
LEMMA ClosedSteps ==
  ASSUME IInv, IInv', ChargeInv, NEW r \in Runs, closed(r)
  PROVE  ChargeInv'
<1>1. /\ ChargedOnce' /\ OneReserved'
      /\ \A s \in Runs : budget'[s].state = IF s = r THEN "finished" ELSE budget[s].state
      /\ \A p \in Requests : reservation[p].status = "none" => reservation'[p].status = "none"
  BY CloseCharges DEF ChargeInv
<1>2. ReservedLater'
  BY <1>1 DEF closed, ChargeInv, ReservedLater
<1>3. OpenedOnce'
  BY <1>1 DEF closed, NotClosing, ChargeInv, OpenedOnce, IInv, TypeOK
<1> QED BY <1>1, <1>2, <1>3 DEF ChargeInv

(* Every step keeps it.                                                     *)
LEMMA NextCharge == IInv /\ IInv' /\ ChargeInv /\ [Next]_vars => ChargeInv'
<1> SUFFICES ASSUME IInv, IInv', ChargeInv, [Next]_vars PROVE ChargeInv'
  OBVIOUS
<1>1. ASSUME NEW r \in Runs, open(r) \/ admit(r) \/ close(r) \/ closed(r) PROVE ChargeInv'
  BY <1>1, RowSteps, ClosedSteps
<1>2. ASSUME NEW r \in Runs, reconcileModelRequests(r) PROVE ChargeInv'
  <2>1. PICK q \in Active(r) :
          /\ Charge(q, "forfeited", Envelope)
          /\ UNCHANGED <<admission, view, phase, deciding, granted, closing>>
    BY <1>2 DEF reconcileModelRequests
  <2>2. q \in Requests /\ Envelope \in Nat
    BY RunBudgetAssumption DEF Active, RequestsOf
  <2> QED BY <2>1, <2>2, ChargeSteps
<1>3. ASSUME NEW q \in Requests,
             \/ reserve(q) \/ reserved(q) \/ send(q) \/ crash(q)
             \/ settleModelRequest(q) \/ forfeitModelRequest(q)
      PROVE  ChargeInv'
  <2>1. CASE settleModelRequest(q) \/ forfeitModelRequest(q)
    <3>1. PICK status \in {"settled", "forfeited"}, amount \in Nat : Charge(q, status, amount)
      BY <2>1, RunBudgetAssumption DEF settleModelRequest, forfeitModelRequest
    <3>2. UNCHANGED <<admission, closing>> /\ phase' = [phase EXCEPT ![q] = "done"]
      BY <2>1 DEF settleModelRequest, forfeitModelRequest
    <3>3. \A p \in Requests : phase'[p] \in {"idle", "reserving"} => phase'[p] = phase[p]
      BY <3>2 DEF IInv, TypeOK
    <3> QED BY <3>1, <3>2, <3>3, ChargeSteps
  <2> QED BY <1>3, <2>1, PhaseSteps, ReserveSteps
<1>4. ASSUME NEW r \in Runs, NEW k \in Counters, record(r, k) \/ decide(r, k) PROVE ChargeInv'
  BY <1>4, RowSteps
<1>5. CASE UNCHANGED vars
  <2>1. UNCHANGED <<budget, reservation, admission, closing, phase>>
    BY <1>5 DEF vars
  <2>2. ChargedOnce'
    BY <2>1, ChargedStays DEF ChargeInv
  <2> QED BY <2>1, <2>2 DEF ChargeInv, OneReserved, OpenedOnce, ReservedLater
<1> QED BY <1>1, <1>2, <1>3, <1>4, <1>5 DEF Next

(* ChargeInv holds in every reachable state.                                *)
LEMMA ChargeInvariance == Spec => []ChargeInv
BY InitCharge, NextCharge, Invariance, PTL DEF Spec

(* A request is charged at most once, whoever settles or forfeits it and    *)
(* however recovery, closing and late answers overlap, and exactly once     *)
(* while its Run is open.                                                   *)
THEOREM RequestsAreChargedOnce == Spec => []ChargedOnce
<1>1. ChargeInv => ChargedOnce
  BY DEF ChargeInv
<1> QED BY <1>1, ChargeInvariance, PTL

-----------------------------------------------------------------------------
(* The conversation of a Run (ModelTurn).                                   *)
Call == [id: Int, kind: Tools, json: BOOLEAN]
Message == [type: {"assistant", "tool"}, calls: Seq(Call)]
Talk == [phase: Phases2, request: SUBSET Requests, replay: BOOLEAN,
         turn: [known: Seq(Message), queue: Seq(Call)],
         known: Seq(Message), queue: Seq(Call), active: BOOLEAN, waiting: BOOLEAN,
         answers: Int, staged: SUBSET Int, told: SUBSET Int]

TalkType ==
    /\ protocol \in Protocols
    /\ talk \in [Runs -> Talk]
    /\ past \in [Runs -> Seq(Message)]
    /\ sent \in [Runs -> Seq(Message)]

(* The calls of the last answer that have no result yet.                    *)
Unanswered(t) == IF t.active THEN t.queue ELSE Tail(t.queue)

(* A call is stored before its result, and the driver builds a request only *)
(* when nothing of the last answer is left.                                 *)
Position(r) ==
    LET t == talk[r]
    IN  /\ protocol = "responses" => Len(t.queue) <= 1
        /\ t.active => t.queue # <<>>
        /\ t.phase \in Phases2 \ {"off", "ready", "ended"} => ~t.active
        /\ t.phase \in {"reserving", "asked"} => remaining(r) = <<>>

(* What the Run has stored ends with the last answer and the results of all *)
(* of its calls but those.                                                  *)
Stored(r) ==
    LET t == talk[r]
    IN  IF t.queue = <<>> THEN past[r] = <<>>
        ELSE validatePersistedChatQueue(past[r], Unanswered(t))

(* The continuation is the conversation, where it is not the last answer.   *)
Kept(r) ==
    protocol # "messages" =>
      /\ past[r] = IF talk[r].active THEN talk[r].known ELSE context(r)
      /\ talk[r].phase = "asked" => sent[r] = past[r]

(* A turn that was returned hands out the next call of the last answer, or  *)
(* the first of a new one.                                                  *)
NextTurn(r, t) ==
    /\ t.queue # <<>> /\ t.known # <<>>
    /\ protocol = "responses" => Len(t.queue) = 1
    /\ \/ /\ talk[r].queue # <<>>
          /\ t.known = context(r) /\ t.queue = remaining(r)
       \/ /\ t.known[Len(t.known)] = Batch(t.queue)
          /\ protocol # "messages" => t.known = Append(context(r), Batch(t.queue))

Returned(r) == talk[r].phase \in {"returned", "counting"} => NextTurn(r, talk[r].turn)

TalkInv == TalkType /\ \A r \in Runs : Position(r) /\ Stored(r) /\ Kept(r) /\ Returned(r)

-----------------------------------------------------------------------------
(* A turn spends the budget only as RunBudget allows.                       *)
LEMMA TurnStep ==
  ASSUME TalkType, [TurnNext]_allVars
  PROVE  [Next]_vars
<1> SUFFICES ASSUME TurnNext PROVE [Next]_vars
  BY DEF allVars
<1>1. PICK r \in Runs :
        \/ budgetOnly(r) \/ drive(r) \/ leave(r) \/ fail(r) \/ driverDies(r)
        \/ stageSteering(r) \/ nextQueued(r) \/ ask(r)
        \/ onRequestStart(r) \/ create(r) \/ onRequestFailure(r) \/ onUsage(r)
        \/ onBeforeModelRetry(r) \/ replay(r)
        \/ recordToolCall(r) \/ storeCall(r) \/ storeQuestion(r) \/ resultStored(r)
  BY DEF TurnNext
<1>2. CASE budgetOnly(r)
  BY <1>2 DEF budgetOnly, Next
<1>3. CASE drive(r)
  BY <1>3 DEF drive, Next
<1>4. CASE leave(r) \/ fail(r) \/ stageSteering(r) \/ nextQueued(r) \/ storeQuestion(r)
            \/ resultStored(r)
  BY <1>4 DEF leave, fail, stageSteering, nextQueued, storeQuestion, resultStored
<1>5. "toolCalls" \in Counters /\ "modelRetries" \in Counters
  BY ModelTurnAssumption
<1>6. CASE recordToolCall(r) \/ storeCall(r)
  <2>1. record(r, "toolCalls") \/ decide(r, "toolCalls")
    BY <1>6 DEF recordToolCall, storeCall
  <2> QED BY <1>5, <2>1 DEF Next
<1>7. CASE onBeforeModelRetry(r) \/ replay(r)
  <2>1. record(r, "modelRetries") \/ decide(r, "modelRetries") \/ UNCHANGED vars
    BY <1>7 DEF onBeforeModelRetry, replay
  <2> QED BY <1>5, <2>1 DEF Next
<1>8. ASSUME NEW q \in Requests,
             \/ reserve(q) \/ reserved(q) \/ send(q) \/ forfeitModelRequest(q)
             \/ settleModelRequest(q) \/ crash(q)
      PROVE  Next
  BY <1>8 DEF Next
<1>9. RequestsOf(r) \subseteq Requests /\ talk[r].request \subseteq Requests
  BY DEF RequestsOf, TalkType, Talk
<1>10. CASE ask(r) \/ onRequestStart(r) \/ create(r)
  <2>1. \E q \in Requests : reserve(q) \/ reserved(q) \/ send(q)
    BY <1>9, <1>10 DEF ask, onRequestStart, create
  <2> QED BY <1>8, <2>1
<1>11. CASE onRequestFailure(r) \/ onUsage(r)
  <2>1. \E q \in Requests : forfeitModelRequest(q) \/ settleModelRequest(q)
    BY <1>9, <1>11 DEF onRequestFailure, onUsage
  <2> QED BY <1>8, <2>1
<1>12. CASE driverDies(r)
  <2>1. (\E q \in Requests : crash(q)) \/ UNCHANGED vars
    BY <1>9, <1>12 DEF driverDies
  <2> QED BY <1>8, <2>1
<1> QED BY <1>1, <1>2, <1>3, <1>4, <1>6, <1>7, <1>10, <1>11, <1>12

-----------------------------------------------------------------------------
(* What is stored ends with its last answer.                                *)

(* A new answer has no result yet.                                          *)
LEMMA ValidBatch ==
  ASSUME NEW known \in Seq(Message), NEW calls \in Seq(Call)
  PROVE  validatePersistedChatQueue(Append(known, Batch(calls)), calls)
<1>1. PICK p, i : p = Append(known, Batch(calls)) /\ i = Len(known) + 1
  OBVIOUS
<1>2. Len(known) \in Nat
  BY LenProperties
<1>3. Len(p) = i /\ p[i] = Batch(calls) /\ i \in 1..Len(p)
  BY <1>1, <1>2
<1>4. [j \in 1..(Len(p) - i) |-> p[i + j].calls[1]] = <<>>
  BY <1>2, <1>3, <1>1
<1>5. <<>> \o calls = calls
  BY ConcatEmptySeq
<1>6. validatePersistedChatQueue(p, calls)
  BY <1>1, <1>2, <1>3, <1>4, <1>5 DEF validatePersistedChatQueue, Batch
<1> QED BY <1>1, <1>6

(* A function on 1..n is a sequence.                                        *)
LEMMA ListLength ==
  ASSUME NEW S, NEW n \in Nat, NEW f \in [1..n -> S]
  PROVE  f \in Seq(S) /\ Len(f) = n
OBVIOUS

(* The head of the second list may as well end the first.                   *)
LEMMA ShiftHead ==
  ASSUME NEW S, NEW a \in Seq(S), NEW b \in Seq(S), NEW q \in Seq(S), q # <<>>,
         Len(b) = Len(a) + 1, \A k \in 1..Len(a) : b[k] = a[k], b[Len(a) + 1] = Head(q)
  PROVE  a \o q = b \o Tail(q)
<1>1. PICK h, t : h = Head(q) /\ t = Tail(q)
  OBVIOUS
<1>2. h \in S /\ t \in Seq(S) /\ Len(a) \in Nat
  BY <1>1, HeadTailProperties, LenProperties
<1>3. b = Append(a, h)
  <2>1. Append(a, h) \in Seq(S) /\ Len(Append(a, h)) = Len(a) + 1
        /\ \A k \in 1..Len(a) + 1 : Append(a, h)[k] = IF k = Len(a) + 1 THEN h ELSE a[k]
    BY <1>2, AppendProperties
  <2>2. \A k \in 1..Len(b) : b[k] = Append(a, h)[k]
    BY <1>1, <1>2, <2>1
  <2> QED BY <2>1, <2>2, SeqEqual
<1>4. b = a \o <<h>>
  BY <1>2, <1>3, AppendIsConcat
<1>5. q = <<h>> \o t
  <2>1. PICK x : x = <<h>> \o t
    OBVIOUS
  <2>2. <<h>> \in Seq(S) /\ Len(<<h>>) = 1 /\ <<h>>[1] = h
    BY <1>2
  <2>3. /\ x \in Seq(S) /\ Len(x) = 1 + Len(t)
        /\ \A k \in 1..1 + Len(t) : x[k] = IF k <= 1 THEN <<h>>[k] ELSE t[k - 1]
    BY <1>2, <2>1, <2>2, ConcatProperties
  <2>4. /\ Len(t) = Len(q) - 1 /\ Len(q) \in Nat \ {0} /\ q[1] = h
        /\ \A k \in 1..Len(t) : t[k] = q[k + 1]
    BY <1>1, HeadTailProperties, EmptySeq
  <2>5. ASSUME NEW k \in 1..Len(q) PROVE q[k] = x[k]
    <3>1. CASE k = 1
      BY <2>2, <2>3, <2>4, <3>1
    <3>2. CASE k # 1
      <4>1. PICK m : m = k - 1
        OBVIOUS
      <4>2. m \in 1..Len(t) /\ k = m + 1 /\ k \in 1..1 + Len(t)
        BY <2>4, <3>2, <4>1
      <4>3. x[k] = t[m]
        BY <2>3, <3>2, <4>1, <4>2
      <4> QED BY <2>4, <4>2, <4>3
    <3> QED BY <3>1, <3>2
  <2>6. Len(x) = Len(q) /\ x \in Seq(S)
    BY <2>3, <2>4
  <2>7. q = x
    BY <2>5, <2>6, SeqEqual
  <2> QED BY <2>1, <2>7
<1>6. <<h>> \in Seq(S)
  BY <1>2
<1> QED BY <1>1, <1>2, <1>4, <1>5, <1>6, ConcatAssociative

(* The result of the next call takes it out of what is unanswered.          *)
LEMMA ValidResult ==
  ASSUME NEW known \in Seq(Message), NEW queue \in Seq(Call), queue # <<>>,
         validatePersistedChatQueue(known, queue)
  PROVE  validatePersistedChatQueue(Append(known, Result(Head(queue))), Tail(queue))
<1>1. PICK i \in 1..Len(known) :
        /\ known[i].type = "assistant"
        /\ \A j \in (i + 1)..Len(known) : known[j].type = "tool"
        /\ known[i].calls = [j \in 1..(Len(known) - i) |-> known[i + j].calls[1]] \o queue
  BY DEF validatePersistedChatQueue
<1>2. PICK p, h, n, m : /\ p = Append(known, Result(h)) /\ h = Head(queue)
                        /\ n = Len(known) /\ m = n - i
  OBVIOUS
<1>3. /\ n \in Nat /\ i \in 1..n /\ m \in Nat /\ n = i + m
      /\ Len(p) = n + 1 /\ p[n + 1] = Result(h)
      /\ \A k \in 1..n : p[k] = known[k]
  BY <1>2, LenProperties
<1>4. PICK a, b : /\ a = [j \in 1..m |-> known[i + j].calls[1]]
                  /\ b = [j \in 1..(m + 1) |-> p[i + j].calls[1]]
  OBVIOUS
<1>5. PICK S : S = Call \cup {a[j] : j \in 1..m} \cup {b[j] : j \in 1..(m + 1)}
  OBVIOUS
<1>6. a \in Seq(S) /\ b \in Seq(S) /\ Len(a) = m /\ Len(b) = m + 1
  <2>1. a \in [1..m -> S]
    BY <1>4, <1>5
  <2>2. b \in [1..(m + 1) -> S]
    BY <1>4, <1>5
  <2>3. m + 1 \in Nat
    BY <1>3
  <2>4. a \in Seq(S) /\ Len(a) = m
    BY <1>3, <2>1, ListLength
  <2>5. b \in Seq(S) /\ Len(b) = m + 1
    BY <2>2, <2>3, ListLength
  <2> QED BY <2>4, <2>5
<1>7. queue \in Seq(S)
  BY <1>5
<1>8. a \o queue = b \o Tail(queue)
  <2>1. \A k \in 1..m : b[k] = a[k]
    <3> SUFFICES ASSUME NEW k \in 1..m PROVE b[k] = a[k]
      OBVIOUS
    <3>1. k \in 1..(m + 1) /\ i + k \in 1..n
      BY <1>3
    <3> QED BY <1>3, <1>4, <3>1
  <2>2. b[m + 1] = h
    <3>1. m + 1 \in 1..(m + 1) /\ i + (m + 1) = n + 1
      BY <1>3
    <3>2. Result(h).calls[1] = h
      BY DEF Result
    <3> QED BY <1>3, <1>4, <3>1, <3>2
  <2>3. /\ Len(b) = Len(a) + 1 /\ \A k \in 1..Len(a) : b[k] = a[k]
        /\ b[Len(a) + 1] = Head(queue) /\ a \in Seq(S) /\ b \in Seq(S)
    BY <1>2, <1>6, <2>1, <2>2
  <2> QED BY <1>7, <2>3, ShiftHead
<1>9. i \in 1..Len(p) /\ Len(known) - i = m /\ Len(p) - i = m + 1
  BY <1>2, <1>3
<1>10. p[i].type = "assistant" /\ p[i].calls = b \o Tail(queue)
  BY <1>1, <1>2, <1>3, <1>4, <1>8
<1>11. \A j \in (i + 1)..Len(p) : p[j].type = "tool"
  <2> SUFFICES ASSUME NEW j \in (i + 1)..Len(p) PROVE p[j].type = "tool"
    OBVIOUS
  <2>1. CASE j = n + 1
    BY <1>3, <2>1 DEF Result
  <2>2. CASE j # n + 1
    <3>1. j \in (i + 1)..n /\ j \in 1..n
      BY <1>3, <2>2
    <3> QED BY <1>1, <1>2, <1>3, <3>1
  <2> QED BY <2>1, <2>2
<1>12. validatePersistedChatQueue(p, Tail(queue))
  <2>1. p[i].calls = [j \in 1..(Len(p) - i) |-> p[i + j].calls[1]] \o Tail(queue)
    BY <1>4, <1>9, <1>10
  <2> QED BY <1>9, <1>10, <1>11, <2>1 DEF validatePersistedChatQueue
<1> QED BY <1>2, <1>12

-----------------------------------------------------------------------------
(* What the driver's steps do to the conversation.                          *)
LEMMA TalkOf ==
  ASSUME TalkType, NEW r \in Runs
  PROVE  /\ talk[r] \in Talk /\ past[r] \in Seq(Message) /\ sent[r] \in Seq(Message)
         /\ talk[r].queue \in Seq(Call) /\ talk[r].known \in Seq(Message)
         /\ talk[r].turn.queue \in Seq(Call) /\ talk[r].turn.known \in Seq(Message)
BY DEF TalkType, Talk

(* A result is a message.                                                 *)
LEMMA ResultType == ASSUME NEW call \in Call PROVE Result(call) \in Message
<1>1. <<call>> \in Seq(Call)
  OBVIOUS
<1> QED BY <1>1 DEF Result, Message

(* The conversation that next() continues.                                  *)
LEMMA ContextType ==
  ASSUME TalkType, NEW r \in Runs
  PROVE  /\ context(r) \in Seq(Message) /\ remaining(r) \in Seq(Call)
         /\ talk[r].queue # <<>> =>
              /\ context(r) # <<>> /\ context(r)[Len(context(r))].type = "tool"
              /\ context(r) = Append(talk[r].known, Result(Head(talk[r].queue)))
              /\ remaining(r) = Tail(talk[r].queue)
<1>1. talk[r].queue \in Seq(Call) /\ talk[r].known \in Seq(Message)
  BY TalkOf
<1>2. CASE talk[r].queue = <<>>
  BY <1>2 DEF context, remaining
<1>3. CASE talk[r].queue # <<>>
  <2>1. Head(talk[r].queue) \in Call /\ Tail(talk[r].queue) \in Seq(Call)
    BY <1>1, <1>3, HeadTailProperties
  <2>2. PICK m : m = Result(Head(talk[r].queue))
    OBVIOUS
  <2>3. m \in Message /\ m.type = "tool"
    BY <2>1, <2>2, ResultType DEF Result
  <2>4. context(r) = Append(talk[r].known, m) /\ remaining(r) = Tail(talk[r].queue)
    BY <1>3, <2>2 DEF context, remaining, appendToolResult
  <2>5. PICK p : p = Append(talk[r].known, m)
    OBVIOUS
  <2>6. /\ p \in Seq(Message) /\ Len(p) = Len(talk[r].known) + 1
        /\ p[Len(talk[r].known) + 1] = m /\ Len(talk[r].known) \in Nat
    BY <1>1, <2>3, <2>5, AppendProperties, LenProperties
  <2>7. p # <<>> /\ p[Len(p)].type = "tool"
    <3>1. Len(p) # 0
      BY <2>6
    <3>2. Len(<<>>) = 0
      OBVIOUS
    <3>3. p[Len(p)] = m
      BY <2>6
    <3> QED BY <2>3, <3>1, <3>2, <3>3
  <2> QED BY <2>1, <2>2, <2>4, <2>5, <2>6, <2>7, <1>3
<1> QED BY <1>2, <1>3

OthersTalk(r) ==
    \A s \in Runs \ {r} : talk'[s] = talk[s] /\ past'[s] = past[s] /\ sent'[s] = sent[s]

(* The step of one Run leaves the conversations of the others alone.        *)
LEMMA OneRun ==
  ASSUME TalkInv, TalkType', NEW r \in Runs, OthersTalk(r), protocol' = protocol,
         Position(r)', Stored(r)', Kept(r)', Returned(r)'
  PROVE  TalkInv'
<1> SUFFICES ASSUME NEW s \in Runs \ {r}
             PROVE  Position(s)' /\ Stored(s)' /\ Kept(s)' /\ Returned(s)'
  BY DEF TalkInv
<1>1. talk'[s] = talk[s] /\ past'[s] = past[s] /\ sent'[s] = sent[s] /\ protocol' = protocol
  BY DEF OthersTalk
<1>2. Position(s) /\ Stored(s) /\ Kept(s) /\ Returned(s)
  BY DEF TalkInv
<1>3. context(s)' = context(s) /\ remaining(s)' = remaining(s)
  BY <1>1 DEF context, remaining
<1>4. Position(s)' /\ Stored(s)'
  BY <1>1, <1>2, <1>3 DEF Position, Stored, Unanswered
<1>5. Kept(s)' /\ Returned(s)'
  BY <1>1, <1>2, <1>3 DEF Kept, Returned, NextTurn
<1> QED BY <1>4, <1>5

Busy == Phases2 \ {"off", "ready", "ended"}

(* A driver moves on without storing anything.                              *)
LEMMA Proceeds ==
  ASSUME TalkInv, NEW r \in Runs, talk' \in [Runs -> Talk], past' = past,
         sent' \in [Runs -> Seq(Message)], protocol' = protocol, OthersTalk(r),
         talk'[r].known = talk[r].known, talk'[r].queue = talk[r].queue,
         talk'[r].active = talk[r].active,
         talk'[r].phase \in Busy => ~talk[r].active,
         talk'[r].phase \in {"reserving", "asked"} => remaining(r) = <<>>,
         talk'[r].phase = "asked" /\ protocol # "messages" => sent'[r] = past[r],
         talk'[r].phase \in {"returned", "counting"} => NextTurn(r, talk'[r].turn)
  PROVE  TalkInv'
<1>1. Position(r) /\ Stored(r) /\ Kept(r) /\ Returned(r) /\ TalkType'
  BY DEF TalkInv, TalkType
<1>2. context(r)' = context(r) /\ remaining(r)' = remaining(r)
  BY DEF context, remaining
<1>3. Position(r)'
  BY <1>1, <1>2 DEF Position, Busy
<1>4. Stored(r)' /\ Kept(r)'
  BY <1>1, <1>2 DEF Stored, Kept, Unanswered
<1>5. NextTurn(r, talk'[r].turn) => NextTurn(r, talk[r].turn)'
  BY <1>2 DEF NextTurn
<1>6. Returned(r)'
  BY <1>5 DEF Returned
<1> QED BY <1>1, <1>3, <1>4, <1>6, OneRun

(* A step that writes the talk of one Run.                                  *)
LEMMA WriteOne ==
  ASSUME TalkType, NEW r \in Runs, NEW t \in Talk, talk' = [talk EXCEPT ![r] = t]
  PROVE  talk' \in [Runs -> Talk] /\ talk'[r] = t /\ \A s \in Runs \ {r} : talk'[s] = talk[s]
<1>1. talk \in [Runs -> Talk]
  BY DEF TalkType
<1> QED BY ONLY <1>1, r \in Runs, t \in Talk, talk' = [talk EXCEPT ![r] = t]

(* moves writes the phase.                                                *)
LEMMA MovesTalk ==
  ASSUME TalkType, NEW r \in Runs, NEW to \in Phases2, moves(r, to)
  PROVE  /\ talk' \in [Runs -> Talk] /\ \A s \in Runs \ {r} : talk'[s] = talk[s]
         /\ talk'[r].known = talk[r].known /\ talk'[r].queue = talk[r].queue
         /\ talk'[r].active = talk[r].active /\ talk'[r].turn = talk[r].turn
         /\ talk'[r].phase = to
<1>1. PICK u, t : u = talk[r] /\ t = [u EXCEPT !.phase = to]
  OBVIOUS
<1>2. u \in Talk /\ talk \in [Runs -> Talk]
  BY <1>1 DEF TalkType
<1>3. /\ t \in Talk /\ t.known = u.known /\ t.queue = u.queue /\ t.active = u.active
      /\ t.turn = u.turn /\ t.phase = to
  BY ONLY <1>1, <1>2, to \in Phases2 DEF Talk
<1>4. talk' = [talk EXCEPT ![r] = t]
  BY ONLY <1>1, <1>2, r \in Runs, moves(r, to) DEF moves
<1> QED BY <1>1, <1>3, <1>4, WriteOne

Turn == [known: Seq(Message), queue: Seq(Call)]

(* No turn is a turn without calls.                                       *)
LEMMA NoTurnType == NoTurn \in Turn
<1>1. <<>> \in Seq(Message) /\ <<>> \in Seq(Call)
  BY EmptySeq
<1> QED BY <1>1 DEF NoTurn, Turn

(* ends and returns write four fields.                                      *)
LEMMA WritesTalk ==
  ASSUME TalkType, NEW r \in Runs, NEW to \in Phases2, NEW turn \in Turn,
         talk' = [talk EXCEPT ![r].phase = to, ![r].request = {},
                              ![r].replay = FALSE, ![r].turn = turn]
  PROVE  /\ talk' \in [Runs -> Talk] /\ \A s \in Runs \ {r} : talk'[s] = talk[s]
         /\ talk'[r].known = talk[r].known /\ talk'[r].queue = talk[r].queue
         /\ talk'[r].active = talk[r].active /\ talk'[r].turn = turn
         /\ talk'[r].phase = to
<1>1. PICK u : u = talk[r]
  OBVIOUS
<1>2. u \in Talk
  BY <1>1 DEF TalkType
<1>3. PICK t : t = [u EXCEPT !.phase = to, !.request = {}, !.replay = FALSE, !.turn = turn]
  OBVIOUS
<1>4. /\ t \in Talk /\ t.known = u.known /\ t.queue = u.queue /\ t.active = u.active
      /\ t.turn = turn /\ t.phase = to
  BY ONLY <1>2, <1>3, to \in Phases2, turn \in Turn DEF Talk, Turn
<1>5. talk' = [talk EXCEPT ![r] = t]
  <2>1. talk \in [Runs -> Talk]
    BY DEF TalkType
  <2> QED BY ONLY <1>1, <1>3, <2>1, r \in Runs,
                  talk' = [talk EXCEPT ![r].phase = to, ![r].request = {},
                                       ![r].replay = FALSE, ![r].turn = turn]
<1> QED BY <1>1, <1>4, <1>5, WriteOne

(* A driver gives the Run up.                                             *)
LEMMA EndsTalk ==
  ASSUME TalkInv, NEW r \in Runs, ends(r), recordKept
  PROVE  TalkInv'
<1>1. /\ talk' \in [Runs -> Talk] /\ \A s \in Runs \ {r} : talk'[s] = talk[s]
      /\ talk'[r].known = talk[r].known /\ talk'[r].queue = talk[r].queue
      /\ talk'[r].active = talk[r].active /\ talk'[r].phase = "ended"
  BY NoTurnType, WritesTalk DEF TalkInv, ends, Phases2
<1> QED BY <1>1, Proceeds DEF recordKept, TalkInv, TalkType, OthersTalk, Busy

(* A driver goes on to a point where it holds no request and no new turn.   *)
LEMMA MovesOn ==
  ASSUME TalkInv, NEW r \in Runs, NEW to \in Phases2 \ {"reserving", "asked"},
         moves(r, to), recordKept, to \in Busy => ~talk[r].active,
         to \in {"returned", "counting"} => talk[r].phase \in {"returned", "counting"}
  PROVE  TalkInv'
<1>1. /\ talk' \in [Runs -> Talk] /\ \A s \in Runs \ {r} : talk'[s] = talk[s]
      /\ talk'[r].known = talk[r].known /\ talk'[r].queue = talk[r].queue
      /\ talk'[r].active = talk[r].active /\ talk'[r].turn = talk[r].turn
      /\ talk'[r].phase = to
  BY MovesTalk DEF TalkInv
<1>2. talk[r].phase \in {"returned", "counting"} => NextTurn(r, talk[r].turn)
  BY DEF TalkInv, Returned
<1>3. sent' \in [Runs -> Seq(Message)] /\ past' = past /\ protocol' = protocol /\ OthersTalk(r)
  BY <1>1 DEF recordKept, TalkInv, TalkType, OthersTalk
<1> QED BY <1>1, <1>2, <1>3, Proceeds

(* What every driver knows at its point.                                    *)
LEMMA BusyFacts ==
  ASSUME TalkInv, NEW r \in Runs
  PROVE  /\ TalkType /\ talk[r].phase \in Phases2
         /\ talk[r].phase \in Busy => ~talk[r].active
         /\ talk[r].phase \in {"reserving", "asked"} => remaining(r) = <<>>
         /\ talk[r].phase \in {"returned", "counting"} => NextTurn(r, talk[r].turn)
         /\ protocol = "responses" => remaining(r) = <<>>
         /\ ~talk[r].active /\ protocol # "messages" => past[r] = context(r)
<1>1. Position(r) /\ Returned(r) /\ Kept(r) /\ TalkType
  BY DEF TalkInv
<1>2. talk[r].phase \in Phases2
  BY <1>1, TalkOf DEF Talk
<1>3. ASSUME protocol = "responses" PROVE remaining(r) = <<>>
  <2>1. Len(talk[r].queue) <= 1 /\ talk[r].queue \in Seq(Call)
    BY <1>1, <1>3, TalkOf DEF Position
  <2>2. CASE talk[r].queue = <<>>
    BY <2>2 DEF remaining
  <2>3. CASE talk[r].queue # <<>>
    <3>1. remaining(r) = Tail(talk[r].queue)
      BY <2>3 DEF remaining
    <3>2. PICK q : q = Tail(talk[r].queue)
      OBVIOUS
    <3>3. q \in Seq(Call) /\ Len(q) = Len(talk[r].queue) - 1
      BY <2>1, <2>3, <3>2, HeadTailProperties
    <3>4. PICK m, n : m = Len(q) /\ n = Len(talk[r].queue)
      OBVIOUS
    <3>5. Len(q) = 0
      <4>1. m \in Nat /\ n \in Nat /\ m = n - 1 /\ n <= 1
        BY <2>1, <3>3, <3>4, LenProperties
      <4>2. m = 0
        BY ONLY <4>1
      <4> QED BY <3>4, <4>2
    <3>6. q = <<>>
      BY <3>3, <3>5, EmptySeq
    <3> QED BY <3>1, <3>2, <3>6
  <2> QED BY <2>2, <2>3
<1> QED BY <1>1, <1>2, <1>3 DEF Position, Returned, Kept, Busy

(* A driver comes and goes between two requests.                          *)
LEMMA driveTalk ==
  ASSUME TalkInv, NEW r \in Runs, drive(r) \/ leave(r) \/ fail(r) \/ budgetOnly(r)
  PROVE  TalkInv'
<1>1. CASE drive(r)
  <2>1. moves(r, "ready") /\ recordKept => TalkInv'
    BY MovesOn DEF Phases2, Busy
  <2> QED BY <1>1, <2>1, EndsTalk DEF drive
<1>2. CASE leave(r)
  <2>1. PICK turn : turn = NoTurn
    OBVIOUS
  <2>2. turn \in Turn /\ talk' = [talk EXCEPT ![r].phase = "off", ![r].turn = turn]
        /\ recordKept
    BY <1>2, <2>1, NoTurnType DEF leave
  <2>3. /\ talk' \in [Runs -> Talk] /\ \A s \in Runs \ {r} : talk'[s] = talk[s]
        /\ talk'[r].known = talk[r].known /\ talk'[r].queue = talk[r].queue
        /\ talk'[r].active = talk[r].active /\ talk'[r].phase = "off"
    <3>1. PICK u, t : u = talk[r] /\ t = [u EXCEPT !.phase = "off", !.turn = turn]
      OBVIOUS
    <3>2. talk \in [Runs -> Talk] /\ u \in Talk
      BY <3>1 DEF TalkInv, TalkType
    <3>3. /\ t \in Talk /\ t.known = u.known /\ t.queue = u.queue /\ t.active = u.active
          /\ t.phase = "off"
      BY <2>2, <3>1, <3>2 DEF Talk, Turn, Phases2
    <3>4. talk' = [talk EXCEPT ![r] = t]
      BY ONLY <2>2, <3>1, <3>2, r \in Runs
    <3> QED BY <3>1, <3>3, <3>4, WriteOne DEF TalkInv
  <2> QED BY <2>2, <2>3, Proceeds DEF recordKept, TalkInv, TalkType, OthersTalk, Busy
<1>3. CASE fail(r)
  BY <1>3, EndsTalk DEF fail
<1>4. CASE budgetOnly(r)
  <2>1. UNCHANGED <<talk, past, sent, protocol>>
    BY <1>4 DEF budgetOnly, turnVars
  <2>2. OthersTalk(r) /\ TalkType'
    BY <2>1 DEF OthersTalk, TalkInv, TalkType
  <2> QED BY <2>1, <2>2, BusyFacts, TalkOf, Proceeds DEF TalkInv, TalkType, Kept
<1> QED BY <1>1, <1>2, <1>3, <1>4

(* An instruction is staged for the next request.                         *)
LEMMA stageSteeringTalk ==
  ASSUME TalkInv, NEW r \in Runs, stageSteering(r) PROVE TalkInv'
<1>1. PICK i \in 1..MaxInstructions : talk' = [talk EXCEPT ![r].staged = @ \cup {i}]
  BY DEF stageSteering
<1>2. talk[r].phase = "ready" /\ recordKept
  BY DEF stageSteering
<1>3. i \in Int
  BY ModelTurnAssumption
<1>4. /\ talk' \in [Runs -> Talk] /\ \A s \in Runs \ {r} : talk'[s] = talk[s]
      /\ talk'[r].known = talk[r].known /\ talk'[r].queue = talk[r].queue
      /\ talk'[r].active = talk[r].active /\ talk'[r].phase = "ready"
  <2>1. PICK u, t : u = talk[r] /\ t = [u EXCEPT !.staged = @ \cup {i}]
    OBVIOUS
  <2>2. u \in Talk /\ talk \in [Runs -> Talk] /\ u.phase = "ready"
    BY <1>2, <2>1 DEF TalkInv, TalkType
  <2>3. /\ t \in Talk /\ t.known = u.known /\ t.queue = u.queue /\ t.active = u.active
        /\ t.phase = "ready"
    BY ONLY <1>3, <2>1, <2>2 DEF Talk
  <2>4. talk' = [talk EXCEPT ![r] = t]
    BY ONLY <1>1, <2>1, <2>2, r \in Runs
  <2> QED BY <2>1, <2>3, <2>4, WriteOne DEF TalkInv
<1> QED BY <1>2, <1>4, Proceeds DEF recordKept, TalkInv, TalkType, OthersTalk, Busy

(* next() hands out the next call of the last answer.                       *)
LEMMA nextQueuedTalk ==
  ASSUME TalkInv, NEW r \in Runs, nextQueued(r) PROVE TalkInv'
<1>1. /\ talk[r].phase = "ready" /\ ~talk[r].active /\ remaining(r) # <<>> /\ recordKept
      /\ returns(r, [known |-> context(r), queue |-> remaining(r)]) \/ ends(r)
  BY DEF nextQueued
<1>2. CASE ends(r)
  BY <1>1, <1>2, EndsTalk
<1>3. CASE returns(r, [known |-> context(r), queue |-> remaining(r)])
  <2>1. PICK turn : turn = [known |-> context(r), queue |-> remaining(r)]
    OBVIOUS
  <2>2. talk[r].queue # <<>>
    BY <1>1 DEF remaining
  <2>3. turn \in Turn /\ turn.known = context(r) /\ turn.queue = remaining(r) /\ turn.known # <<>>
    BY <2>1, <2>2, ContextType DEF TalkInv, Turn
  <2>4. NextTurn(r, turn)
    BY <1>1, <2>2, <2>3, BusyFacts DEF NextTurn
  <2>5. talk' = [talk EXCEPT ![r].phase = "returned", ![r].request = {},
                             ![r].replay = FALSE, ![r].turn = turn]
    BY <1>3, <2>1 DEF returns
  <2>6. /\ talk' \in [Runs -> Talk] /\ \A s \in Runs \ {r} : talk'[s] = talk[s]
        /\ talk'[r].known = talk[r].known /\ talk'[r].queue = talk[r].queue
        /\ talk'[r].active = talk[r].active /\ talk'[r].turn = turn
        /\ talk'[r].phase = "returned"
    BY <2>3, <2>5, WritesTalk DEF TalkInv, Phases2
  <2>7. sent' \in [Runs -> Seq(Message)] /\ past' = past /\ protocol' = protocol /\ OthersTalk(r)
    BY <1>1, <2>6 DEF recordKept, TalkInv, TalkType, OthersTalk
  <2> QED BY <1>1, <2>4, <2>6, <2>7, Proceeds
<1> QED BY <1>1, <1>2, <1>3

(* A step that leaves what the invariant speaks of as it is.                *)
LEMMA StaysTalk ==
  ASSUME TalkInv, UNCHANGED <<talk, past, sent, protocol>> PROVE TalkInv'
BY DEF TalkInv, TalkType, Position, Stored, Kept, Returned, NextTurn, Unanswered, context,
       remaining

(* A driver goes on without a new turn, whatever else it notes of its own.  *)
LEMMA NotesTalk ==
  ASSUME TalkInv, NEW r \in Runs, NEW t \in Talk, talk' = [talk EXCEPT ![r] = t], recordKept,
         t.known = talk[r].known, t.queue = talk[r].queue, t.active = talk[r].active,
         t.phase \notin {"asked", "returned", "counting"},
         t.phase \in Busy => ~talk[r].active, t.phase = "reserving" => remaining(r) = <<>>
  PROVE  TalkInv'
<1>1. talk' \in [Runs -> Talk] /\ talk'[r] = t /\ \A s \in Runs \ {r} : talk'[s] = talk[s]
  BY WriteOne DEF TalkInv
<1>2. sent' \in [Runs -> Seq(Message)] /\ past' = past /\ protocol' = protocol /\ OthersTalk(r)
  BY <1>1 DEF recordKept, TalkInv, TalkType, OthersTalk
<1> QED BY <1>1, <1>2, Proceeds

(* A request is reserved when the calls of the last answer are used up.   *)
LEMMA askTalk ==
  ASSUME TalkInv, NEW r \in Runs, ask(r) PROVE TalkInv'
<1>1. PICK q \in RequestsOf(r) : talk' = [talk EXCEPT ![r].phase = "reserving", ![r].request = {q}]
  BY DEF ask
<1>2. ~talk[r].active /\ remaining(r) = <<>> /\ recordKept
  BY BusyFacts DEF ask, askResponses, askChat, askMessages
<1>3. PICK u, t : u = talk[r] /\ t = [u EXCEPT !.phase = "reserving", !.request = {q}]
  OBVIOUS
<1>4. talk \in [Runs -> Talk] /\ u \in Talk /\ q \in Requests
  BY <1>3 DEF TalkInv, TalkType, RequestsOf
<1>5. /\ t \in Talk /\ t.known = u.known /\ t.queue = u.queue /\ t.active = u.active
      /\ t.phase = "reserving"
  BY <1>3, <1>4 DEF Talk, Phases2
<1>6. talk' = [talk EXCEPT ![r] = t]
  BY ONLY <1>1, <1>3, <1>4, r \in Runs
<1> QED BY <1>2, <1>3, <1>5, <1>6, NotesTalk

(* The reservation is stored, or refused.                                 *)
LEMMA onRequestStartTalk ==
  ASSUME TalkInv, NEW r \in Runs, onRequestStart(r) PROVE TalkInv'
<1>1. recordKept /\ (UNCHANGED talk \/ ends(r))
  BY DEF onRequestStart
<1> QED BY <1>1, EndsTalk, StaysTalk DEF recordKept

(* What is sent is the conversation.                                        *)
LEMMA RequestMessages ==
  ASSUME TalkInv, NEW r \in Runs PROVE request(r).messages = context(r)
<1>1. protocol \in {"responses", "chat", "messages"}
  BY ModelTurnAssumption DEF TalkInv, TalkType
<1> QED BY <1>1 DEF request, buildRequest, chatRequest, messagesRequest

(* The request goes out with the conversation stored with the Run.        *)
LEMMA createTalk ==
  ASSUME TalkInv, NEW r \in Runs, create(r) PROVE TalkInv'
<1>1. talk[r].phase = "reserving" /\ past' = past /\ protocol' = protocol /\ crashes' = crashes
      /\ \/ moves(r, "asked") /\ sent' = [sent EXCEPT ![r] = request(r).messages]
         \/ ends(r) /\ UNCHANGED <<sent, heard>>
  BY DEF create
<1>2. CASE ends(r) /\ UNCHANGED <<sent, heard>>
  BY <1>1, <1>2, EndsTalk DEF recordKept
<1>3. CASE moves(r, "asked") /\ sent' = [sent EXCEPT ![r] = request(r).messages]
  <2>1. PICK c : c = context(r)
    OBVIOUS
  <2>2. c \in Seq(Message) /\ sent' = [sent EXCEPT ![r] = c]
    BY <1>3, <2>1, ContextType, RequestMessages DEF TalkInv
  <2>3. sent \in [Runs -> Seq(Message)]
    BY DEF TalkInv, TalkType
  <2>4. sent' \in [Runs -> Seq(Message)] /\ sent'[r] = c /\ \A s \in Runs \ {r} : sent'[s] = sent[s]
    BY ONLY <2>2, <2>3, r \in Runs
  <2>5. /\ talk' \in [Runs -> Talk] /\ \A s \in Runs \ {r} : talk'[s] = talk[s]
        /\ talk'[r].known = talk[r].known /\ talk'[r].queue = talk[r].queue
        /\ talk'[r].active = talk[r].active /\ talk'[r].phase = "asked"
    BY <1>3, MovesTalk DEF TalkInv, Phases2
  <2>6. OthersTalk(r)
    BY <1>1, <2>4, <2>5 DEF OthersTalk
  <2>7. ~talk[r].active /\ remaining(r) = <<>> /\ (protocol # "messages" => past[r] = c)
    BY <1>1, <2>1, BusyFacts DEF Busy, Phases2
  <2> QED BY <1>1, <2>4, <2>5, <2>6, <2>7, Proceeds
<1> QED BY <1>1, <1>2, <1>3

(* An answer that is not JSON leaves the conversation as it was.          *)
LEMMA malformedTalk ==
  ASSUME TalkInv, NEW r \in Runs, talk[r].phase = "asked", malformed(r), recordKept
  PROVE  TalkInv'
<1>1. CASE ends(r)
  BY <1>1, EndsTalk
<1>2. CASE talk' = [talk EXCEPT ![r].phase = "malformed", ![r].request = {}, ![r].replay = TRUE]
  <2>1. PICK u, t : u = talk[r]
                    /\ t = [u EXCEPT !.phase = "malformed", !.request = {}, !.replay = TRUE]
    OBVIOUS
  <2>2. talk \in [Runs -> Talk] /\ u \in Talk
    BY <2>1 DEF TalkInv, TalkType
  <2>3. /\ t \in Talk /\ t.known = u.known /\ t.queue = u.queue /\ t.active = u.active
        /\ t.phase = "malformed"
    BY <2>1, <2>2 DEF Talk, Phases2
  <2>4. talk' = [talk EXCEPT ![r] = t]
    BY ONLY <1>2, <2>1, <2>2, r \in Runs
  <2>5. ~talk[r].active
    BY BusyFacts DEF Busy, Phases2
  <2> QED BY <2>1, <2>3, <2>4, <2>5, NotesTalk
<1> QED BY <1>1, <1>2 DEF malformed

(* A request that failed leaves the conversation as it was.               *)
LEMMA onRequestFailureTalk ==
  ASSUME TalkInv, NEW r \in Runs, onRequestFailure(r) PROVE TalkInv'
<1>1. talk[r].phase = "asked" /\ recordKept /\ (malformed(r) \/ ends(r))
  BY DEF onRequestFailure
<1> QED BY <1>1, malformedTalk, EndsTalk

(* The calls of an answer are numbered in a list that is not empty.         *)
LEMMA BatchType ==
  ASSUME NEW from \in Int, NEW calls \in Batches(from)
  PROVE  calls \in Seq(Call) /\ calls # <<>> /\ Batch(calls) \in Message
<1>1. PICK n \in 1..MaxBatch : \E s \in [1..n -> Shapes] :
        calls = [i \in 1..n |-> [id |-> from + i, kind |-> s[i].kind, json |-> s[i].json]]
  BY DEF Batches
<1>0. PICK s \in [1..n -> Shapes] :
        calls = [i \in 1..n |-> [id |-> from + i, kind |-> s[i].kind, json |-> s[i].json]]
  BY <1>1
<1>2. n \in Nat /\ n > 0
  BY ModelTurnAssumption
<1>3. \A i \in 1..n : from + i \in Int /\ s[i] \in [kind: Tools, json: BOOLEAN]
  BY ModelTurnAssumption, <1>2
<1>4. calls \in [1..n -> Call]
  BY <1>0, <1>3 DEF Call
<1>5. calls \in Seq(Call) /\ Len(calls) = n
  BY <1>2, <1>4, ListLength
<1>6. calls # <<>>
  BY <1>2, <1>5
<1>7. Batch(calls) \in Message
  BY <1>5 DEF Batch, Message
<1> QED BY <1>5, <1>6, <1>7

(* The continuation of an answer ends with it.                              *)
LEMMA ContinuationTurn ==
  ASSUME TalkInv, NEW r \in Runs, NEW calls \in Seq(Call), calls # <<>>,
         Batch(calls) \in Message, protocol = "responses" => Len(calls) = 1
  PROVE  continuation(r, calls) \in Turn /\ NextTurn(r, continuation(r, calls))
<1>1. protocol \in {"responses", "chat", "messages"}
  BY ModelTurnAssumption DEF TalkInv, TalkType
<1>2. PICK b, c : b = Batch(calls) /\ c = context(r)
  OBVIOUS
<1>3. b \in Message /\ c \in Seq(Message)
  BY <1>2, ContextType DEF TalkInv
<1>4. PICK p : p = IF protocol = "messages" THEN <<b>> ELSE Append(c, b)
  OBVIOUS
<1>5. p \in Seq(Message) /\ p # <<>> /\ p[Len(p)] = b
  <2>1. CASE protocol = "messages"
    <3>1. p = <<b>>
      BY <1>4, <2>1
    <3> QED BY ONLY <1>3, <3>1
  <2>2. CASE protocol # "messages"
    <3>1. p = Append(c, b)
      BY <1>4, <2>2
    <3>2. PICK n : n = Len(c)
      OBVIOUS
    <3>3. p \in Seq(Message) /\ Len(p) = n + 1 /\ p[n + 1] = b /\ n \in Nat
      BY <1>3, <3>1, <3>2, AppendProperties, LenProperties
    <3>4. p # <<>>
      BY <3>3
    <3> QED BY <3>3, <3>4
  <2> QED BY <2>1, <2>2
<1>6. continuation(r, calls) = [known |-> p, queue |-> calls]
  BY <1>1, <1>2, <1>4
     DEF continuation, parseChatCompletion, parseMessagesResponse, parseResponse
<1>7. PICK turn : turn = [known |-> p, queue |-> calls]
  OBVIOUS
<1>8. turn \in Turn /\ turn.known = p /\ turn.queue = calls
  BY <1>5, <1>7 DEF Turn
<1>9. NextTurn(r, turn)
  BY <1>2, <1>4, <1>5, <1>8 DEF NextTurn
<1> QED BY <1>6, <1>7, <1>8, <1>9

(* A new answer continues the conversation.                               *)
LEMMA onUsageTalk ==
  ASSUME TalkInv, NEW r \in Runs, onUsage(r) PROVE TalkInv'
<1>1. talk[r].phase = "asked" /\ recordKept
      /\ \/ ends(r) \/ malformed(r)
         \/ \E calls \in Batches(talk[r].answers * MaxBatch) :
              /\ protocol = "responses" => Len(calls) = 1
              /\ talk' = [talk EXCEPT
                   ![r].phase = "returned", ![r].request = {}, ![r].replay = FALSE,
                   ![r].turn = continuation(r, calls), ![r].answers = @ + 1]
  BY DEF onUsage
<1>2. ASSUME NEW calls \in Batches(talk[r].answers * MaxBatch),
             protocol = "responses" => Len(calls) = 1, 
             talk' = [talk EXCEPT
                   ![r].phase = "returned", ![r].request = {}, ![r].replay = FALSE,
                   ![r].turn = continuation(r, calls), ![r].answers = @ + 1]
      PROVE  TalkInv'
  <2>1. PICK u, turn, t : /\ u = talk[r] /\ turn = continuation(r, calls)
                          /\ t = [u EXCEPT !.phase = "returned", !.request = {},
                               !.replay = FALSE, !.turn = turn, !.answers = @ + 1]
    OBVIOUS
  <2>2. talk \in [Runs -> Talk] /\ u \in Talk
    BY <2>1 DEF TalkInv, TalkType
  <2>3. talk[r].answers * MaxBatch \in Int
    <3>1. PICK n : n = talk[r].answers
      OBVIOUS
    <3>2. n \in Int /\ MaxBatch \in Int
      BY <2>1, <2>2, <3>1, ModelTurnAssumption DEF Talk
    <3>3. n * MaxBatch \in Int
      BY ONLY <3>2
    <3> QED BY <3>1, <3>3
  <2>4. calls \in Seq(Call) /\ calls # <<>> /\ Batch(calls) \in Message
    BY <2>3, BatchType
  <2>5. turn \in Turn /\ NextTurn(r, turn)
    BY <1>2, <2>1, <2>4, ContinuationTurn
  <2>6. /\ t \in Talk /\ t.known = u.known /\ t.queue = u.queue /\ t.active = u.active
        /\ t.phase = "returned" /\ t.turn = turn
    <3>1. PICK n : n = u.answers + 1
      OBVIOUS
    <3>2. n \in Int
      <4>1. u.answers \in Int
        BY <2>2 DEF Talk
      <4> QED BY <3>1, <4>1
    <3>3. t = [u EXCEPT !.phase = "returned", !.request = {},
                        !.replay = FALSE, !.turn = turn, !.answers = n]
      BY <2>1, <3>1
    <3> QED BY ONLY <2>2, <2>5, <3>2, <3>3 DEF Talk, Phases2, Turn
  <2>7. talk' = [talk EXCEPT ![r] = t]
    <3>1. talk' = [talk EXCEPT
                   ![r].phase = "returned", ![r].request = {}, ![r].replay = FALSE,
                   ![r].turn = turn, ![r].answers = @ + 1]
      BY <1>2, <2>1
    <3> QED BY ONLY <2>1, <2>2, <3>1, r \in Runs
  <2>8. talk' \in [Runs -> Talk] /\ talk'[r] = t /\ \A s \in Runs \ {r} : talk'[s] = talk[s]
    BY <2>6, <2>7, WriteOne DEF TalkInv
  <2>9. sent' \in [Runs -> Seq(Message)] /\ past' = past /\ protocol' = protocol /\ OthersTalk(r)
    BY <1>1, <2>8 DEF recordKept, TalkInv, TalkType, OthersTalk
  <2>10. ~talk[r].active
    BY <1>1, BusyFacts DEF Busy, Phases2
  <2> QED BY <2>1, <2>5, <2>6, <2>8, <2>9, <2>10, Proceeds
<1> QED BY <1>1, <1>2, EndsTalk, malformedTalk

(* The two counts are stored while no call is outstanding.                *)
LEMMA retryTalk ==
  ASSUME TalkInv, NEW r \in Runs, onBeforeModelRetry(r) \/ replay(r) \/ recordToolCall(r)
  PROVE  TalkInv'
<1>1. CASE onBeforeModelRetry(r)
  <2>1. talk[r].phase = "malformed" /\ recordKept /\ (moves(r, "retrying") \/ ends(r))
    BY <1>1 DEF onBeforeModelRetry
  <2>2. ~talk[r].active /\ "retrying" \in Phases2 \ {"reserving", "asked"}
    BY <2>1, BusyFacts DEF Busy, Phases2
  <2> QED BY <2>1, <2>2, EndsTalk, MovesOn
<1>2. CASE replay(r)
  <2>1. recordKept /\ (moves(r, "ready") \/ ends(r))
    BY <1>2 DEF replay
  <2>2. "ready" \in Phases2 \ {"reserving", "asked"} /\ "ready" \notin Busy
    BY DEF Busy, Phases2
  <2> QED BY <2>1, <2>2, EndsTalk, MovesOn
<1>3. CASE recordToolCall(r)
  <2>1. talk[r].phase = "returned" /\ recordKept /\ moves(r, "counting")
    BY <1>3 DEF recordToolCall
  <2>2. ~talk[r].active /\ "counting" \in Phases2 \ {"reserving", "asked"}
    BY <2>1, BusyFacts DEF Busy, Phases2
  <2> QED BY <2>1, <2>2, MovesOn
<1> QED BY <1>1, <1>2, <1>3

(* The turn is stored: its call is outstanding, and what is stored ends     *)
(* with the answer it belongs to.                                           *)
LEMMA storeTurnTalk ==
  ASSUME TalkInv, NEW r \in Runs, talk[r].phase \in {"returned", "counting"}, storeTurn(r)
  PROVE  TalkInv'
<1>1. PICK u, turn, last : u = talk[r] /\ turn = u.turn /\ last = turn.known[Len(turn.known)]
  OBVIOUS
<1>2. /\ u \in Talk /\ talk \in [Runs -> Talk] /\ past \in [Runs -> Seq(Message)]
      /\ sent' = sent /\ protocol' = protocol /\ sent \in [Runs -> Seq(Message)]
      /\ protocol \in Protocols
  BY <1>1 DEF TalkInv, TalkType, storeTurn
<1>3. turn \in Turn /\ NextTurn(r, turn) /\ ~u.active
  BY <1>1, <1>2, BusyFacts DEF Talk, Turn, Busy, Phases2
<1>4. last \in Message /\ turn.known \in Seq(Message) /\ turn.queue \in Seq(Call)
      /\ turn.queue # <<>>
  <2>1. turn.known \in Seq(Message) /\ turn.known # <<>> /\ turn.queue \in Seq(Call)
        /\ turn.queue # <<>>
    BY <1>3 DEF Turn, NextTurn
  <2>2. Len(turn.known) \in 1..Len(turn.known)
    <3>1. PICK n : n = Len(turn.known)
      OBVIOUS
    <3>2. n \in Nat /\ n # 0
      BY <2>1, <3>1, EmptySeq, LenProperties
    <3>3. n \in 1..n
      BY ONLY <3>2
    <3> QED BY <3>1, <3>3
  <2> QED BY <1>1, <2>1, <2>2, ElementOfSeq
<1>5. PICK t, p : /\ t = [u EXCEPT !.phase = "ready", !.turn = NoTurn, !.active = TRUE,
                       !.known = turn.known, !.queue = turn.queue,
                       !.told = @ \cup u.staged, !.staged = {}]
                  /\ p = IF last.type = "tool" THEN past[r] ELSE Append(past[r], last)
  OBVIOUS
<1>6. /\ t \in Talk /\ t.known = turn.known /\ t.queue = turn.queue /\ t.active
      /\ t.phase = "ready"
  <2>1. PICK none, told : none = NoTurn /\ told = u.told \cup u.staged
    OBVIOUS
  <2>2. none \in Turn /\ told \in SUBSET Int
    BY <1>2, <2>1, NoTurnType DEF Talk
  <2>3. t = [u EXCEPT !.phase = "ready", !.turn = none, !.active = TRUE,
                       !.known = turn.known, !.queue = turn.queue,
                       !.told = told, !.staged = {}]
    BY <1>5, <2>1
  <2> QED BY ONLY <1>2, <1>4, <2>2, <2>3 DEF Talk, Turn, Phases2
<1>7. talk' = [talk EXCEPT ![r] = t]
  BY <1>1, <1>2, <1>5 DEF storeTurn
<1>8. past' = [past EXCEPT ![r] = p]
  BY <1>1, <1>2, <1>5 DEF storeTurn
<1>9. talk' \in [Runs -> Talk] /\ talk'[r] = t /\ \A s \in Runs \ {r} : talk'[s] = talk[s]
  BY <1>6, <1>7, WriteOne DEF TalkInv
<1>10. p \in Seq(Message)
  BY <1>2, <1>4, <1>5, AppendProperties
<1>11. past' \in [Runs -> Seq(Message)] /\ past'[r] = p /\ \A s \in Runs \ {r} : past'[s] = past[s]
  BY ONLY <1>2, <1>8, <1>10, r \in Runs
<1>12. TalkType' /\ OthersTalk(r)
  BY <1>2, <1>9, <1>11 DEF TalkType, OthersTalk
<1>13. /\ validatePersistedChatQueue(p, turn.queue)
       /\ protocol # "messages" => p = turn.known
  <2>1. TalkType /\ Stored(r) /\ (protocol # "messages" => past[r] = context(r))
        /\ past[r] \in Seq(Message)
    BY <1>1, <1>2, <1>3, BusyFacts DEF TalkInv
  <2>2. CASE u.queue # <<>> /\ turn.known = context(r) /\ turn.queue = remaining(r)
    <3>1. last.type = "tool" /\ remaining(r) = Tail(u.queue)
      BY <1>1, <2>1, <2>2, ContextType
    <3>2. p = past[r]
      BY <1>5, <3>1
    <3>3. validatePersistedChatQueue(past[r], Tail(u.queue))
      BY <1>1, <1>3, <2>1, <2>2 DEF Stored, Unanswered
    <3> QED BY <2>1, <2>2, <3>1, <3>2, <3>3
  <2>3. CASE /\ turn.known[Len(turn.known)] = Batch(turn.queue)
             /\ protocol # "messages" => turn.known = Append(context(r), Batch(turn.queue))
    <3>1. last = Batch(turn.queue) /\ last.type = "assistant"
      BY <1>1, <2>3 DEF Batch
    <3>2. p = Append(past[r], Batch(turn.queue))
      BY <1>5, <3>1
    <3>3. validatePersistedChatQueue(p, turn.queue)
      BY <1>4, <2>1, <3>2, ValidBatch
    <3> QED BY <2>1, <2>3, <3>2, <3>3
  <2> QED BY <1>1, <1>3, <2>2, <2>3 DEF NextTurn
<1>14. Position(r)'
  <2>1. protocol = "responses" => Len(turn.queue) <= 1
    <3>1. PICK n : n = Len(turn.queue)
      OBVIOUS
    <3>2. n = 1 => n <= 1
      OBVIOUS
    <3> QED BY <1>3, <3>1, <3>2 DEF NextTurn
  <2> QED BY <1>2, <1>4, <1>6, <1>9, <2>1 DEF Position
<1>15. Stored(r)' /\ Kept(r)' /\ Returned(r)'
  BY <1>2, <1>4, <1>6, <1>9, <1>11, <1>13 DEF Stored, Unanswered, Kept, Returned
<1> QED BY <1>2, <1>12, <1>14, <1>15, OneRun

(* A turn is stored when it was counted, a question at once.              *)
LEMMA storesTalk ==
  ASSUME TalkInv, NEW r \in Runs, storeCall(r) \/ storeQuestion(r) PROVE TalkInv'
<1>1. CASE storeCall(r)
  <2>1. talk[r].phase = "counting" /\ (storeTurn(r) \/ (ends(r) /\ recordKept))
    BY <1>1 DEF storeCall
  <2> QED BY <2>1, storeTurnTalk, EndsTalk
<1>2. CASE storeQuestion(r)
  BY <1>2, storeTurnTalk DEF storeQuestion
<1> QED BY <1>1, <1>2

(* A result is stored behind the call it belongs to.                        *)
LEMMA resultStoredTalk ==
  ASSUME TalkInv, NEW r \in Runs, resultStored(r) PROVE TalkInv'
<1>1. PICK u, m : u = talk[r] /\ m = Result(Head(u.queue))
  OBVIOUS
<1>2. /\ u \in Talk /\ talk \in [Runs -> Talk] /\ past \in [Runs -> Seq(Message)]
      /\ sent' = sent /\ protocol' = protocol /\ sent \in [Runs -> Seq(Message)]
      /\ protocol \in Protocols /\ u.phase = "ready" /\ u.active
      /\ talk' = [talk EXCEPT ![r].active = FALSE] /\ past' = [past EXCEPT ![r] = Append(@, m)]
  BY <1>1 DEF TalkInv, TalkType, resultStored
<1>3. Position(r) /\ Stored(r) /\ Kept(r)
  BY DEF TalkInv
<1>4. u.queue # <<>> /\ u.queue \in Seq(Call)
  BY <1>1, <1>2, <1>3 DEF Position, Talk
<1>5. m \in Message /\ Head(u.queue) \in Call
  BY <1>1, <1>4, HeadTailProperties, ResultType
<1>6. PICK t, p, o : /\ t = [u EXCEPT !.active = FALSE] /\ o = past[r] /\ p = Append(o, m)
  OBVIOUS
<1>7. /\ t \in Talk /\ t.known = u.known /\ t.queue = u.queue /\ ~t.active
      /\ t.phase = "ready"
  BY ONLY <1>2, <1>6 DEF Talk
<1>8. talk' = [talk EXCEPT ![r] = t] /\ past' = [past EXCEPT ![r] = p]
  BY ONLY <1>1, <1>2, <1>6, r \in Runs
<1>9. talk' \in [Runs -> Talk] /\ talk'[r] = t /\ \A s \in Runs \ {r} : talk'[s] = talk[s]
  BY <1>7, <1>8, WriteOne DEF TalkInv
<1>10. o \in Seq(Message) /\ p \in Seq(Message)
  BY <1>2, <1>5, <1>6, AppendProperties
<1>11. past' \in [Runs -> Seq(Message)] /\ past'[r] = p /\ \A s \in Runs \ {r} : past'[s] = past[s]
  BY ONLY <1>2, <1>8, <1>10, r \in Runs
<1>12. TalkType' /\ OthersTalk(r)
  BY <1>2, <1>9, <1>11 DEF TalkType, OthersTalk
<1>13. validatePersistedChatQueue(o, u.queue)
  BY <1>1, <1>2, <1>3, <1>4, <1>6 DEF Stored, Unanswered
<1>14. validatePersistedChatQueue(p, Tail(u.queue))
  BY <1>1, <1>4, <1>6, <1>10, <1>13, ValidResult
<1>15. context(r)' = Append(u.known, m)
  BY <1>1, <1>4, <1>7, <1>9 DEF context, appendToolResult
<1>16. protocol # "messages" => o = u.known
  BY <1>1, <1>2, <1>3, <1>6 DEF Kept
<1>17. Position(r)'
  BY <1>1, <1>2, <1>3, <1>7, <1>9 DEF Position
<1>18. Stored(r)'
  BY <1>4, <1>7, <1>9, <1>11, <1>14 DEF Stored, Unanswered
<1>19. Kept(r)' /\ Returned(r)'
  BY <1>2, <1>6, <1>7, <1>9, <1>11, <1>15, <1>16 DEF Kept, Returned
<1> QED BY <1>2, <1>12, <1>17, <1>18, <1>19, OneRun

(* A crash forgets the turn, not the conversation.                        *)
LEMMA driverDiesTalk ==
  ASSUME TalkInv, NEW r \in Runs, driverDies(r) PROVE TalkInv'
<1>1. PICK turn : turn = NoTurn
  OBVIOUS
<1>2. turn \in Turn /\ UNCHANGED <<past, sent, protocol>>
      /\ talk' = [talk EXCEPT ![r].phase = "off", ![r].request = {}, ![r].replay = FALSE,
                              ![r].turn = turn]
  BY <1>1, NoTurnType DEF driverDies
<1>3. /\ talk' \in [Runs -> Talk] /\ \A s \in Runs \ {r} : talk'[s] = talk[s]
      /\ talk'[r].known = talk[r].known /\ talk'[r].queue = talk[r].queue
      /\ talk'[r].active = talk[r].active /\ talk'[r].phase = "off"
  BY <1>2, WritesTalk DEF TalkInv, Phases2
<1>4. sent' \in [Runs -> Seq(Message)] /\ past' = past /\ protocol' = protocol /\ OthersTalk(r)
  BY <1>2, <1>3 DEF TalkInv, TalkType, OthersTalk
<1> QED BY <1>3, <1>4, Proceeds DEF Busy

-----------------------------------------------------------------------------
(* The invariant of the conversation.                                       *)
LEMMA TalkInitial == TurnInit => TalkInv
<1> SUFFICES ASSUME TurnInit PROVE TalkInv
  OBVIOUS
<1>1. <<>> \in Seq(Message) /\ <<>> \in Seq(Call)
  BY EmptySeq
<1>2. PICK none, f : none = NoTurn /\ f = Fresh
  OBVIOUS
<1>3. none \in Turn
  BY <1>2, NoTurnType
<1>4. f = [phase |-> "off", request |-> {}, replay |-> FALSE, turn |-> none,
          known |-> <<>>, queue |-> <<>>, active |-> FALSE, waiting |-> FALSE,
          answers |-> 0, staged |-> {}, told |-> {}]
  BY <1>2 DEF Fresh
<1>5. f \in Talk /\ f.phase = "off" /\ f.queue = <<>> /\ ~f.active
  BY <1>1, <1>3, <1>4 DEF Talk, Turn, Phases2
<1>6. TalkType
  BY <1>1, <1>2, <1>5 DEF TurnInit, TalkType
<1>7. ASSUME NEW r \in Runs PROVE Position(r) /\ Stored(r) /\ Kept(r) /\ Returned(r)
  <2>1. talk[r] = f /\ past[r] = <<>>
    BY <1>2 DEF TurnInit
  <2>2. Len(<<>>) <= 1
    OBVIOUS
  <2> QED BY <1>5, <2>1, <2>2 DEF Position, Stored, Kept, Returned, context, remaining
<1> QED BY <1>6, <1>7 DEF TalkInv

(* Each step keeps the invariant.                                         *)
LEMMA TalkNext ==
  ASSUME TalkInv, [TurnNext]_allVars PROVE TalkInv'
<1>1. CASE UNCHANGED allVars
  BY <1>1, StaysTalk DEF allVars, turnVars
<1>2. ASSUME NEW r \in Runs,
        \/ budgetOnly(r) \/ drive(r) \/ leave(r) \/ fail(r) \/ driverDies(r)
        \/ stageSteering(r) \/ nextQueued(r) \/ ask(r)
        \/ onRequestStart(r) \/ create(r) \/ onRequestFailure(r) \/ onUsage(r)
        \/ onBeforeModelRetry(r) \/ replay(r)
        \/ recordToolCall(r) \/ storeCall(r) \/ storeQuestion(r) \/ resultStored(r)
      PROVE  TalkInv'
  BY <1>2, driveTalk, driverDiesTalk, stageSteeringTalk, nextQueuedTalk, askTalk,
     onRequestStartTalk, createTalk, onRequestFailureTalk, onUsageTalk, retryTalk, storesTalk,
     resultStoredTalk
<1> QED BY <1>1, <1>2 DEF TurnNext

(* It holds in every behaviour.                                           *)
LEMMA TalkInvariance == TurnSpec => []TalkInv
BY TalkInitial, TalkNext, PTL DEF TurnSpec

(* The driver's loop, with its crashes, failures and replays, uses the      *)
(* budget in no other way than RunBudget allows: a turn of the model        *)
(* refines it.                                                              *)
THEOREM TurnsSpendByTheBudget == TurnSpec => Spec
<1>1. TurnInit => Init
  BY DEF TurnInit
<1>2. TalkInv => TalkType
  BY DEF TalkInv
<1> QED BY <1>1, <1>2, TurnStep, TalkInvariance, PTL DEF TurnSpec, Spec

(* The drivers are granted no more tool calls and replays than the limits.  *)
THEOREM TurnsWithinLimit == TurnSpec => []GrantedWithinLimit
BY TurnsSpendByTheBudget, NeverOverLimit, PTL

(* Nor is a request of theirs charged twice, or left uncharged while its    *)
(* Run is open.                                                             *)
THEOREM TurnsAreChargedOnce == TurnSpec => []ChargedOnce
BY TurnsSpendByTheBudget, RequestsAreChargedOnce, PTL

(* In the protocols that keep the conversation, a request carries all of    *)
(* it, through batches, replays and crashes of the driver.                  *)
THEOREM ConversationIsKept == TurnSpec => []ConversationKept
<1>1. TalkInv => ConversationKept
  BY DEF TalkInv, Kept, ConversationKept
<1> QED BY <1>1, TalkInvariance, PTL

(* A provider is asked again only when each call of its last answer has its *)
(* result, in order.                                                        *)
THEOREM AskedWithResults == TurnSpec => []AskedWithEveryResult
<1> SUFFICES TalkInv => AskedWithEveryResult
  BY TalkInvariance, PTL
<1> SUFFICES ASSUME TalkInv, NEW r \in Runs, talk[r].phase = "asked", past[r] # <<>>
             PROVE  validatePersistedChatQueue(past[r], <<>>)
  BY DEF AskedWithEveryResult
<1>1. Stored(r) /\ ~talk[r].active /\ remaining(r) = <<>>
  BY BusyFacts DEF TalkInv, Busy, Phases2
<1> QED BY <1>1 DEF Stored, Unanswered, remaining

=============================================================================
