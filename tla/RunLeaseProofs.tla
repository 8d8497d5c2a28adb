--------------------------- MODULE RunLeaseProofs ---------------------------
(***************************************************************************)
(* Proofs about RunLease for any number of processes and tasks, any skew,  *)
(* any lease length and any bound.                                         *)
(***************************************************************************)
EXTENDS RunLease, TLAPS

(* The inductive invariant: no token is ahead of the row, and no two tasks  *)
(* were ever given the same generation.                                     *)
TokensIssued == \A t \in Tasks : token[t] <= generation

TokensDiffer ==
    \A t, u \in Tasks : token[t] # 0 /\ token[t] = token[u] => t = u

IInv == TypeOK /\ TokensIssued /\ TokensDiffer

-----------------------------------------------------------------------------
(* The invariant holds at the start.                                        *)
LEMMA InitIInv == Init => IInv
BY RunLeaseAssumption DEF Init, IInv, TypeOK, TokensIssued, TokensDiffer

(* A prolonged lease is well typed, whatever the skew.                      *)
LEMMA SetLeaseUntilType ==
  ASSUME TypeOK, SetLeaseUntil
  PROVE  lease_until' \in Int /\ expired' \in BOOLEAN
<1>1. PICK s \in Skews : /\ lease_until' = clock + LeaseMilliseconds + s
                         /\ expired' = FALSE
  BY DEF SetLeaseUntil
<1>2. s \in Int /\ clock \in Int /\ LeaseMilliseconds \in Int
  BY RunLeaseAssumption DEF TypeOK
<1>3. lease_until' \in Int
  BY <1>1, <1>2
<1>4. expired' \in BOOLEAN
  BY <1>1
<1> QED BY <1>3, <1>4

(* Every statement preserves it: acquire hands out a generation that no     *)
(* task holds yet, the others hand out none.                                *)
LEMMA NextIInv == IInv /\ [Next]_vars => IInv'
<1> SUFFICES ASSUME IInv, [Next]_vars PROVE IInv'
  OBVIOUS
<1> USE RunLeaseAssumption DEF IInv, TypeOK, TokensIssued, TokensDiffer
<1>1. ASSUME NEW t \in Tasks, acquire(t) PROVE IInv'
  <2>1. lease_until' \in Int /\ expired' \in BOOLEAN
    BY <1>1, SetLeaseUntilType DEF acquire
  <2>2. \A u \in Tasks : token'[u] = IF u = t THEN generation + 1 ELSE token[u]
    BY <1>1 DEF acquire
  <2>3. TypeOK'
    BY <1>1, <2>1 DEF acquire
  <2>4. TokensIssued' /\ TokensDiffer'
    BY <1>1, <2>2 DEF acquire
  <2> QED BY <2>3, <2>4
<1>2. ASSUME NEW t \in Tasks, renew(t) \/ heartbeatRenew(t) PROVE IInv'
  <2>1. lease_until' \in Int /\ expired' \in BOOLEAN
    BY <1>2, SetLeaseUntilType DEF renew, heartbeatRenew
  <2> QED BY <1>2, <2>1 DEF renew, heartbeatRenew
<1>3. ASSUME NEW t \in Tasks, release(t) PROVE IInv'
  <2>1. \A u \in Tasks : token'[u] = IF u = t THEN 0 ELSE token[u]
    BY <1>3 DEF release
  <2>2. TypeOK'
    BY <1>3 DEF release
  <2>3. TokensIssued' /\ TokensDiffer'
    BY <1>3, <2>1 DEF release
  <2> QED BY <2>2, <2>3
<1>4. ASSUME NEW t \in Tasks, invalidate(t) PROVE IInv'
  BY <1>4 DEF invalidate
<1>5. ASSUME NEW w \in Workers, crash(w) PROVE IInv'
  <2>1. \A u \in Tasks : token'[u] = IF WorkerOf[u] = w THEN 0 ELSE token[u]
    BY <1>5 DEF crash
  <2>2. TypeOK'
    BY <1>5 DEF crash
  <2>3. TokensIssued' /\ TokensDiffer'
    BY <1>5, <2>1 DEF crash
  <2> QED BY <2>2, <2>3
<1>6. CASE tick
  BY <1>6 DEF tick
<1>7. CASE UNCHANGED vars
  BY <1>7 DEF vars
<1> QED BY <1>1, <1>2, <1>3, <1>4, <1>5, <1>6, <1>7 DEF Next

(* The invariant always holds.                                              *)
LEMMA Invariance == Spec => []IInv
BY InitIInv, NextIInv, PTL DEF Spec

(* Every variable keeps its type.                                           *)
THEOREM TypeCorrect == Spec => []TypeOK
BY Invariance, PTL DEF IInv

(* Two tasks that both match hold the same generation, hence are one.       *)
LEMMA OneMatch == IInv => OneAcceptedToken
BY DEF IInv, TokensDiffer, OneAcceptedToken, Matches

(* renewLease accepts the token of at most one task at any time.            *)
THEOREM AtMostOneDriver == Spec => []OneAcceptedToken
BY Invariance, OneMatch, PTL

-----------------------------------------------------------------------------
(* A superseded token is refused for ever: generations only grow, and the   *)
(* one a token carries was already issued.                                  *)
THEOREM SupersededForGood == Spec => StaleStaysStale
<1>1. IInv /\ [Next]_vars =>
        [\A t \in Tasks : token[t] # 0 /\ token'[t] = token[t] /\ ~Matches(t)
                            => ~Matches(t)']_vars
  <2> SUFFICES ASSUME IInv, Next, NEW t \in Tasks,
                      token[t] # 0, token'[t] = token[t], ~Matches(t)
               PROVE  ~Matches(t)'
    OBVIOUS
  <2> USE RunLeaseAssumption DEF IInv, TypeOK, TokensIssued, Matches
  <2>1. ASSUME NEW u \in Tasks, acquire(u) PROVE ~Matches(t)'
    BY <2>1 DEF acquire
  <2>2. ASSUME NEW u \in Tasks, renew(u) \/ heartbeatRenew(u) \/ release(u)
        PROVE ~Matches(t)'
    BY <2>2 DEF renew, heartbeatRenew, release
  <2>3. ASSUME NEW u \in Tasks, invalidate(u) PROVE ~Matches(t)'
    BY <2>3 DEF invalidate
  <2>4. ASSUME NEW w \in Workers, crash(w) PROVE ~Matches(t)'
    BY <2>4 DEF crash
  <2>5. CASE tick
    BY <2>5 DEF tick
  <2> QED BY <2>1, <2>2, <2>3, <2>4, <2>5 DEF Next
<1> QED BY <1>1, Invariance, PTL DEF Spec, StaleStaysStale

-----------------------------------------------------------------------------
(* Which task the refinement mapping names.                                 *)
LEMMA HolderMatches ==
  ASSUME IInv, NEW t \in Tasks, Matches(t)
  PROVE  Holder = t
BY OneMatch DEF OneAcceptedToken, Holder

(* Without a matching token nobody is the holder.                           *)
LEMMA HolderNone ==
  ASSUME \A t \in Tasks : ~Matches(t)
  PROVE  Holder = NoTask
BY DEF Holder

(* A step that changes no row and no token moves the fence only by letting  *)
(* the lease lapse.                                                         *)
LEMMA HolderSame ==
  ASSUME UNCHANGED <<owner_id, generation, token>>
  PROVE  Holder' = Holder
BY DEF Holder, Matches

(* The SQL statements refine LeaseFence: acquire is its Acquire, the two    *)
(* renewals its Renew, release and invalidate their namesakes; a crash      *)
(* drops tokens and the clock lets the lease expire.                        *)
THEOREM LeaseIsFence == Spec => ImplementsFence
<1>1. Init => Fence!FenceInit
  <2> SUFFICES ASSUME Init PROVE Fence!FenceInit
    OBVIOUS
  <2>1. \A t \in Tasks : ~Matches(t)
    BY DEF Init, Matches
  <2> QED BY <2>1, HolderNone DEF Init, Fence!FenceInit, Lapsed
<1>2. ASSUME IInv, IInv', [Next]_vars
      PROVE  [Fence!FenceNext]_(Fence!fenceVars)
  <2> USE RunLeaseAssumption
  <2>0. (~Lapsed)' \in BOOLEAN
    BY DEF Lapsed
  <2>9. OneAcceptedToken'
    BY <1>2, OneMatch, PTL
  <2>10. \A t \in Tasks : Matches(t)' => Holder' = t
    BY <2>9 DEF OneAcceptedToken, Holder
  <2>1. ASSUME NEW t \in Tasks, acquire(t) PROVE Fence!Acquire(t)
    <3>1. Matches(t)'
      BY <1>2, <2>1 DEF acquire, Matches, IInv, TypeOK
    <3>2. Holder' = t
      BY <2>10, <3>1
    <3> QED BY <2>0, <2>1, <3>2
            DEF acquire, Fence!Acquire, Fence!Acquirable
  <2>2. ASSUME NEW t \in Tasks, renew(t) \/ heartbeatRenew(t)
        PROVE  Fence!Renew(WorkerOf[t])
    <3>1. Holder' = Holder /\ owner_id = WorkerOf[t] /\ owner_id' = owner_id
      BY <2>2, HolderSame DEF renew, heartbeatRenew, Matches
    <3> QED BY <2>0, <3>1 DEF Fence!Renew
  <2>3. ASSUME NEW t \in Tasks, release(t) PROVE Fence!Release(t)
    <3>1. (~Lapsed)' = IF owner_id = WorkerOf[t] THEN FALSE ELSE ~Lapsed
      BY <2>3 DEF release, Lapsed
    <3>2. \A u \in Tasks : Matches(u)' <=> u # t /\ Matches(u)
      BY <1>2, <2>3 DEF release, Matches, IInv, TypeOK
    <3>3. Holder' = IF Holder = t THEN NoTask ELSE Holder
      <4>1. CASE \E u \in Tasks : u # t /\ Matches(u)
        <5>1. PICK u \in Tasks : u # t /\ Matches(u)
          BY <4>1
        <5>2. Holder = u
          BY <1>2, <5>1, HolderMatches
        <5>3. Matches(u)'
          BY <3>2, <5>1
        <5>4. Holder' = u
          BY <2>10, <5>3
        <5> QED BY <5>1, <5>2, <5>4
      <4>2. CASE \A u \in Tasks : Matches(u) => u = t
        <5>1. \A u \in Tasks : ~Matches(u)'
          BY <3>2, <4>2
        <5>2. Holder' = NoTask
          BY <5>1 DEF Holder
        <5>3. Holder \in {t, NoTask}
          BY <4>2 DEF Holder
        <5> QED BY <5>2, <5>3
      <4> QED BY <4>1, <4>2
    <3> QED BY <2>3, <3>1, <3>3 DEF release, Fence!Release, Fence!Forget
  <2>4. ASSUME NEW t \in Tasks, invalidate(t) PROVE Fence!Invalidate(WorkerOf[t])
    <3>1. \A u \in Tasks : ~Matches(u)'
      BY <1>2, <2>4 DEF invalidate, Matches, IInv, TypeOK, TokensIssued
    <3>2. Holder' = NoTask
      BY <3>1 DEF Holder
    <3> QED BY <2>4, <3>2 DEF invalidate, Fence!Invalidate, Lapsed
  <2>5. ASSUME NEW w \in Workers, crash(w)
        PROVE  Fence!Drop({t \in Tasks : WorkerOf[t] = w})
    <3> DEFINE dead == {t \in Tasks : WorkerOf[t] = w}
    <3>1. \A u \in Tasks : Matches(u)' <=> u \notin dead /\ Matches(u)
      BY <1>2, <2>5 DEF crash, Matches, IInv, TypeOK
    <3>2. Holder' = IF Holder \in dead THEN NoTask ELSE Holder
      <4>1. CASE \E u \in Tasks : u \notin dead /\ Matches(u)
        <5>1. PICK u \in Tasks : u \notin dead /\ Matches(u)
          BY <4>1
        <5>2. Holder = u
          BY <1>2, <5>1, HolderMatches
        <5>3. Matches(u)'
          BY <3>1, <5>1
        <5>4. Holder' = u
          BY <2>10, <5>3
        <5> QED BY <5>1, <5>2, <5>4
      <4>2. CASE \A u \in Tasks : Matches(u) => u \in dead
        <5>1. \A u \in Tasks : ~Matches(u)'
          BY <3>1, <4>2
        <5>2. Holder' = NoTask
          BY <5>1 DEF Holder
        <5>3. Holder \in dead \cup {NoTask}
          BY <4>2 DEF Holder
        <5> QED BY <5>2, <5>3
      <4> QED BY <4>1, <4>2
    <3>3. (~Lapsed)' = (~Lapsed) /\ owner_id' = owner_id
      BY <2>5 DEF crash, Lapsed
    <3> QED BY <3>2, <3>3 DEF Fence!Drop, Fence!Forget
  <2>6. CASE tick
    <3>1. Holder' = Holder /\ owner_id' = owner_id
      BY <2>6, HolderSame DEF tick
    <3>2. Lapsed => Lapsed'
      BY <1>2, <2>6 DEF tick, Lapsed, IInv, TypeOK
    <3>3. CASE Lapsed' = Lapsed
      BY <3>1, <3>3 DEF Fence!fenceVars
    <3>4. CASE Lapsed' # Lapsed
      BY <3>1, <3>2, <3>4 DEF Fence!FenceNext, Fence!Expire, Lapsed
    <3> QED BY <3>3, <3>4
  <2>7. CASE UNCHANGED vars
    BY <2>7, HolderSame DEF vars, Fence!fenceVars, Lapsed
  <2>8. \A w \in Workers : {t \in Tasks : WorkerOf[t] = w} \in SUBSET Tasks
    OBVIOUS
  <2> QED BY <1>2, <2>1, <2>2, <2>3, <2>4, <2>5, <2>6, <2>7, <2>8
          DEF Next, Fence!FenceNext
<1> QED BY <1>1, <1>2, Invariance, PTL DEF Spec, ImplementsFence, Fence!FenceSpec
=============================================================================
