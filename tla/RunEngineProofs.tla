--------------------------- MODULE RunEngineProofs ---------------------------
(***************************************************************************)
(* Proofs about RunEngine for any number of processes and tasks, any       *)
(* commands and tool calls, and any bounds: the types of the variables,    *)
(* that a tool call's side effect happens at most once and only as it was  *)
(* approved, that the results the model reads are true, that a waiting Run *)
(* can be answered, that a finished Run stays finished and a pending call  *)
(* is consumed once, and that the engine uses its lease as LeaseFence      *)
(* allows and implements RunLifecycle.  The last two parts carry this over *)
(* to the processes of WorkerRecovery, and prove that scans go on there.   *)
(***************************************************************************)
EXTENDS WorkerRecovery, SequenceTheorems, TLAPS

(* The point a task is at, looking through the write in progress.           *)
Awaiting(t) == IF pc[t] \in {"renew", "save", "close"} THEN next[t] ELSE pc[t]

OnCall == {"authorize", "decide", "rejected", "approved", "prerenew",
           "perform_with", "claim", "perform", "performing", "complete"}

(* A pending call is one the model made, and not a question.                *)
PendingIsTool(s) ==
    s.call # 0 => s.call <= Len(calls) /\ calls[s.call].tool \in Tools

CallInv ==
    /\ PendingIsTool(run)
    /\ \A t \in Tasks : PendingIsTool(snap[t])
    /\ \A t \in Tasks : Awaiting(t) \in OnCall => snap[t].call # 0
    /\ \A t \in Tasks : pc[t] = "decide" => Direct(t)

(* Between its claim and its completion a call belongs to one task.         *)
Performing == {"perform", "performing", "complete"}

EffectInv ==
    /\ \A c \in Calls : Len(effects[c]) <= 1
    /\ \A c \in Calls : ledger[c].state = "none" => effects[c] = <<>>
    /\ \A t \in Tasks :
         pc[t] \in Performing => ledger[snap[t].call].state = "executing"
    /\ \A t \in Tasks : pc[t] = "perform" => effects[snap[t].call] = <<>>
    /\ \A t, u \in Tasks :
         /\ pc[t] \in Performing /\ pc[u] \in Performing
         /\ snap[t].call = snap[u].call
         => t = u

TaskInv == TaskTypeOK /\ CallInv /\ EffectInv

(* The inductive invariant.                                                 *)
IInv == FenceTypeOK /\ RowTypeOK /\ WorldTypeOK /\ TaskInv

-----------------------------------------------------------------------------
(* Writing to fields of a snapshot gives a snapshot.                        *)

LEMMA SnapshotStatus ==
  ASSUME NEW s \in Snapshots, NEW st \in Statuses
  PROVE  /\ [s EXCEPT !.status = st] \in Snapshots
         /\ [s EXCEPT !.status = st].call = s.call
BY DEF Snapshots

(* Storing a question keeps a snapshot well-formed.                         *)
LEMMA SnapshotQuestion ==
  ASSUME NEW s \in Snapshots, NEW c \in Calls
  PROVE  /\ [s EXCEPT !.question = c] \in Snapshots
         /\ [s EXCEPT !.question = c].call = s.call
<1>1. c \in 0..MaxCalls
  BY RunEngineAssumption DEF Calls
<1> QED BY <1>1 DEF Snapshots

(* Storing a pending call keeps a snapshot well-formed.                     *)
LEMMA SnapshotCall ==
  ASSUME NEW s \in Snapshots, NEW c \in Calls
  PROVE  /\ [s EXCEPT !.call = c] \in Snapshots
         /\ [s EXCEPT !.call = c].call = c
<1>1. c \in 0..MaxCalls
  BY RunEngineAssumption DEF Calls
<1> QED BY <1>1 DEF Snapshots

(* The marker of a started call keeps a snapshot well-formed.               *)
LEMMA SnapshotStarted ==
  ASSUME NEW s \in Snapshots, NEW c \in Calls
  PROVE  /\ [s EXCEPT !.started = @ \cup {c}] \in Snapshots
         /\ [s EXCEPT !.started = @ \cup {c}].call = s.call
BY DEF Snapshots

(* A result appended to a snapshot's results keeps their type.              *)
LEMMA SnapshotPush ==
  ASSUME NEW s \in Snapshots, NEW c \in Calls, NEW o \in Outcomes
  PROVE  Append(s.results, [id |-> c, outcome |-> o])
           \in Seq([id: Calls, outcome: Outcomes])
BY DEF Snapshots

(* Result consumes the pending call.                                        *)
LEMMA ResultType ==
  ASSUME snap \in [Tasks -> Snapshots], NEW t \in Tasks, snap[t].call # 0,
         NEW o \in Outcomes
  PROVE  Result(t, o) \in Snapshots /\ Result(t, o).call = 0
<1>1. snap[t] \in Snapshots
  OBVIOUS
<1>2. snap[t].call \in Calls
  BY <1>1, RunEngineAssumption DEF Snapshots, Calls
<1>3. Append(snap[t].results, [id |-> snap[t].call, outcome |-> o])
        \in Seq([id: Calls, outcome: Outcomes])
  BY <1>1, <1>2, SnapshotPush
<1>4. 0 \in 0..MaxCalls
  BY RunEngineAssumption
<1> QED BY <1>1, <1>3, <1>4 DEF Result, Snapshots

(* Executed is a Result that also removes the started marker.               *)
LEMMA ExecutedType ==
  ASSUME snap \in [Tasks -> Snapshots], NEW t \in Tasks, snap[t].call # 0
  PROVE  Executed(t) \in Snapshots /\ Executed(t).call = 0
<1> Result(t, "executed") \in Snapshots /\ Result(t, "executed").call = 0
  BY ResultType DEF Outcomes
<1> QED BY DEF Executed, Snapshots

(* With changes the status and nothing else.                                *)
LEMMA WithType ==
  ASSUME snap \in [Tasks -> Snapshots], NEW t \in Tasks, NEW st \in Statuses
  PROVE  With(t, st) \in Snapshots /\ With(t, st).call = snap[t].call
BY SnapshotStatus DEF With

-----------------------------------------------------------------------------
(* The four ways a task moves on: Goto, PersistOr, Enter and Reset.  Each   *)
(* preserves the invariant about tasks when it leads to a point that does   *)
(* not perform.                                                             *)

Frozen == UNCHANGED <<run, calls, ledger, effects>>

(* A move to a point that does not perform keeps the task invariant.        *)
LEMMA GotoInv ==
  ASSUME TaskInv, NEW t \in Tasks, NEW p \in Points \ (Performing \cup {"decide"}),
         p \in OnCall => snap[t].call # 0,
         p \in {"renew", "save", "close"} => Awaiting(t) = next[t],
         Goto(t, p), Frozen
  PROVE  TaskInv'
<1> USE DEF TaskInv, Goto, Frozen
<1>1. TaskTypeOK'
  BY DEF TaskTypeOK
<1>2. \A u \in Tasks : pc'[u] = IF u = t THEN p ELSE pc[u]
  BY DEF TaskTypeOK
<1>3. CallInv'
  BY <1>2 DEF CallInv, PendingIsTool, Awaiting, Direct
<1>4. EffectInv'
  BY <1>2 DEF EffectInv, Performing
<1> QED BY <1>1, <1>3, <1>4

(* The model answered, or nothing happened to the numbering of calls.       *)
Grows == /\ UNCHANGED <<run, ledger, effects>>
         /\ calls' = calls \/ \E turn \in Turns : calls' = Append(calls, turn)

(* A pending call stays a tool call when the provider numbers another       *)
(* turn.                                                                    *)
LEMMA CallsGrow ==
  ASSUME calls \in Seq(Turns), Grows, NEW s \in Snapshots, PendingIsTool(s)
  PROVE  s.call # 0 => s.call <= Len(calls') /\ calls'[s.call].tool \in Tools
<1> SUFFICES ASSUME s.call # 0
             PROVE  s.call <= Len(calls') /\ calls'[s.call].tool \in Tools
  OBVIOUS
<1>1. s.call \in 1..Len(calls) /\ calls[s.call].tool \in Tools
  BY RunEngineAssumption DEF PendingIsTool, Snapshots
<1>2. CASE calls' = calls
  BY <1>1, <1>2
<1>3. ASSUME NEW turn \in Turns, calls' = Append(calls, turn)
      PROVE  s.call <= Len(calls') /\ calls'[s.call].tool \in Tools
  BY <1>1, <1>3
<1> QED BY <1>2, <1>3 DEF Grows

(* Beginning a write of s keeps the task invariant.                         *)
LEMMA PersistOrInv ==
  ASSUME TaskInv, run \in Snapshots, calls \in Seq(Turns), NEW t \in Tasks, NEW s \in Snapshots, PendingIsTool(s),
         NEW n \in Continuations, n \in OnCall => s.call # 0,
         NEW f \in Retreats,
         PersistOr(t, s, n, f), Grows,
         kind' = kind, inDrive' \in [Tasks -> BOOLEAN],
         entry' \in [Tasks -> 0..MaxEntries], lost' = lost
  PROVE  TaskInv'
<1> USE DEF TaskInv, PersistOr
<1>1. TaskTypeOK'
  BY DEF TaskTypeOK, Points
<1>2. /\ \A u \in Tasks : pc'[u] = IF u = t THEN "renew" ELSE pc[u]
      /\ \A u \in Tasks : snap'[u] = IF u = t THEN s ELSE snap[u]
      /\ \A u \in Tasks : next'[u] = IF u = t THEN n ELSE next[u]
  BY DEF TaskTypeOK
<1>3. CallInv'
  <2> DEFINE Later(x) == x.call # 0 =>
                            x.call <= Len(calls') /\ calls'[x.call].tool \in Tools
  <2>1. \A x \in Snapshots : PendingIsTool(x) => Later(x)
    BY CallsGrow
  <2> HIDE DEF Later
  <2>2. Later(run) /\ Later(s) /\ \A u \in Tasks : Later(snap[u])
    BY <2>1 DEF CallInv, TaskTypeOK
  <2>3. PendingIsTool(run)' /\ \A u \in Tasks : PendingIsTool(snap[u])'
    BY <1>2, <2>2 DEF Later, PendingIsTool, Grows
  <2>4. /\ \A u \in Tasks : Awaiting(u)' \in OnCall => snap'[u].call # 0
        /\ \A u \in Tasks : pc'[u] = "decide" => Direct(u)'
    BY <1>2 DEF CallInv, Awaiting, Direct
  <2> QED BY <2>3, <2>4 DEF CallInv
<1>4. EffectInv'
  BY <1>2 DEF EffectInv, Performing, Grows
<1> QED BY <1>1, <1>3, <1>4

(* Persist with the frame its callers give it.                              *)
LEMMA PersistInv ==
  ASSUME TaskInv, run \in Snapshots, calls \in Seq(Turns), NEW t \in Tasks, NEW s \in Snapshots, PendingIsTool(s),
         NEW n \in Continuations, n \in OnCall => s.call # 0,
         Persist(t, s, n), Grows, UNCHANGED <<kind, inDrive, entry, lost>>
  PROVE  TaskInv'
<1>1. inDrive' \in [Tasks -> BOOLEAN] /\ entry' \in [Tasks -> 0..MaxEntries]
  BY DEF TaskInv, TaskTypeOK
<1>2. "release" \in Retreats
  BY DEF Retreats
<1> QED BY <1>1, <1>2, PersistOrInv DEF Persist

(* Going on with the loaded snapshot keeps the task invariant.              *)
LEMMA EnterInv ==
  ASSUME TaskInv, run \in Snapshots, NEW t \in Tasks,
         NEW p \in {"release", "loop", "decide"},
         p = "decide" => run.call # 0 /\ Direct(t),
         Enter(t, p), Frozen, UNCHANGED <<kind, inDrive, entry, lost>>
  PROVE  TaskInv'
<1> USE DEF TaskInv, Enter, Frozen
<1>1. TaskTypeOK'
  BY DEF TaskTypeOK, Points
<1>2. /\ \A u \in Tasks : pc'[u] = IF u = t THEN p ELSE pc[u]
      /\ \A u \in Tasks : snap'[u] = IF u = t THEN run ELSE snap[u]
  BY DEF TaskTypeOK
<1>3. CallInv'
  BY <1>2 DEF CallInv, PendingIsTool, Awaiting, Direct, OnCall
<1>4. EffectInv'
  BY <1>2 DEF EffectInv, Performing
<1> QED BY <1>1, <1>3, <1>4

(* The snapshot of an idle task is well-formed and has no call.             *)
LEMMA NoRunType == NoRun \in Snapshots /\ NoRun.call = 0
<1>1. 0 \in 0..MaxCalls
  BY RunEngineAssumption
<1>2. <<>> \in Seq([id: Calls, outcome: Outcomes])
  OBVIOUS
<1> QED BY <1>1, <1>2 DEF NoRun, Snapshots

(* Ending calls keeps the task invariant.                                   *)
LEMMA ResetInv ==
  ASSUME TaskInv, NEW ts, Reset(ts), Frozen
  PROVE  TaskInv'
<1> USE DEF TaskInv, Reset, Frozen
<1>1. TaskTypeOK'
  <2>1. 0 \in 0..MaxEntries
    BY RunEngineAssumption
  <2> QED BY <2>1, NoRunType DEF TaskTypeOK, Points, Kinds, Continuations, Retreats
<1>2. /\ \A u \in Tasks : pc'[u] = IF u \in ts THEN "idle" ELSE pc[u]
      /\ \A u \in Tasks : snap'[u] = IF u \in ts THEN NoRun ELSE snap[u]
      /\ \A u \in Tasks : next'[u] = IF u \in ts THEN "idle" ELSE next[u]
      /\ \A u \in Tasks : kind'[u] = IF u \in ts THEN "none" ELSE kind[u]
  OBVIOUS
<1>3. CallInv'
  BY <1>2, NoRunType DEF CallInv, PendingIsTool, Awaiting, Direct, OnCall
<1>4. EffectInv'
  BY <1>2 DEF EffectInv, Performing
<1> QED BY <1>1, <1>3, <1>4

(* An error that leaves drive keeps the task invariant.                     *)
LEMMA DriveErrorInv ==
  ASSUME TaskInv, run \in Snapshots, calls \in Seq(Turns),
         current \subseteq Tasks, outer \subseteq Tasks,
         NEW t \in Tasks, DriveError(t), Frozen
  PROVE  TaskInv' /\ current' \subseteq Tasks /\ outer' \subseteq Tasks
<1>1. CASE kind[t] = "answer"
  <2>1. Goto(t, "release") /\ UNCHANGED <<current, outer>>
    BY <1>1 DEF DriveError
  <2>2. "release" \in Points \ (Performing \cup {"decide"}) /\ "release" \notin OnCall
    BY DEF Points, Performing, OnCall
  <2>3. TaskInv'
    BY <2>1, <2>2, GotoInv
  <2> QED BY <2>1, <2>3
<1>2. CASE kind[t] # "answer"
  <2> DEFINE s == [run EXCEPT !.status = "failed"]
  <2>1. /\ Persist(t, s, "release")
        /\ current' = IF t \in outer THEN current \cup {t} ELSE current \ {t}
        /\ inDrive' = [inDrive EXCEPT ![t] = FALSE]
        /\ UNCHANGED <<outer, kind, entry, lost>>
    BY <1>2 DEF DriveError
  <2>2. s \in Snapshots /\ s.call = run.call
    BY SnapshotStatus DEF Statuses, Terminal
  <2>3. PendingIsTool(s)
    BY <2>2 DEF TaskInv, CallInv, PendingIsTool
  <2>4. inDrive' \in [Tasks -> BOOLEAN] /\ entry' \in [Tasks -> 0..MaxEntries]
    BY <2>1 DEF TaskInv, TaskTypeOK
  <2>5. "release" \in Retreats /\ "release" \in Continuations /\ "release" \notin OnCall
    BY DEF Retreats, Continuations, OnCall
  <2> HIDE DEF s
  <2>6. TaskInv'
    BY <2>1, <2>2, <2>3, <2>4, <2>5, PersistOrInv DEF Persist, Frozen, Grows
  <2> QED BY <2>1, <2>6
<1> QED BY <1>1, <1>2

(* A failing performWith keeps the task invariant.                          *)
LEMMA PerformErrorInv ==
  ASSUME TaskInv, run \in Snapshots, calls \in Seq(Turns),
         NEW t \in Tasks, PerformError(t), Frozen
  PROVE  TaskInv'
<1>1. CASE Direct(t)
  <2>1. Goto(t, "release")
    BY <1>1 DEF PerformError
  <2>2. "release" \in Points \ (Performing \cup {"decide"}) /\ "release" \notin OnCall
    BY DEF Points, Performing, OnCall
  <2> QED BY <2>1, <2>2, GotoInv
<1>2. CASE ~Direct(t)
  <2> DEFINE s == With(t, "environment_offline")
  <2>1. /\ PersistOr(t, s, "dispose", "dispose")
        /\ UNCHANGED <<kind, inDrive, entry, lost>>
    BY <1>2 DEF PerformError
  <2>2. s \in Snapshots /\ s.call = snap[t].call
    BY WithType DEF TaskInv, TaskTypeOK, Statuses, Startable
  <2>3. PendingIsTool(s)
    BY <2>2 DEF TaskInv, CallInv, PendingIsTool
  <2>4. inDrive' \in [Tasks -> BOOLEAN] /\ entry' \in [Tasks -> 0..MaxEntries]
    BY <2>1 DEF TaskInv, TaskTypeOK
  <2>5. "dispose" \in Retreats /\ "dispose" \in Continuations /\ "dispose" \notin OnCall
    BY DEF Retreats, Continuations, OnCall
  <2> HIDE DEF s
  <2> QED BY <2>1, <2>2, <2>3, <2>4, <2>5, PersistOrInv DEF Frozen, Grows
<1> QED BY <1>1, <1>2

-----------------------------------------------------------------------------
(* What a step leaves alone keeps its type.                                 *)

USE DEF leaseVars, storeVars, ledgerVars, worldVars, handleVars, taskVars, countVars

(* The lease row keeps its type when nothing writes it.                     *)
LEMMA FenceStays == FenceTypeOK /\ UNCHANGED leaseVars => FenceTypeOK'
BY DEF FenceTypeOK

(* The Run row and its ledgers keep their types when nothing writes them.   *)
LEMMA RowStays == RowTypeOK /\ UNCHANGED <<storeVars, ledgerVars>> => RowTypeOK'
BY DEF RowTypeOK

(* Handles and counters keep their types; a failure is counted.             *)
LEMMA WorldStays ==
  ASSUME WorldTypeOK, UNCHANGED <<worldVars, handleVars, crashes, expiries>>,
         failures' = failures \/ MayFail
  PROVE  WorldTypeOK'
BY DEF WorldTypeOK, MayFail

(* A task runs in a process, whose registered handle is an entry or none.   *)
LEMMA HandleType ==
  ASSUME WorldTypeOK, NEW t \in Tasks
  PROVE  W(t) \in Workers /\ Handle(t) \in 0..MaxEntries
BY LeaseFenceAssumption DEF WorldTypeOK, W, Handle

(* Giving up a handle keeps the types of the world.                         *)
LEMMA ReleaseHandleType ==
  ASSUME WorldTypeOK, NEW t \in Tasks, ReleaseHandle(t),
         UNCHANGED <<worldVars, aborted, notices, crashes, expiries>>,
         failures' = failures \/ MayFail
  PROVE  WorldTypeOK'
<1>1. 0 \in 0..MaxEntries
  BY RunEngineAssumption
<1> QED BY <1>1, HandleType DEF WorldTypeOK, MayFail, ReleaseHandle

-----------------------------------------------------------------------------
(* Every action preserves the invariant.                                    *)

(* Entry points.                                                            *)
LEMMA startStep == ASSUME IInv, NEW t \in Tasks, start(t) PROVE IInv'
<1> USE DEF IInv, start, Begin
<1>1. FenceTypeOK' /\ WorldTypeOK'
  BY FenceStays, WorldStays
<1>2. RowTypeOK'
  BY DEF RowTypeOK
<1>3. TaskInv'
  <2> DEFINE s == [NoRun EXCEPT !.status = "queued"]
  <2>1. s \in Snapshots /\ s.call = 0
    BY NoRunType, SnapshotStatus DEF Statuses, Startable
  <2> HIDE DEF s
  <2>2. TaskTypeOK'
    BY <2>1 DEF TaskInv, TaskTypeOK, Points, Kinds, Continuations, s
  <2>3. /\ \A u \in Tasks : pc'[u] = IF u = t THEN "save" ELSE pc[u]
        /\ \A u \in Tasks : snap'[u] = IF u = t THEN s ELSE snap[u]
        /\ \A u \in Tasks : next'[u] = IF u = t THEN "acquire" ELSE next[u]
        /\ \A u \in Tasks : kind'[u] = IF u = t THEN "start" ELSE kind[u]
    BY DEF TaskInv, TaskTypeOK, s
  <2>4. CallInv'
    <3>1. UNCHANGED <<run, calls>>
      OBVIOUS
    <3>2. ASSUME NEW u \in Tasks PROVE PendingIsTool(snap[u])'
      <4>1. CASE u = t
        <5>1. snap'[u].call = 0
          BY <2>1, <2>3, <4>1
        <5> QED BY <5>1 DEF PendingIsTool
      <4>2. CASE u # t
        BY <2>3, <3>1, <4>2 DEF TaskInv, CallInv, PendingIsTool
      <4> QED BY <4>1, <4>2
    <3>3. \A u \in Tasks : Awaiting(u)' \in OnCall => snap'[u].call # 0
      BY <2>3 DEF TaskInv, CallInv, Awaiting, OnCall
    <3>4. \A u \in Tasks : pc'[u] = "decide" => Direct(u)'
      BY <2>3 DEF TaskInv, CallInv, Direct
    <3> QED BY <3>1, <3>2, <3>3, <3>4 DEF TaskInv, CallInv, PendingIsTool
  <2>5. EffectInv'
    BY <2>3 DEF TaskInv, EffectInv, Performing
  <2> QED BY <2>2, <2>4, <2>5 DEF TaskInv
<1> QED BY <1>1, <1>2, <1>3

(* Ending calls removes tasks from current and outer only.                  *)
LEMMA ResetRows ==
  ASSUME RowTypeOK, NEW ts, Reset(ts), UNCHANGED <<run, ledgerVars>>
  PROVE  RowTypeOK'
BY DEF RowTypeOK, Reset

(* start: the queued snapshot cannot be stored.                             *)
LEMMA startFailsStep == ASSUME IInv, NEW t \in Tasks, startFails(t) PROVE IInv'
<1> USE DEF IInv, startFails
<1>1. FenceTypeOK' /\ WorldTypeOK'
  BY FenceStays, WorldStays
<1>2. RowTypeOK'
  BY DEF RowTypeOK, Reset
<1>3. TaskInv'
  BY ResetInv DEF Frozen
<1> QED BY <1>1, <1>2, <1>3

(* recoverExpired and command only begin a call.                            *)
LEMMA BeginInv ==
  ASSUME TaskInv, NEW t \in Tasks, NEW k \in Kinds, Begin(t, k, "acquire"), Frozen,
         UNCHANGED <<snap, next, fail, inDrive, entry, lost>>
  PROVE  TaskInv'
<1> USE DEF TaskInv, Begin, Frozen
<1>1. TaskTypeOK'
  BY DEF TaskTypeOK, Points
<1>2. /\ \A u \in Tasks : pc'[u] = IF u = t THEN "acquire" ELSE pc[u]
      /\ \A u \in Tasks : kind'[u] = IF u = t THEN k ELSE kind[u]
  BY DEF TaskTypeOK
<1>3. CallInv'
  BY <1>2 DEF CallInv, PendingIsTool, Awaiting, Direct, OnCall
<1>4. EffectInv'
  BY <1>2 DEF EffectInv, Performing
<1> QED BY <1>1, <1>3, <1>4

(* The recovery scan hands a Run to a task.                                 *)
LEMMA recoverExpiredStep ==
  ASSUME IInv, NEW t \in Tasks, recoverExpired(t) PROVE IInv'
<1> USE DEF IInv, recoverExpired
<1>1. FenceTypeOK' /\ RowTypeOK' /\ WorldTypeOK'
  BY FenceStays, RowStays, WorldStays
<1>2. TaskInv'
  BY BeginInv DEF Frozen, Kinds
<1> QED BY <1>1, <1>2

(* A user command begins.                                                   *)
LEMMA commandStep ==
  ASSUME IInv, NEW t \in Tasks, NEW k \in Commands, command(t, k) PROVE IInv'
<1> USE DEF IInv, command
<1>1. FenceTypeOK' /\ RowTypeOK' /\ WorldTypeOK'
  BY FenceStays, RowStays, WorldStays
<1>2. k \in Kinds
  BY RunEngineAssumption DEF Kinds, ApprovalKinds, Allow, Deny
<1>3. TaskInv'
  BY <1>2, BeginInv DEF Frozen
<1> QED BY <1>1, <1>3

(* The lease is taken: only the token moves.                                *)
LEMMA acquireLeaseStep ==
  ASSUME IInv, NEW t \in Tasks, acquireLease(t) PROVE IInv'
<1> USE DEF IInv, acquireLease
<1>1. FenceTypeOK'
  BY LeaseFenceAssumption DEF FenceTypeOK, Acquire
<1>2. RowTypeOK' /\ WorldTypeOK'
  BY RowStays, WorldStays
<1>3. TaskInv'
  BY GotoInv DEF Frozen, Points, Performing, OnCall
<1> QED BY <1>1, <1>2, <1>3

(* The lease is held: the call ends.                                        *)
LEMMA leaseHeldStep == ASSUME IInv, NEW t \in Tasks, leaseHeld(t) PROVE IInv'
<1> USE DEF IInv, leaseHeld
<1>1. FenceTypeOK' /\ RowTypeOK' /\ WorldTypeOK'
  BY FenceStays, ResetRows, WorldStays
<1>2. TaskInv'
  BY ResetInv DEF Frozen
<1> QED BY <1>1, <1>2

(* The lease is released and the call ends.                                 *)
LEMMA releaseLeaseStep ==
  ASSUME IInv, NEW t \in Tasks, releaseLease(t) PROVE IInv'
<1> USE DEF IInv, releaseLease
<1>1. FenceTypeOK'
  BY DEF FenceTypeOK, Release, Forget
<1>2. RowTypeOK' /\ WorldTypeOK'
  BY ResetRows, WorldStays
<1>3. TaskInv'
  BY ResetInv DEF Frozen
<1> QED BY <1>1, <1>2, <1>3

(* Writes.                                                                  *)
LEMMA renewLeaseFence ==
  ASSUME FenceTypeOK, NEW t \in Tasks, NEW ok, NEW ko, renewLease(t, ok, ko)
  PROVE  FenceTypeOK' /\ (Goto(t, ok) \/ Goto(t, ko))
BY DEF FenceTypeOK, renewLease

(* A write renews the lease, or retreats.                                   *)
LEMMA renewStep == ASSUME IInv, NEW t \in Tasks, renew(t) PROVE IInv'
<1> USE DEF IInv, renew
<1>1. FenceTypeOK' /\ (Goto(t, "save") \/ Goto(t, fail[t]))
  BY renewLeaseFence
<1>2. RowTypeOK' /\ WorldTypeOK'
  BY RowStays, WorldStays
<1>3. fail[t] \in Retreats
  BY DEF TaskInv, TaskTypeOK
<1>4. TaskInv'
  BY <1>1, <1>3, GotoInv DEF Frozen, Points, Performing, OnCall, Retreats, Awaiting
<1> QED BY <1>1, <1>2, <1>4

(* The compare-and-swap: the row becomes the snapshot of a current task.    *)
LEMMA saveStep == ASSUME IInv, NEW t \in Tasks, save(t) PROVE IInv'
<1> USE DEF IInv, save
<1>1. FenceTypeOK' /\ WorldTypeOK'
  BY FenceStays, WorldStays
<1>2. RowTypeOK'
  BY DEF RowTypeOK, TaskInv, TaskTypeOK
<1>3. TaskInv'
  <2> DEFINE p == IF snap[t].status \in Terminal THEN "close" ELSE next[t]
  <2>1. next[t] \in Continuations
    BY DEF TaskInv, TaskTypeOK
  <2>2. p \in Points /\ p \notin Performing /\ p # "decide"
    BY <2>1 DEF Points, Waits, Continuations, Performing
  <2>3. TaskTypeOK'
    BY <2>2 DEF Goto, TaskInv, TaskTypeOK
  <2>4. \A u \in Tasks : pc'[u] = IF u = t THEN p ELSE pc[u]
    BY DEF Goto, TaskInv, TaskTypeOK
  <2>5. p = next[t] \/ p = "close"
    OBVIOUS
  <2> HIDE DEF p
  <2>6. CallInv'
    BY <2>2, <2>4, <2>5 DEF Goto, TaskInv, CallInv, PendingIsTool, Awaiting, Direct
  <2>7. EffectInv'
    BY <2>2, <2>4 DEF Goto, TaskInv, EffectInv, Performing
  <2> QED BY <2>3, <2>6, <2>7 DEF TaskInv
<1> QED BY <1>1, <1>2, <1>3

(* The compare-and-swap fails.                                              *)
LEMMA saveConflictStep ==
  ASSUME IInv, NEW t \in Tasks, saveConflict(t) PROVE IInv'
<1> USE DEF IInv, saveConflict
<1>1. FenceTypeOK' /\ RowTypeOK' /\ WorldTypeOK'
  BY FenceStays, RowStays, WorldStays
<1>2. fail[t] \in Retreats
  BY DEF TaskInv, TaskTypeOK
<1>3. TaskInv'
  BY <1>2, GotoInv DEF Frozen, Points, Performing, OnCall, Retreats
<1> QED BY <1>1, <1>3

(* The budget row of a terminal Run is closed.                              *)
LEMMA closeBudgetStep ==
  ASSUME IInv, NEW t \in Tasks, closeBudget(t) PROVE IInv'
<1> USE DEF IInv, closeBudget
<1>1. FenceTypeOK' /\ WorldTypeOK'
  BY FenceStays, WorldStays
<1>2. RowTypeOK'
  BY DEF RowTypeOK
<1>3. next[t] \in Continuations /\ (next[t] \in OnCall => snap[t].call # 0)
  BY DEF TaskInv, TaskTypeOK, CallInv, Awaiting
<1>4. next[t] \in Points \ (Performing \cup {"decide"})
  BY <1>3 DEF Points, Waits, Continuations, Performing
<1>5. TaskInv'
  BY <1>3, <1>4, GotoInv DEF Frozen, Continuations
<1> QED BY <1>1, <1>2, <1>5

(* What each call does with the snapshot it loads.                          *)
LEMMA LoadRows ==
  ASSUME RowTypeOK, NEW t \in Tasks, Load(t), UNCHANGED <<run, ledgerVars>>
  PROVE  RowTypeOK'
BY DEF RowTypeOK, Load

(* The row with another status is a snapshot, its call unchanged.           *)
LEMMA RunStatus ==
  ASSUME IInv, NEW st \in Statuses
  PROVE  /\ [run EXCEPT !.status = st] \in Snapshots
         /\ PendingIsTool([run EXCEPT !.status = st])
BY SnapshotStatus DEF IInv, RowTypeOK, TaskInv, CallInv, PendingIsTool

(* resume goes on from the row it read.                                     *)
LEMMA resumeStep == ASSUME IInv, NEW t \in Tasks, resume(t) PROVE IInv'
<1>1. FenceTypeOK' /\ RowTypeOK' /\ WorldTypeOK'
  BY FenceStays, LoadRows, WorldStays DEF IInv, resume, LoadFrame
<1> DEFINE s == [run EXCEPT !.status = "preparing"]
<1>2. s \in Snapshots /\ PendingIsTool(s)
  BY RunStatus DEF Statuses, Startable
<1> HIDE DEF s
<1>3. \/ Enter(t, "release") \/ Enter(t, "loop")
      \/ Persist(t, s, "prepare")
  BY DEF resume, s
<1>4. Frozen /\ Grows /\ UNCHANGED <<kind, inDrive, entry, lost>>
  BY DEF resume, LoadFrame, Frozen, Grows
<1>5. TaskInv'
  BY <1>2, <1>3, <1>4, EnterInv, PersistInv
     DEF IInv, RowTypeOK, WorldTypeOK, Continuations, OnCall
<1> QED BY <1>1, <1>5 DEF IInv

(* recoverEnvironment writes environment_offline.                           *)
LEMMA recoverEnvironmentStep ==
  ASSUME IInv, NEW t \in Tasks, recoverEnvironment(t) PROVE IInv'
<1>1. FenceTypeOK' /\ RowTypeOK' /\ WorldTypeOK'
  BY FenceStays, LoadRows, WorldStays DEF IInv, recoverEnvironment, LoadFrame
<1> DEFINE s == [run EXCEPT !.status = "environment_offline"]
<1>2. s \in Snapshots /\ PendingIsTool(s)
  BY RunStatus DEF Statuses, Startable
<1> HIDE DEF s
<1>3. \/ Enter(t, "release")
      \/ Persist(t, s, "dispose") \/ Persist(t, s, "release")
  BY DEF recoverEnvironment, s
<1>4. Frozen /\ Grows /\ UNCHANGED <<kind, inDrive, entry, lost>>
  BY DEF recoverEnvironment, LoadFrame, Frozen, Grows
<1>5. TaskInv'
  BY <1>2, <1>3, <1>4, EnterInv, PersistInv
     DEF IInv, RowTypeOK, WorldTypeOK, Continuations, OnCall
<1> QED BY <1>1, <1>5 DEF IInv

(* cancel aborts, notifies and writes cancelling.                           *)
LEMMA cancelStep == ASSUME IInv, NEW t \in Tasks, cancel(t) PROVE IInv'
<1>1. FenceTypeOK' /\ RowTypeOK'
  BY FenceStays, LoadRows DEF IInv, cancel
<1>2. WorldTypeOK'
  <2>1. Handle(t) \in 0..MaxEntries
    BY HandleType DEF IInv
  <2>2. aborted' \subseteq Entries
    BY <2>1, RunEngineAssumption DEF IInv, cancel, WorldTypeOK, Entries
  <2>3. {crashes, expiries, failures}' \subseteq Nat
    BY DEF IInv, cancel, WorldTypeOK, MayFail
  <2> QED BY <2>2, <2>3 DEF IInv, cancel, WorldTypeOK
<1> DEFINE s == [run EXCEPT !.status = "cancelling"]
<1>3. s \in Snapshots /\ PendingIsTool(s)
  BY RunStatus DEF Statuses
<1> HIDE DEF s
<1>4. Enter(t, "release") \/ Persist(t, s, "canceldispose")
  BY DEF cancel, s
<1>5. Frozen /\ Grows /\ UNCHANGED <<kind, inDrive, entry, lost>>
  BY DEF cancel, Frozen, Grows
<1>6. TaskInv'
  BY <1>3, <1>4, <1>5, EnterInv, PersistInv
     DEF IInv, RowTypeOK, WorldTypeOK, Continuations, OnCall
<1> QED BY <1>1, <1>2, <1>6 DEF IInv

(* answer turns the pending question into a result.                         *)
LEMMA answerStep == ASSUME IInv, NEW t \in Tasks, answer(t) PROVE IInv'
<1>1. FenceTypeOK' /\ RowTypeOK' /\ WorldTypeOK'
  BY FenceStays, LoadRows, WorldStays DEF IInv, answer, LoadFrame
<1>2. Frozen /\ Grows /\ UNCHANGED <<kind, inDrive, entry, lost>>
  BY DEF answer, LoadFrame, Frozen, Grows
<1>3. CASE ~(run.status = "waiting_user" /\ run.question # 0)
  <2>1. Enter(t, "release")
    BY <1>3 DEF answer
  <2> QED BY <1>1, <1>2, <2>1, EnterInv DEF IInv, RowTypeOK
<1>4. CASE run.status = "waiting_user" /\ run.question # 0
  <2> DEFINE s == [run EXCEPT
                !.status = IF Handle(t) # 0 THEN "running" ELSE "preparing",
                !.results = Append(@, [id |-> run.question, outcome |-> "answered"]),
                !.question = 0]
             n == IF Handle(t) # 0 THEN "loop" ELSE "prepare"
  <2>1. Persist(t, s, n)
    BY <1>4 DEF answer
  <2>2. run \in Snapshots
    BY DEF IInv, RowTypeOK
  <2>3. run.question \in Calls
    BY <1>4, <2>2, RunEngineAssumption DEF Snapshots, Calls
  <2>4. Append(run.results, [id |-> run.question, outcome |-> "answered"])
          \in Seq([id: Calls, outcome: Outcomes])
    BY <2>2, <2>3, SnapshotPush DEF Outcomes
  <2>5. 0 \in 0..MaxCalls
    BY RunEngineAssumption
  <2>6. s \in Snapshots /\ s.call = run.call
    BY <2>2, <2>4, <2>5 DEF Snapshots, Statuses, Startable
  <2>7. n \in Continuations /\ n \notin OnCall
    BY DEF Continuations, OnCall
  <2> HIDE DEF s, n
  <2>8. PendingIsTool(s)
    BY <2>6 DEF IInv, TaskInv, CallInv, PendingIsTool
  <2>9. TaskInv'
    BY <1>2, <2>1, <2>2, <2>6, <2>7, <2>8, PersistInv DEF IInv, WorldTypeOK
  <2> QED BY <1>1, <2>9 DEF IInv
<1> QED BY <1>3, <1>4

(* An approval command checks the pending approval.                         *)
LEMMA approvalStep == ASSUME IInv, NEW t \in Tasks, approval(t) PROVE IInv'
<1>1. FenceTypeOK' /\ RowTypeOK' /\ WorldTypeOK'
  BY FenceStays, LoadRows, WorldStays DEF IInv, approval, LoadFrame
<1>2. Frozen /\ UNCHANGED <<kind, inDrive, entry, lost>>
  BY DEF approval, LoadFrame, Frozen
<1>3. \/ Enter(t, "release")
      \/ Enter(t, "decide") /\ run.call # 0 /\ Direct(t)
  BY DEF approval, Direct
<1>4. TaskInv'
  BY <1>2, <1>3, EnterInv DEF IInv, RowTypeOK
<1> QED BY <1>1, <1>4 DEF IInv

(* The turn a pending call stands for.                                      *)
LEMMA TurnType ==
  ASSUME IInv, NEW t \in Tasks, snap[t].call # 0
  PROVE  /\ snap[t] \in Snapshots
         /\ snap[t].call \in Calls
         /\ Turn(t) \in Turns
         /\ Turn(t).tool \in Tools
<1>1. snap[t] \in Snapshots
  BY DEF IInv, TaskInv, TaskTypeOK
<1>2. snap[t].call \in Calls
  BY <1>1, RunEngineAssumption DEF Snapshots, Calls
<1>3. snap[t].call <= Len(calls) /\ Turn(t).tool \in Tools
  BY DEF IInv, TaskInv, CallInv, PendingIsTool, Turn
<1>4. Turn(t) \in Turns
  BY <1>2, <1>3, RunEngineAssumption DEF IInv, WorldTypeOK, Turn, Calls
<1> QED BY <1>1, <1>2, <1>3, <1>4

(* A decision is recorded; its grant names the tool of the pending call.    *)
LEMMA decideStep == ASSUME IInv, NEW t \in Tasks, decide(t) PROVE IInv'
<1>1. FenceTypeOK' /\ WorldTypeOK'
  BY FenceStays, WorldStays DEF IInv, decide
<1>2. Direct(t) /\ snap[t].call # 0
  BY DEF IInv, TaskInv, CallInv, Awaiting, OnCall, decide
<1>3. RowTypeOK'
  BY <1>2 DEF IInv, decide, RowTypeOK, Direct
<1>4. Frozen /\ Grows /\ UNCHANGED <<kind, inDrive, entry, lost>>
  BY DEF decide, Frozen, Grows
<1>5. CASE approvals[snap[t].call] \in {"pending", kind[t]}
  <2> DEFINE s == [snap[t] EXCEPT !.status = "running", !.approval = FALSE,
                                  !.grants = @ \cup Grant(t)]
             n == IF kind[t] \in Deny THEN "rejected" ELSE "approved"
  <2>1. Persist(t, s, n)
    BY <1>5 DEF decide
  <2>2. Grant(t) \subseteq Grants
    BY <1>2, TurnType DEF Grant, Grants
  <2>3. s \in Snapshots /\ s.call = snap[t].call
    BY <1>2, <2>2, TurnType DEF Snapshots, Statuses, Startable
  <2>4. n \in Continuations
    BY DEF Continuations
  <2> HIDE DEF s, n
  <2>5. PendingIsTool(s)
    BY <2>3 DEF IInv, TaskInv, CallInv, PendingIsTool
  <2>6. TaskInv'
    BY <1>2, <1>4, <2>1, <2>3, <2>4, <2>5, PersistInv DEF IInv, RowTypeOK, WorldTypeOK
  <2> QED BY <1>1, <1>3, <2>6 DEF IInv
<1>6. CASE approvals[snap[t].call] \notin {"pending", kind[t]}
  <2>1. Goto(t, "release")
    BY <1>6 DEF decide, Goto
  <2>2. TaskInv'
    BY <1>4, <2>1, GotoInv DEF IInv, Points, Performing, OnCall
  <2> QED BY <1>1, <1>3, <2>2 DEF IInv
<1> QED BY <1>5, <1>6

(* A rejected call is consumed by a denial.                                 *)
LEMMA rejectedStep == ASSUME IInv, NEW t \in Tasks, rejected(t) PROVE IInv'
<1>1. FenceTypeOK' /\ RowTypeOK' /\ WorldTypeOK'
  BY FenceStays, RowStays, WorldStays DEF IInv, rejected
<1>2. snap[t].call # 0
  BY DEF IInv, TaskInv, CallInv, Awaiting, OnCall, rejected
<1>3. Result(t, "denied") \in Snapshots /\ PendingIsTool(Result(t, "denied"))
  BY <1>2, ResultType DEF IInv, TaskInv, TaskTypeOK, Outcomes, PendingIsTool
<1>4. TaskInv'
  BY <1>3, PersistInv
     DEF IInv, rejected, RowTypeOK, WorldTypeOK, Grows, Continuations, OnCall
<1> QED BY <1>1, <1>4 DEF IInv

(* Steps that persist a change of status only.                              *)
LEMMA WithInv ==
  ASSUME IInv, NEW t \in Tasks, NEW st \in Statuses, NEW n \in Continuations,
         n \in OnCall => snap[t].call # 0,
         Persist(t, With(t, st), n), Grows, UNCHANGED <<kind, inDrive, entry, lost>>
  PROVE  TaskInv'
<1>1. With(t, st) \in Snapshots /\ With(t, st).call = snap[t].call
  BY WithType DEF IInv, TaskInv, TaskTypeOK
<1>2. PendingIsTool(With(t, st))
  BY <1>1 DEF IInv, TaskInv, CallInv, PendingIsTool
<1> QED BY <1>1, <1>2, PersistInv DEF IInv, RowTypeOK, WorldTypeOK

(* prepareAndRun.                                                           *)
LEMMA preparedStep == ASSUME IInv, NEW t \in Tasks, prepared(t) PROVE IInv'
<1>1. FenceTypeOK' /\ RowTypeOK'
  BY FenceStays, RowStays DEF IInv, prepared
<1>2. WorldTypeOK'
  <2>1. PICK e \in FreeEntries : /\ registry' = [registry EXCEPT ![W(t)] = e]
                                 /\ aborted' = aborted \ {e}
    BY DEF prepared
  <2>2. e \in 0..MaxEntries
    BY RunEngineAssumption DEF FreeEntries, Entries
  <2> QED BY <2>1, <2>2, HandleType DEF IInv, prepared, WorldTypeOK
<1>3. TaskInv'
  BY WithInv DEF prepared, Grows, Statuses, Startable, Continuations, OnCall
<1> QED BY <1>1, <1>2, <1>3 DEF IInv

(* prepare or verify returns after the lease was lost.                      *)
LEMMA waitLostStep == ASSUME IInv, NEW t \in Tasks, waitLost(t) PROVE IInv'
<1>1. FenceTypeOK' /\ RowTypeOK' /\ WorldTypeOK'
  BY FenceStays, RowStays, WorldStays DEF IInv, waitLost
<1>2. TaskInv'
  BY GotoInv DEF IInv, waitLost, Frozen, Points, Performing, OnCall
<1> QED BY <1>1, <1>2 DEF IInv

(* prepare fails.                                                           *)
LEMMA prepareFailsStep == ASSUME IInv, NEW t \in Tasks, prepareFails(t) PROVE IInv'
<1>1. FenceTypeOK' /\ RowTypeOK' /\ WorldTypeOK'
  BY FenceStays, RowStays, WorldStays DEF IInv, prepareFails
<1>2. CASE kind[t] = "answer"
  BY <1>1, <1>2, GotoInv
     DEF IInv, prepareFails, Frozen, Points, Performing, OnCall
<1>3. CASE kind[t] # "answer"
  BY <1>1, <1>3, WithInv
     DEF IInv, prepareFails, Grows, Statuses, Startable, Continuations, OnCall
<1> QED BY <1>2, <1>3

(* The loop of drive.                                                       *)
LEMMA loopStep == ASSUME IInv, NEW t \in Tasks, loop(t) PROVE IInv'
<1> USE DEF loop
<1>1. FenceTypeOK'
  BY DEF IInv, FenceTypeOK
<1>2. RowTypeOK' /\ WorldTypeOK'
  BY RowStays, WorldStays DEF IInv
<1>3. TaskTypeOK'
  BY RunEngineAssumption DEF IInv, TaskInv, TaskTypeOK, Points, Kinds
<1>4. PICK p \in {"reload", "release"} : pc' = [pc EXCEPT ![t] = p]
  OBVIOUS
<1>5. /\ \A u \in Tasks : pc'[u] = IF u = t THEN p ELSE pc[u]
      /\ \A u \in Tasks : u # t => kind'[u] = kind[u]
  BY <1>4 DEF IInv, TaskInv, TaskTypeOK
<1>6. CallInv'
  BY <1>5 DEF IInv, TaskInv, CallInv, PendingIsTool, Awaiting, Direct, OnCall
<1>7. EffectInv'
  BY <1>5 DEF IInv, TaskInv, EffectInv, Performing
<1> QED BY <1>1, <1>2, <1>3, <1>6, <1>7 DEF IInv, TaskInv

(* drive reads the row again.                                               *)
LEMMA reloadStep == ASSUME IInv, NEW t \in Tasks, reload(t) PROVE IInv'
<1> USE DEF reload
<1>1. FenceTypeOK' /\ WorldTypeOK'
  BY FenceStays, WorldStays DEF IInv
<1>2. RowTypeOK'
  BY DEF IInv, RowTypeOK
<1>3. TaskTypeOK'
  BY DEF IInv, RowTypeOK, TaskInv, TaskTypeOK, Points
<1>4. PICK p \in {"budget", "release"} : pc' = [pc EXCEPT ![t] = p]
  OBVIOUS
<1>5. /\ \A u \in Tasks : pc'[u] = IF u = t THEN p ELSE pc[u]
      /\ \A u \in Tasks : snap'[u] = IF u = t THEN run ELSE snap[u]
  BY <1>4 DEF IInv, TaskInv, TaskTypeOK
<1>6. CallInv'
  BY <1>5 DEF IInv, TaskInv, CallInv, PendingIsTool, Awaiting, Direct, OnCall
<1>7. EffectInv'
  BY <1>5 DEF IInv, TaskInv, EffectInv, Performing
<1> QED BY <1>1, <1>2, <1>3, <1>6, <1>7 DEF IInv, TaskInv

(* The pending call is taken up, or the model is asked.                     *)
LEMMA withinBudgetStep == ASSUME IInv, NEW t \in Tasks, withinBudget(t) PROVE IInv'
<1>1. FenceTypeOK' /\ RowTypeOK' /\ WorldTypeOK'
  BY FenceStays, RowStays, WorldStays DEF IInv, withinBudget
<1>2. TaskInv'
  BY GotoInv DEF IInv, withinBudget, Frozen, Points, Performing, OnCall
<1> QED BY <1>1, <1>2 DEF IInv

(* The budget is exhausted.                                                 *)
LEMMA failBudgetStep == ASSUME IInv, NEW t \in Tasks, failBudget(t) PROVE IInv'
<1>1. FenceTypeOK' /\ RowTypeOK' /\ WorldTypeOK'
  BY FenceStays, RowStays, WorldStays DEF IInv, failBudget
<1>2. TaskInv'
  BY WithInv DEF failBudget, Grows, Statuses, Terminal, Continuations, OnCall
<1> QED BY <1>1, <1>2 DEF IInv

(* The model completed.                                                     *)
LEMMA modelCompletedStep ==
  ASSUME IInv, NEW t \in Tasks, modelCompleted(t) PROVE IInv'
<1>1. FenceTypeOK' /\ RowTypeOK' /\ WorldTypeOK'
  BY FenceStays, RowStays, WorldStays DEF IInv, modelCompleted
<1>2. TaskInv'
  BY WithInv DEF modelCompleted, Grows, Statuses, Continuations, OnCall
<1> QED BY <1>1, <1>2 DEF IInv

(* The provider numbers one more turn.                                      *)
LEMMA CallsAppend ==
  ASSUME IInv, Len(calls) < MaxCalls, NEW turn \in Turns, calls' = Append(calls, turn),
         UNCHANGED <<effects, handleVars, countVars>>
  PROVE  /\ WorldTypeOK'
         /\ Len(calls) + 1 \in Calls
         /\ Len(calls') = Len(calls) + 1
         /\ calls'[Len(calls) + 1] = turn
         /\ \A i \in 1..Len(calls) : calls'[i] = calls[i]
<1>1. calls \in Seq(Turns) /\ Len(calls) \in Nat
  BY DEF IInv, WorldTypeOK
<1>2. calls' \in Seq(Turns) /\ Len(calls') = Len(calls) + 1
  BY <1>1
<1>3. Len(calls') <= MaxCalls /\ Len(calls) + 1 \in Calls
  BY <1>1, <1>2, RunEngineAssumption DEF Calls
<1>4. /\ calls'[Len(calls) + 1] = turn
      /\ \A i \in 1..Len(calls) : calls'[i] = calls[i]
  BY <1>1
<1>5. WorldTypeOK'
  BY <1>2, <1>3 DEF IInv, WorldTypeOK
<1> QED BY <1>2, <1>3, <1>4, <1>5

(* The model asks the user: the question is not a pending call.             *)
LEMMA modelAsksUserStep ==
  ASSUME IInv, NEW t \in Tasks, modelAsksUser(t) PROVE IInv'
<1>1. FenceTypeOK' /\ RowTypeOK'
  BY FenceStays, RowStays DEF IInv, modelAsksUser
<1>2. [tool |-> "question"] \in Turns
  BY DEF Turns
<1>3. WorldTypeOK' /\ Len(calls) + 1 \in Calls
  BY <1>2, CallsAppend DEF modelAsksUser
<1> DEFINE s == [With(t, "waiting_user") EXCEPT !.question = Len(calls) + 1]
<1>4. With(t, "waiting_user") \in Snapshots
      /\ With(t, "waiting_user").call = snap[t].call
  BY WithType DEF IInv, TaskInv, TaskTypeOK, Statuses, Startable, Waiting
<1>5. s \in Snapshots /\ s.call = snap[t].call
  BY <1>3, <1>4, SnapshotQuestion
<1> HIDE DEF s
<1>6. PendingIsTool(s)
  BY <1>5 DEF IInv, TaskInv, CallInv, PendingIsTool
<1>7. Persist(t, s, "release") /\ Grows /\ UNCHANGED <<kind, inDrive, entry, lost>>
  BY <1>2 DEF modelAsksUser, s, Grows
<1>8. TaskInv'
  BY <1>5, <1>6, <1>7, PersistInv DEF IInv, RowTypeOK, WorldTypeOK, Continuations, OnCall
<1> QED BY <1>1, <1>3, <1>8 DEF IInv

(* A call that carries a secret is denied without becoming pending.         *)
LEMMA modelCallsWithSecretStep ==
  ASSUME IInv, NEW t \in Tasks, modelCallsWithSecret(t) PROVE IInv'
<1>1. FenceTypeOK' /\ RowTypeOK'
  BY FenceStays, RowStays DEF IInv, modelCallsWithSecret
<1>2. [tool |-> "exec", policy |-> "deny"] \in Turns
  BY DEF Turns, Tools, Policies
<1>3. WorldTypeOK' /\ Len(calls) + 1 \in Calls
  BY <1>2, CallsAppend DEF modelCallsWithSecret
<1> DEFINE s == [snap[t] EXCEPT
           !.results = Append(@, [id |-> Len(calls) + 1, outcome |-> "denied"])]
<1>4. snap[t] \in Snapshots
  BY DEF IInv, TaskInv, TaskTypeOK
<1>5. Append(snap[t].results, [id |-> Len(calls) + 1, outcome |-> "denied"])
        \in Seq([id: Calls, outcome: Outcomes])
  BY <1>3, <1>4, SnapshotPush DEF Outcomes
<1>6. s \in Snapshots /\ s.call = snap[t].call
  BY <1>4, <1>5 DEF Snapshots
<1> HIDE DEF s
<1>7. PendingIsTool(s)
  BY <1>6 DEF IInv, TaskInv, CallInv, PendingIsTool
<1>8. Persist(t, s, "loop") /\ Grows /\ UNCHANGED <<kind, inDrive, entry, lost>>
  BY <1>2 DEF modelCallsWithSecret, s, Grows
<1>9. TaskInv'
  BY <1>6, <1>7, <1>8, PersistInv DEF IInv, RowTypeOK, WorldTypeOK, Continuations, OnCall
<1> QED BY <1>1, <1>3, <1>9 DEF IInv

(* The model calls a tool, which becomes the pending call.                  *)
LEMMA modelCallsToolStep ==
  ASSUME IInv, NEW t \in Tasks, modelCallsTool(t) PROVE IInv'
<1> DEFINE n == Len(calls) + 1
           s == [snap[t] EXCEPT !.call = n]
<1>1. FenceTypeOK' /\ RowTypeOK'
  BY FenceStays, RowStays DEF IInv, modelCallsTool
<1>2. PICK turn \in ToolCalls : calls' = Append(calls, turn)
  BY DEF modelCallsTool
<1>3. turn \in Turns /\ turn.tool \in Tools
  BY RunEngineAssumption DEF Turns, Tools, Policies
<1>4. /\ WorldTypeOK' /\ n \in Calls
      /\ Len(calls') = n /\ calls'[n] = turn
      /\ \A i \in 1..Len(calls) : calls'[i] = calls[i]
  BY <1>2, <1>3, CallsAppend DEF modelCallsTool
<1>5. s \in Snapshots /\ s.call = n
  BY <1>4, SnapshotCall DEF IInv, TaskInv, TaskTypeOK
<1>6. /\ pc' = [pc EXCEPT ![t] = "save"]
      /\ snap' = [snap EXCEPT ![t] = s]
      /\ next' = [next EXCEPT ![t] = "authorize"]
      /\ fail' = [fail EXCEPT ![t] = "release"]
      /\ UNCHANGED <<run, ledger, effects, kind, inDrive, entry, lost>>
  BY DEF modelCallsTool, IInv, TaskInv, TaskTypeOK
<1> HIDE DEF n, s
<1>7. TaskTypeOK'
  BY <1>5, <1>6 DEF IInv, TaskInv, TaskTypeOK, Points, Continuations, Retreats
<1>8. /\ \A u \in Tasks : pc'[u] = IF u = t THEN "save" ELSE pc[u]
      /\ \A u \in Tasks : snap'[u] = IF u = t THEN s ELSE snap[u]
      /\ \A u \in Tasks : next'[u] = IF u = t THEN "authorize" ELSE next[u]
  BY <1>6 DEF IInv, TaskInv, TaskTypeOK
<1>9. CallInv'
  <2>1. n \in Nat \ {0} /\ Len(calls) <= n
    BY <1>4, RunEngineAssumption DEF Calls, n, IInv, WorldTypeOK
  <2>2. \A x \in Snapshots : PendingIsTool(x) =>
          (x.call # 0 => x.call <= Len(calls') /\ calls'[x.call].tool \in Tools)
    BY <1>4, <2>1, RunEngineAssumption DEF PendingIsTool, Snapshots
  <2>3. PendingIsTool(run)'
    BY <1>6, <2>2 DEF IInv, RowTypeOK, TaskInv, CallInv, PendingIsTool
  <2>4. ASSUME NEW u \in Tasks PROVE PendingIsTool(snap[u])'
    <3>1. CASE u = t
      BY <1>3, <1>4, <1>5, <1>8, <3>1 DEF PendingIsTool
    <3>2. CASE u # t
      <4>1. snap[u] \in Snapshots /\ PendingIsTool(snap[u])
        BY DEF IInv, TaskInv, TaskTypeOK, CallInv
      <4> QED BY <1>8, <2>2, <3>2, <4>1 DEF PendingIsTool
    <3> QED BY <3>1, <3>2
  <2>5. \A u \in Tasks : Awaiting(u)' \in OnCall => snap'[u].call # 0
    BY <1>5, <1>8, <2>1 DEF IInv, TaskInv, CallInv, Awaiting
  <2>6. \A u \in Tasks : pc'[u] = "decide" => Direct(u)'
    BY <1>6, <1>8 DEF IInv, TaskInv, CallInv, Direct
  <2> QED BY <2>3, <2>4, <2>5, <2>6 DEF CallInv
<1>10. EffectInv'
  BY <1>6, <1>8 DEF IInv, TaskInv, EffectInv, Performing
<1> QED BY <1>1, <1>4, <1>7, <1>9, <1>10 DEF IInv, TaskInv

(* The model or the policy fails.                                           *)
LEMMA driveFailsStep == ASSUME IInv, NEW t \in Tasks, driveFails(t) PROVE IInv'
<1>1. FenceTypeOK' /\ WorldTypeOK'
  BY FenceStays, WorldStays DEF IInv, driveFails
<1>2. TaskInv' /\ current' \subseteq Tasks /\ outer' \subseteq Tasks
  BY DriveErrorInv DEF IInv, driveFails, RowTypeOK, WorldTypeOK, Frozen
<1>3. RowTypeOK'
  BY <1>2 DEF IInv, driveFails, RowTypeOK
<1> QED BY <1>1, <1>2, <1>3 DEF IInv

(* A task that borrows the registered handle moves on.                      *)
LEMMA BorrowInv ==
  ASSUME IInv, NEW t \in Tasks, NEW p \in {"prerenew", "perform_with", "verify"},
         p \in OnCall => snap[t].call # 0, pc' = [pc EXCEPT ![t] = p],
         entry' = [entry EXCEPT ![t] = Handle(t)],
         UNCHANGED <<kind, snap, next, fail, inDrive, lost>>, Frozen
  PROVE  TaskInv'
<1> USE DEF Frozen
<1>1. Handle(t) \in 0..MaxEntries
  BY HandleType DEF IInv
<1>2. TaskTypeOK'
  BY <1>1 DEF IInv, TaskInv, TaskTypeOK, Points, Waits
<1>3. \A u \in Tasks : pc'[u] = IF u = t THEN p ELSE pc[u]
  BY DEF IInv, TaskInv, TaskTypeOK
<1>4. CallInv'
  BY <1>3 DEF IInv, TaskInv, CallInv, PendingIsTool, Awaiting, Direct, OnCall
<1>5. EffectInv'
  BY <1>3 DEF IInv, TaskInv, EffectInv, Performing
<1> QED BY <1>2, <1>4, <1>5 DEF TaskInv

(* The pending call is consumed: its result is written, the loop goes on.   *)
LEMMA ConsumeInv ==
  ASSUME IInv, NEW t \in Tasks, NEW o \in Outcomes, snap[t].call # 0,
         Persist(t, Result(t, o), "loop"), Frozen,
         UNCHANGED <<kind, inDrive, entry, lost>>
  PROVE  TaskInv'
<1>1. Result(t, o) \in Snapshots /\ PendingIsTool(Result(t, o))
  BY ResultType DEF IInv, TaskInv, TaskTypeOK, PendingIsTool
<1> QED BY <1>1, PersistInv
     DEF IInv, RowTypeOK, WorldTypeOK, Frozen, Grows, Continuations, OnCall

(* Authorization.                                                           *)
LEMMA authorizeAskStep ==
  ASSUME IInv, NEW t \in Tasks, authorizeAsk(t) PROVE IInv'
<1>1. FenceTypeOK' /\ WorldTypeOK'
  BY FenceStays, WorldStays DEF IInv, authorizeAsk, AuthorizeFrame
<1>2. RowTypeOK'
  BY DEF IInv, authorizeAsk, AuthorizeFrame, RowTypeOK
<1>3. snap[t].call # 0
  BY DEF IInv, TaskInv, CallInv, Awaiting, OnCall, authorizeAsk
<1>4. Frozen /\ Grows /\ UNCHANGED <<kind, inDrive, entry, lost>>
  BY DEF authorizeAsk, AuthorizeFrame, Frozen, Grows
<1>5. CASE <<"deny", Turn(t).tool>> \in snap[t].grants
  <2>1. Persist(t, Result(t, "denied"), "loop")
    BY <1>5 DEF authorizeAsk
  <2>2. TaskInv'
    BY <1>3, <1>4, <2>1, ConsumeInv DEF Outcomes
  <2> QED BY <1>1, <1>2, <2>2 DEF IInv
<1>6. CASE <<"deny", Turn(t).tool>> \notin snap[t].grants
  <2> DEFINE s == [With(t, "waiting_approval") EXCEPT !.approval = TRUE]
  <2>1. Persist(t, s, "release")
    BY <1>6 DEF authorizeAsk
  <2>2. With(t, "waiting_approval") \in Snapshots
        /\ With(t, "waiting_approval").call = snap[t].call
    BY WithType DEF IInv, TaskInv, TaskTypeOK, Statuses, Startable, Waiting
  <2>3. s \in Snapshots /\ s.call = snap[t].call
    BY <2>2 DEF Snapshots
  <2> HIDE DEF s
  <2>4. PendingIsTool(s)
    BY <2>3 DEF IInv, TaskInv, CallInv, PendingIsTool
  <2>5. TaskInv'
    BY <1>4, <2>1, <2>3, <2>4, PersistInv
       DEF IInv, RowTypeOK, WorldTypeOK, Continuations, OnCall
  <2> QED BY <1>1, <1>2, <2>5 DEF IInv
<1> QED BY <1>5, <1>6

(* Policy denies: the Run fails.                                            *)
LEMMA authorizeDenyStep ==
  ASSUME IInv, NEW t \in Tasks, authorizeDeny(t) PROVE IInv'
<1>1. FenceTypeOK' /\ RowTypeOK' /\ WorldTypeOK'
  BY FenceStays, RowStays, WorldStays DEF IInv, authorizeDeny, AuthorizeFrame
<1>2. TaskInv'
  BY WithInv DEF authorizeDeny, AuthorizeFrame, Grows, Statuses, Terminal,
                 Continuations, OnCall
<1> QED BY <1>1, <1>2 DEF IInv

(* Policy allows: the network call is consumed, a handle is borrowed, or    *)
(* there is none.                                                           *)
LEMMA authorizeAllowStep ==
  ASSUME IInv, NEW t \in Tasks, authorizeAllow(t) PROVE IInv'
<1>1. FenceTypeOK' /\ WorldTypeOK'
  BY FenceStays, WorldStays DEF IInv, authorizeAllow, AuthorizeFrame
<1>2. snap[t].call # 0
  BY DEF IInv, TaskInv, CallInv, Awaiting, OnCall, authorizeAllow
<1>3. Frozen /\ UNCHANGED <<run, ledgerVars>>
  BY DEF authorizeAllow, AuthorizeFrame, Frozen
<1>4. TaskInv' /\ current' \subseteq Tasks /\ outer' \subseteq Tasks
  <2>1. CASE Turn(t).tool = "network"
    <3>1. /\ Persist(t, Result(t, "authorized"), "loop")
          /\ UNCHANGED <<kind, inDrive, entry, lost, current, outer>>
      BY <2>1 DEF authorizeAllow
    <3>2. TaskInv'
      BY <1>2, <1>3, <3>1, ConsumeInv DEF Outcomes
    <3> QED BY <3>1, <3>2 DEF IInv, RowTypeOK
  <2>2. CASE Turn(t).tool # "network" /\ Handle(t) = 0
    <3>1. DriveError(t)
      BY <2>2 DEF authorizeAllow
    <3> QED BY <1>3, <3>1, DriveErrorInv DEF IInv, RowTypeOK, WorldTypeOK
  <2>3. CASE Turn(t).tool # "network" /\ Handle(t) # 0
    <3>1. /\ pc' = [pc EXCEPT ![t] = "prerenew"]
          /\ entry' = [entry EXCEPT ![t] = Handle(t)]
          /\ UNCHANGED <<kind, snap, next, fail, inDrive, lost, current, outer>>
      BY <2>3 DEF authorizeAllow
    <3>2. TaskInv'
      BY <1>2, <1>3, <3>1, BorrowInv
    <3> QED BY <3>1, <3>2 DEF IInv, RowTypeOK
  <2> QED BY <2>1, <2>2, <2>3
<1>5. RowTypeOK'
  BY <1>3, <1>4 DEF IInv, RowTypeOK
<1> QED BY <1>1, <1>4, <1>5 DEF IInv

(* A decided call goes on like an allowed one.                              *)
LEMMA approvedStep == ASSUME IInv, NEW t \in Tasks, approved(t) PROVE IInv'
<1>1. FenceTypeOK' /\ RowTypeOK' /\ WorldTypeOK'
  BY FenceStays, RowStays, WorldStays DEF IInv, approved
<1>2. snap[t].call # 0
  BY DEF IInv, TaskInv, CallInv, Awaiting, OnCall, approved
<1>3. Frozen /\ UNCHANGED <<kind, inDrive, lost>>
  BY DEF approved, Frozen
<1>4. TaskInv'
  <2>1. CASE Turn(t).tool = "network"
    <3>1. Persist(t, Result(t, "authorized"), "loop") /\ UNCHANGED entry
      BY <2>1 DEF approved
    <3> QED BY <1>2, <1>3, <3>1, ConsumeInv DEF Outcomes
  <2>2. CASE Turn(t).tool # "network" /\ Handle(t) = 0
    <3>1. Goto(t, "release")
      BY <2>2 DEF approved, Goto
    <3> QED BY <1>3, <3>1, GotoInv DEF IInv, Points, Performing, OnCall
  <2>3. CASE Turn(t).tool # "network" /\ Handle(t) # 0
    <3>1. /\ pc' = [pc EXCEPT ![t] = "perform_with"]
          /\ entry' = [entry EXCEPT ![t] = Handle(t)]
          /\ UNCHANGED <<kind, snap, next, fail, inDrive, lost>>
      BY <2>3 DEF approved
    <3> QED BY <1>2, <1>3, <3>1, BorrowInv
  <2> QED BY <2>1, <2>2, <2>3
<1> QED BY <1>1, <1>4 DEF IInv

(* The lease is renewed once more before a tool may run.                    *)
LEMMA prerenewStep == ASSUME IInv, NEW t \in Tasks, prerenew(t) PROVE IInv'
<1>1. FenceTypeOK' /\ (Goto(t, "perform_with") \/ Goto(t, "release"))
  BY renewLeaseFence DEF IInv, prerenew
<1>2. RowTypeOK' /\ WorldTypeOK'
  BY RowStays, WorldStays DEF IInv, prerenew
<1>3. snap[t].call # 0
  BY DEF IInv, TaskInv, CallInv, Awaiting, OnCall, prerenew
<1>4. TaskInv'
  BY <1>1, <1>3, GotoInv DEF IInv, prerenew, Frozen, Points, Performing, OnCall
<1> QED BY <1>1, <1>2, <1>4 DEF IInv

(* performWith.                                                             *)
LEMMA performWithStep ==
  ASSUME IInv, NEW t \in Tasks, performWith(t) PROVE IInv'
<1>1. FenceTypeOK' /\ RowTypeOK' /\ WorldTypeOK'
  BY FenceStays, RowStays, WorldStays DEF IInv, performWith
<1>2. snap[t].call # 0
  BY DEF IInv, TaskInv, CallInv, Awaiting, OnCall, performWith
<1>3. Frozen /\ Grows
  BY DEF performWith, Frozen, Grows
<1>4. CASE snap[t].call \in snap[t].started
  <2>1. Goto(t, "claim")
    BY <1>4 DEF performWith
  <2>2. TaskInv'
    BY <1>2, <1>3, <2>1, GotoInv DEF IInv, Points, Performing
  <2> QED BY <1>1, <2>2 DEF IInv
<1>5. CASE snap[t].call \notin snap[t].started
  <2> DEFINE s == [snap[t] EXCEPT !.started = @ \cup {snap[t].call}]
  <2>1. Persist(t, s, "claim") /\ UNCHANGED <<kind, inDrive, entry, lost>>
    BY <1>5 DEF performWith
  <2>2. s \in Snapshots /\ s.call = snap[t].call
    BY <1>2, TurnType, SnapshotStarted
  <2> HIDE DEF s
  <2>3. PendingIsTool(s)
    BY <2>2 DEF IInv, TaskInv, CallInv, PendingIsTool
  <2>4. TaskInv'
    BY <1>2, <1>3, <2>1, <2>2, <2>3, PersistInv
       DEF IInv, RowTypeOK, WorldTypeOK, Continuations
  <2> QED BY <1>1, <2>4 DEF IInv
<1> QED BY <1>4, <1>5

(* Only the insert of a fresh row lets a task perform the call.             *)
LEMMA claimStep == ASSUME IInv, NEW t \in Tasks, claim(t) PROVE IInv'
<1> DEFINE c == snap[t].call
<1>1. FenceTypeOK' /\ WorldTypeOK'
  BY FenceStays, WorldStays DEF IInv, claim
<1>2. c # 0 /\ c \in Calls
  BY TurnType DEF IInv, TaskInv, CallInv, Awaiting, OnCall, claim
<1>3. UNCHANGED <<run, current, outer, approvals, slot, calls, effects>>
  BY DEF claim
<1>4. CASE ledger[c].state = "none"
  <2>1. /\ ledger' = [ledger EXCEPT ![c] = [state |-> "executing",
                                            action |-> ActionOf(t)]]
        /\ Goto(t, "perform")
    BY <1>4 DEF claim
  <2>2. RowTypeOK'
    BY <1>2, <1>3, <2>1 DEF IInv, RowTypeOK, ActionOf, Actions
  <2>3. \A u \in Tasks : pc'[u] = IF u = t THEN "perform" ELSE pc[u]
    BY <2>1 DEF Goto, IInv, TaskInv, TaskTypeOK
  <2>4. TaskTypeOK'
    BY <2>1 DEF Goto, IInv, TaskInv, TaskTypeOK, Points
  <2>5. CallInv'
    BY <1>2, <1>3, <2>1, <2>3
       DEF Goto, IInv, TaskInv, CallInv, PendingIsTool, Awaiting, Direct
  <2>6. \A d \in Calls : ledger'[d].state = IF d = c THEN "executing" ELSE ledger[d].state
    BY <1>2, <2>1 DEF IInv, RowTypeOK
  <2>7. \A u \in Tasks : pc[u] \in Performing => snap[u].call # c
    BY <1>4 DEF IInv, TaskInv, EffectInv
  <2>8. \A u \in Tasks : pc[u] \in Performing => snap[u].call \in Calls
    BY TurnType DEF IInv, TaskInv, CallInv, Awaiting, OnCall, Performing
  <2>9. effects[c] = <<>>
    BY <1>2, <1>4 DEF IInv, TaskInv, EffectInv
  <2>10. EffectInv'
    <3> HIDE DEF c
    <3>1. snap' = snap /\ effects' = effects /\ snap[t].call = c
      BY <1>3, <2>1 DEF Goto, c
    <3>2. /\ \A d \in Calls : Len(effects'[d]) <= 1
          /\ \A d \in Calls : ledger'[d].state = "none" => effects'[d] = <<>>
      BY <2>6, <3>1 DEF IInv, TaskInv, EffectInv
    <3>3. \A u \in Tasks :
            pc'[u] \in Performing => ledger'[snap'[u].call].state = "executing"
      BY <1>2, <2>3, <2>6, <2>8, <3>1 DEF IInv, TaskInv, EffectInv
    <3>4. \A u \in Tasks : pc'[u] = "perform" => effects'[snap'[u].call] = <<>>
      BY <2>3, <2>9, <3>1 DEF IInv, TaskInv, EffectInv
    <3>5. \A u, v \in Tasks : /\ pc'[u] \in Performing /\ pc'[v] \in Performing
                              /\ snap'[u].call = snap'[v].call
                              => u = v
      BY <2>3, <2>7, <3>1 DEF IInv, TaskInv, EffectInv
    <3> QED BY <3>2, <3>3, <3>4, <3>5 DEF EffectInv
  <2> QED BY <1>1, <2>2, <2>4, <2>5, <2>10 DEF IInv, TaskInv
<1>5. CASE ledger[c].state # "none"
  <2>1. \/ PerformError(t)
        \/ Persist(t, Executed(t), "loop") /\ UNCHANGED <<kind, inDrive, entry, lost>>
        \/ /\ \/ Persist(t, With(t, "failed"), "release")
              \/ Persist(t, With(t, "failed"), "loop")
           /\ UNCHANGED <<kind, inDrive, entry, lost>>
    BY <1>5 DEF claim
  <2>2. UNCHANGED ledger
    BY <1>5 DEF claim
  <2>3. Frozen /\ Grows
    BY <1>3, <2>2 DEF Frozen, Grows
  <2>4. RowTypeOK'
    BY <1>3, <2>2 DEF IInv, RowTypeOK
  <2>5. Executed(t) \in Snapshots /\ PendingIsTool(Executed(t))
    BY <1>2, ExecutedType DEF IInv, TaskInv, TaskTypeOK, PendingIsTool
  <2>6. TaskInv'
    BY <2>1, <2>3, <2>5, PerformErrorInv, PersistInv, WithInv
       DEF IInv, RowTypeOK, WorldTypeOK, Continuations, OnCall, Statuses, Terminal
  <2> QED BY <1>1, <2>4, <2>6 DEF IInv
<1> QED BY <1>4, <1>5

(* The only step that touches effects: its call had none.                   *)
LEMMA performStep == ASSUME IInv, NEW t \in Tasks, perform(t) PROVE IInv'
<1> DEFINE c == snap[t].call
<1>1. FenceTypeOK' /\ RowTypeOK'
  BY FenceStays, RowStays DEF IInv, perform
<1>2. c # 0 /\ c \in Calls
  BY TurnType DEF IInv, TaskInv, CallInv, Awaiting, OnCall, perform
<1>3. /\ effects' = [effects EXCEPT ![c] = Append(@, ActionOf(t))]
      /\ Goto(t, "performing") /\ pc[t] = "perform"
      /\ UNCHANGED <<run, ledger, calls, handleVars, countVars>>
  BY DEF perform
<1>4. effects[c] = <<>> /\ ActionOf(t) \in Actions
  BY <1>3 DEF IInv, TaskInv, EffectInv, ActionOf, Actions
<1>5. Append(effects[c], ActionOf(t)) \in Seq(Actions)
      /\ Len(Append(effects[c], ActionOf(t))) = 1
  BY <1>4
<1>6. WorldTypeOK'
  BY <1>2, <1>3, <1>5 DEF IInv, WorldTypeOK
<1>7. \A u \in Tasks : pc'[u] = IF u = t THEN "performing" ELSE pc[u]
  BY <1>3 DEF Goto, IInv, TaskInv, TaskTypeOK
<1>8. TaskTypeOK'
  BY <1>3 DEF Goto, IInv, TaskInv, TaskTypeOK, Points, Waits
<1>9. CallInv'
  BY <1>2, <1>3, <1>7
     DEF Goto, IInv, TaskInv, CallInv, PendingIsTool, Awaiting, Direct
<1>10. EffectInv'
  <2>1. \A u \in Tasks : u # t /\ pc[u] \in Performing => snap[u].call # c
    BY <1>3 DEF IInv, TaskInv, EffectInv, Performing
  <2>2. ledger[c].state = "executing"
    BY <1>3 DEF IInv, TaskInv, EffectInv, Performing
  <2>3. \A u \in Tasks : pc[u] \in Performing => snap[u].call \in Calls
    BY TurnType DEF IInv, TaskInv, CallInv, Awaiting, OnCall, Performing
  <2>4. /\ Len(effects'[c]) = 1
        /\ \A d \in Calls : d # c => effects'[d] = effects[d]
    BY <1>2, <1>3, <1>5 DEF IInv, WorldTypeOK
  <2>5. snap' = snap /\ ledger' = ledger /\ snap[t].call = c
    BY <1>3 DEF Goto
  <2> HIDE DEF c
  <2>6. ASSUME NEW d \in Calls
        PROVE  /\ Len(effects'[d]) <= 1
               /\ ledger'[d].state = "none" => effects'[d] = <<>>
    <3>1. CASE d = c
      <4>1. ledger'[d].state # "none"
        BY <2>2, <2>5, <3>1
      <4>2. Len(effects'[d]) = 1
        BY <2>4, <3>1
      <4>3. Len(effects'[d]) <= 1
        BY <4>2
      <4> QED BY <4>1, <4>3
    <3>2. CASE d # c
      BY <2>4, <2>5, <3>2 DEF IInv, TaskInv, EffectInv
    <3> QED BY <3>1, <3>2
  <2>7. \A u \in Tasks :
          pc'[u] \in Performing => ledger'[snap'[u].call].state = "executing"
    BY <1>7, <2>2, <2>5 DEF IInv, TaskInv, EffectInv
  <2>8. \A u \in Tasks : pc'[u] = "perform" => effects'[snap'[u].call] = <<>>
    BY <1>7, <2>1, <2>3, <2>4, <2>5 DEF IInv, TaskInv, EffectInv, Performing
  <2>9. \A u, v \in Tasks : /\ pc'[u] \in Performing /\ pc'[v] \in Performing
                            /\ snap'[u].call = snap'[v].call
                            => u = v
    BY <1>3, <1>7, <2>5 DEF IInv, TaskInv, EffectInv, Performing
  <2> QED BY <2>6, <2>7, <2>8, <2>9 DEF EffectInv
<1> QED BY <1>1, <1>6, <1>8, <1>9, <1>10 DEF IInv, TaskInv

(* The action returned.                                                     *)
LEMMA performedStep == ASSUME IInv, NEW t \in Tasks, performed(t) PROVE IInv'
<1>1. FenceTypeOK' /\ RowTypeOK' /\ WorldTypeOK'
  BY FenceStays, RowStays, WorldStays DEF IInv, performed
<1>2. \A u \in Tasks : pc'[u] = IF u = t THEN "complete" ELSE pc[u]
  BY DEF performed, Goto, IInv, TaskInv, TaskTypeOK
<1>3. pc[t] = "performing" /\ Frozen /\ UNCHANGED <<kind, snap, next>>
  BY DEF performed, Goto, Frozen
<1>4. TaskTypeOK'
  BY DEF performed, Goto, IInv, TaskInv, TaskTypeOK, Points
<1>5. CallInv'
  BY <1>2, <1>3 DEF Frozen, IInv, TaskInv, CallInv, PendingIsTool, Awaiting, Direct,
                    OnCall
<1>6. EffectInv'
  BY <1>2, <1>3 DEF Frozen, IInv, TaskInv, EffectInv, Performing
<1> QED BY <1>1, <1>4, <1>5, <1>6 DEF IInv, TaskInv

(* The action was rejected, aborted or returned too late.                   *)
LEMMA performEndsStep == ASSUME IInv, NEW t \in Tasks, performEnds(t) PROVE IInv'
<1>1. FenceTypeOK' /\ RowTypeOK'
  BY FenceStays, RowStays DEF IInv, performEnds
<1>2. WorldTypeOK'
  BY WorldStays DEF IInv, performEnds
<1>3. Frozen /\ Grows
  BY DEF performEnds, Frozen, Grows
<1>4. \/ Goto(t, "release") \/ PerformError(t)
      \/ /\ PersistOr(t, With(t, "cancelled"), "dispose", "dispose")
         /\ UNCHANGED <<kind, inDrive, entry, lost>>
  BY DEF performEnds
<1>5. CASE Goto(t, "release")
  <2>1. TaskInv'
    BY <1>3, <1>5, GotoInv DEF IInv, Points, Performing, OnCall
  <2> QED BY <1>1, <1>2, <2>1 DEF IInv
<1>6. CASE PerformError(t)
  <2>1. TaskInv'
    BY <1>3, <1>6, PerformErrorInv DEF IInv, RowTypeOK, WorldTypeOK
  <2> QED BY <1>1, <1>2, <2>1 DEF IInv
<1>7. CASE /\ PersistOr(t, With(t, "cancelled"), "dispose", "dispose")
           /\ UNCHANGED <<kind, inDrive, entry, lost>>
  <2> DEFINE s == With(t, "cancelled")
  <2>1. s \in Snapshots /\ s.call = snap[t].call
    BY WithType DEF IInv, TaskInv, TaskTypeOK, Statuses, Terminal
  <2>2. PendingIsTool(s)
    BY <2>1 DEF IInv, TaskInv, CallInv, PendingIsTool
  <2>3. PersistOr(t, s, "dispose", "dispose")
    BY <1>7
  <2>4. inDrive' \in [Tasks -> BOOLEAN] /\ entry' \in [Tasks -> 0..MaxEntries]
    BY <1>7 DEF IInv, TaskInv, TaskTypeOK
  <2>5. "dispose" \in Retreats /\ "dispose" \in Continuations /\ "dispose" \notin OnCall
    BY DEF Retreats, Continuations, OnCall
  <2> HIDE DEF s
  <2>6. TaskInv'
    BY <1>3, <1>7, <2>1, <2>2, <2>3, <2>4, <2>5, PersistOrInv
       DEF IInv, RowTypeOK, WorldTypeOK
  <2> QED BY <1>1, <1>2, <2>6 DEF IInv
<1> QED BY <1>4, <1>5, <1>6, <1>7

(* The row is completed while no other task works on the call.              *)
LEMMA completeStep == ASSUME IInv, NEW t \in Tasks, complete(t) PROVE IInv'
<1> DEFINE c == snap[t].call
<1>1. FenceTypeOK' /\ WorldTypeOK'
  BY FenceStays, WorldStays DEF IInv, complete
<1>2. c # 0 /\ c \in Calls
  BY TurnType DEF IInv, TaskInv, CallInv, Awaiting, OnCall, complete
<1>3. /\ ledger' = [ledger EXCEPT ![c].state = "completed"]
      /\ Persist(t, Executed(t), "loop") /\ pc[t] = "complete"
      /\ UNCHANGED <<run, calls, effects, kind, inDrive, entry, lost>>
  BY DEF complete
<1>4. RowTypeOK'
  BY <1>2 DEF IInv, complete, RowTypeOK
<1>5. Executed(t) \in Snapshots /\ Executed(t).call = 0
  BY <1>2, ExecutedType DEF IInv, TaskInv, TaskTypeOK
<1>6. /\ \A u \in Tasks : pc'[u] = IF u = t THEN "renew" ELSE pc[u]
      /\ \A u \in Tasks : snap'[u] = IF u = t THEN Executed(t) ELSE snap[u]
      /\ \A u \in Tasks : next'[u] = IF u = t THEN "loop" ELSE next[u]
  BY <1>3 DEF Persist, PersistOr, IInv, TaskInv, TaskTypeOK
<1>7. TaskTypeOK'
  BY <1>3, <1>5 DEF Persist, PersistOr, IInv, TaskInv, TaskTypeOK, Points,
                    Continuations, Retreats
<1>8. CallInv'
  <2>1. \A u \in Tasks : PendingIsTool(snap[u])'
    BY <1>3, <1>5, <1>6 DEF IInv, TaskInv, CallInv, PendingIsTool
  <2>2. PendingIsTool(run)'
    BY <1>3 DEF IInv, TaskInv, CallInv, PendingIsTool
  <2>3. \A u \in Tasks : Awaiting(u)' \in OnCall => snap'[u].call # 0
    BY <1>6 DEF IInv, TaskInv, CallInv, Awaiting, OnCall
  <2>4. \A u \in Tasks : pc'[u] = "decide" => Direct(u)'
    BY <1>3, <1>6 DEF IInv, TaskInv, CallInv, Direct
  <2> QED BY <2>1, <2>2, <2>3, <2>4 DEF CallInv
<1>9. EffectInv'
  <2>1. \A u \in Tasks : u # t /\ pc[u] \in Performing =>
                           snap[u].call # c /\ snap[u].call \in Calls
    BY <1>3, TurnType DEF IInv, TaskInv, EffectInv, CallInv, Awaiting, OnCall, Performing
  <2>2. /\ ledger'[c].state = "completed"
        /\ \A d \in Calls : d # c => ledger'[d] = ledger[d]
    BY <1>2, <1>3 DEF IInv, RowTypeOK
  <2>3. \A u \in Tasks : pc'[u] \in Performing => u # t /\ pc[u] \in Performing
    BY <1>6 DEF Performing
  <2> HIDE DEF c
  <2>4. /\ \A d \in Calls : Len(effects'[d]) <= 1
        /\ \A d \in Calls : ledger'[d].state = "none" => effects'[d] = <<>>
    BY <1>3, <2>2 DEF IInv, TaskInv, EffectInv
  <2>5. \A u \in Tasks :
          pc'[u] \in Performing => ledger'[snap'[u].call].state = "executing"
    BY <1>6, <2>1, <2>2, <2>3 DEF IInv, TaskInv, EffectInv
  <2>6. \A u \in Tasks : pc'[u] = "perform" => effects'[snap'[u].call] = <<>>
    BY <1>3, <1>6 DEF IInv, TaskInv, EffectInv
  <2>7. \A u, v \in Tasks : /\ pc'[u] \in Performing /\ pc'[v] \in Performing
                            /\ snap'[u].call = snap'[v].call
                            => u = v
    BY <1>6, <2>3 DEF IInv, TaskInv, EffectInv
  <2> QED BY <2>4, <2>5, <2>6, <2>7 DEF EffectInv
<1> QED BY <1>1, <1>4, <1>7, <1>8, <1>9 DEF IInv, TaskInv

(* dispose, and the verification phase.                                     *)
LEMMA disposeStep == ASSUME IInv, NEW t \in Tasks, dispose(t) PROVE IInv'
<1>1. FenceTypeOK'
  BY FenceStays DEF IInv, dispose
<1>2. WorldTypeOK'
  BY ReleaseHandleType DEF IInv, dispose
<1>3. Frozen /\ UNCHANGED <<run, ledgerVars>>
  BY DEF dispose, Frozen
<1>4. \/ Goto(t, "release") /\ UNCHANGED <<current, outer>>
      \/ DriveError(t)
  BY DEF dispose
<1>5. TaskInv' /\ current' \subseteq Tasks /\ outer' \subseteq Tasks
  <2>1. CASE Goto(t, "release") /\ UNCHANGED <<current, outer>>
    <3>1. TaskInv'
      BY <1>3, <2>1, GotoInv DEF IInv, Points, Performing, OnCall
    <3> QED BY <2>1, <3>1 DEF IInv, RowTypeOK
  <2>2. CASE DriveError(t)
    BY <1>3, <2>2, DriveErrorInv DEF IInv, RowTypeOK, WorldTypeOK
  <2> QED BY <1>4, <2>1, <2>2
<1>6. RowTypeOK'
  BY <1>3, <1>5 DEF IInv, RowTypeOK
<1> QED BY <1>1, <1>2, <1>5, <1>6 DEF IInv

(* cancel disposes of the environment and writes cancelled.                 *)
LEMMA cancelDisposeStep ==
  ASSUME IInv, NEW t \in Tasks, cancelDispose(t) PROVE IInv'
<1>1. FenceTypeOK' /\ RowTypeOK'
  BY FenceStays, RowStays DEF IInv, cancelDispose
<1>2. WorldTypeOK'
  BY ReleaseHandleType DEF IInv, cancelDispose
<1>3. Frozen /\ Grows
  BY DEF cancelDispose, Frozen, Grows
<1> DEFINE s == [With(t, "cancelled") EXCEPT !.call = 0, !.question = 0,
                                             !.approval = FALSE]
<1>4. With(t, "cancelled") \in Snapshots
  BY WithType DEF IInv, TaskInv, TaskTypeOK, Statuses, Terminal
<1>5. 0 \in 0..MaxCalls
  BY RunEngineAssumption
<1>6. s \in Snapshots /\ s.call = 0
  BY <1>4, <1>5 DEF Snapshots
<1>7. \/ Goto(t, "release")
      \/ Persist(t, s, "release") /\ UNCHANGED <<kind, inDrive, entry, lost>>
  BY DEF cancelDispose
<1> HIDE DEF s
<1>8. TaskInv'
  <2>1. CASE Goto(t, "release")
    BY <1>3, <2>1, GotoInv DEF IInv, Points, Performing, OnCall
  <2>2. CASE Persist(t, s, "release") /\ UNCHANGED <<kind, inDrive, entry, lost>>
    BY <1>3, <1>6, <2>2, PersistInv
       DEF IInv, RowTypeOK, WorldTypeOK, Continuations, OnCall, PendingIsTool
  <2> QED BY <1>7, <2>1, <2>2
<1> QED BY <1>1, <1>2, <1>8 DEF IInv

(* The verification borrows the registered handle.                          *)
LEMMA borrowStep == ASSUME IInv, NEW t \in Tasks, borrow(t) PROVE IInv'
<1>1. FenceTypeOK' /\ WorldTypeOK'
  BY FenceStays, WorldStays DEF IInv, borrow
<1>2. Frozen /\ UNCHANGED <<run, ledgerVars>>
  BY DEF borrow, Frozen
<1>3. TaskInv' /\ current' \subseteq Tasks /\ outer' \subseteq Tasks
  <2>1. CASE Handle(t) = 0
    <3>1. DriveError(t)
      BY <2>1 DEF borrow
    <3> QED BY <1>2, <3>1, DriveErrorInv DEF IInv, RowTypeOK, WorldTypeOK
  <2>2. CASE Handle(t) # 0
    <3>1. /\ pc' = [pc EXCEPT ![t] = "verify"]
          /\ entry' = [entry EXCEPT ![t] = Handle(t)]
          /\ UNCHANGED <<kind, snap, next, fail, inDrive, lost, current, outer>>
      BY <2>2 DEF borrow
    <3>2. TaskInv'
      BY <1>2, <3>1, BorrowInv DEF OnCall
    <3> QED BY <3>1, <3>2 DEF IInv, RowTypeOK
  <2> QED BY <2>1, <2>2
<1>4. RowTypeOK'
  BY <1>2, <1>3 DEF IInv, RowTypeOK
<1> QED BY <1>1, <1>3, <1>4 DEF IInv

(* The verifier reported.                                                   *)
LEMMA verifiedStep == ASSUME IInv, NEW t \in Tasks, verified(t) PROVE IInv'
<1>1. FenceTypeOK' /\ RowTypeOK' /\ WorldTypeOK'
  BY FenceStays, RowStays, WorldStays DEF IInv, verified
<1>2. PICK st \in {"succeeded", "failed"} : snap' = [snap EXCEPT ![t].status = st]
  BY DEF verified
<1> DEFINE s == [snap[t] EXCEPT !.status = st]
<1>3. snap[t] \in Snapshots /\ st \in Statuses
  BY DEF IInv, TaskInv, TaskTypeOK, Statuses, Terminal
<1>4. s \in Snapshots /\ s.call = snap[t].call
  BY <1>3, SnapshotStatus
<1>5. snap' = [snap EXCEPT ![t] = s] /\ pc' = [pc EXCEPT ![t] = "cleanup"]
  BY <1>2 DEF verified, IInv, TaskInv, TaskTypeOK
<1>6. Frozen /\ UNCHANGED <<kind, next, fail, inDrive, entry, lost>>
  BY DEF verified, Frozen
<1> HIDE DEF s
<1>7. /\ \A u \in Tasks : pc'[u] = IF u = t THEN "cleanup" ELSE pc[u]
      /\ \A u \in Tasks : snap'[u] = IF u = t THEN s ELSE snap[u]
  BY <1>5 DEF IInv, TaskInv, TaskTypeOK
<1>8. TaskTypeOK'
  BY <1>4, <1>5, <1>6 DEF IInv, TaskInv, TaskTypeOK, Points, Waits
<1>9. CallInv'
  <2>1. PendingIsTool(run)'
    BY <1>6 DEF Frozen, IInv, TaskInv, CallInv, PendingIsTool
  <2>2. \A u \in Tasks : PendingIsTool(snap[u])'
    BY <1>4, <1>6, <1>7 DEF Frozen, IInv, TaskInv, CallInv, PendingIsTool
  <2>3. \A u \in Tasks : Awaiting(u)' \in OnCall => snap'[u].call # 0
    BY <1>6, <1>7 DEF IInv, TaskInv, CallInv, Awaiting, OnCall
  <2>4. \A u \in Tasks : pc'[u] = "decide" => Direct(u)'
    BY <1>6, <1>7 DEF IInv, TaskInv, CallInv, Direct
  <2> QED BY <2>1, <2>2, <2>3, <2>4 DEF CallInv
<1>10. EffectInv'
  BY <1>6, <1>7 DEF Frozen, IInv, TaskInv, EffectInv, Performing
<1> QED BY <1>1, <1>8, <1>9, <1>10 DEF IInv, TaskInv

(* The verifier failed.                                                     *)
LEMMA verifyFailsStep == ASSUME IInv, NEW t \in Tasks, verifyFails(t) PROVE IInv'
<1>1. FenceTypeOK' /\ WorldTypeOK'
  BY FenceStays, WorldStays DEF IInv, verifyFails
<1>2. TaskInv' /\ current' \subseteq Tasks /\ outer' \subseteq Tasks
  BY DriveErrorInv DEF IInv, verifyFails, RowTypeOK, WorldTypeOK, Frozen
<1>3. RowTypeOK'
  BY <1>2 DEF IInv, verifyFails, RowTypeOK
<1> QED BY <1>1, <1>2, <1>3 DEF IInv

(* The environment is disposed of and the outcome is written.               *)
LEMMA cleanupStep == ASSUME IInv, NEW t \in Tasks, cleanup(t) PROVE IInv'
<1>1. FenceTypeOK' /\ RowTypeOK'
  BY FenceStays, RowStays DEF IInv, cleanup
<1>2. WorldTypeOK'
  BY ReleaseHandleType DEF IInv, cleanup
<1>3. Grows /\ UNCHANGED <<kind, inDrive, entry, lost>>
  BY DEF cleanup, Grows
<1>4. Persist(t, snap[t], "release") \/ Persist(t, With(t, "failed"), "release")
  BY DEF cleanup
<1>5. snap[t] \in Snapshots /\ PendingIsTool(snap[t])
  BY DEF IInv, TaskInv, TaskTypeOK, CallInv
<1>6. TaskInv'
  BY <1>3, <1>4, <1>5, PersistInv, WithInv
     DEF IInv, RowTypeOK, WorldTypeOK, Continuations, OnCall, Statuses, Terminal
<1> QED BY <1>1, <1>2, <1>6 DEF IInv

(* Around the tasks.                                                        *)
LEMMA heartbeatStep == ASSUME IInv, NEW t \in Tasks, heartbeat(t) PROVE IInv'
<1>1. FenceTypeOK'
  BY DEF IInv, FenceTypeOK, heartbeat
<1>2. RowTypeOK'
  BY RowStays DEF IInv, heartbeat
<1>3. WorldTypeOK'
  <2>1. Handle(t) \in 0..MaxEntries
    BY HandleType DEF IInv
  <2>2. {Handle(t)} \ {0} \subseteq Entries
    BY <2>1, RunEngineAssumption DEF Entries
  <2>3. aborted \subseteq Entries
    BY DEF IInv, WorldTypeOK
  <2>4. aborted' \in {aborted, aborted \cup ({Handle(t)} \ {0})}
    BY DEF heartbeat
  <2>5. aborted' \subseteq Entries
    BY <2>2, <2>3, <2>4
  <2> QED BY <2>5 DEF IInv, WorldTypeOK, heartbeat
<1>4. TaskTypeOK'
  BY DEF IInv, TaskInv, TaskTypeOK, heartbeat
<1>5. CallInv' /\ EffectInv'
  BY DEF IInv, TaskInv, CallInv, EffectInv, PendingIsTool, Awaiting, Direct, heartbeat
<1> QED BY <1>1, <1>2, <1>3, <1>4, <1>5 DEF IInv, TaskInv

(* The invariant about tasks only reads the tasks, the row and the world.   *)
LEMMA TaskStays ==
  TaskInv /\ UNCHANGED <<run, worldVars, ledger, taskVars>> => TaskInv'
BY DEF TaskInv, TaskTypeOK, CallInv, EffectInv, PendingIsTool, Awaiting, Direct

(* A NOTIFY arrives or is lost.                                             *)
LEMMA notifyStep ==
  ASSUME IInv, NEW w \in Workers, notify(w) \/ notifyLost(w) PROVE IInv'
<1>1. FenceTypeOK' /\ RowTypeOK' /\ TaskInv'
  BY FenceStays, RowStays, TaskStays DEF IInv, notify, notifyLost
<1>2. WorldTypeOK'
  <2>1. registry[w] \in 0..MaxEntries
    BY DEF IInv, WorldTypeOK
  <2>2. registry[w] # 0 => registry[w] \in Entries
    BY <2>1, RunEngineAssumption DEF Entries
  <2>3. aborted \subseteq Entries /\ notices \subseteq Workers
    BY DEF IInv, WorldTypeOK
  <2>4. aborted' \subseteq Entries
    BY <2>2, <2>3 DEF notify, notifyLost
  <2>5. notices' \subseteq Workers
    BY <2>3 DEF notify, notifyLost
  <2>6. {crashes, expiries, failures}' \subseteq Nat
    BY DEF IInv, WorldTypeOK, notify, notifyLost, MayFail
  <2> QED BY <2>4, <2>5, <2>6 DEF IInv, WorldTypeOK, notify, notifyLost
<1> QED BY <1>1, <1>2 DEF IInv

(* The lease lapses.                                                        *)
LEMMA expireStep == ASSUME IInv, expire PROVE IInv'
<1>1. FenceTypeOK'
  BY DEF IInv, FenceTypeOK, expire, Expire
<1>2. RowTypeOK' /\ TaskInv'
  BY RowStays, TaskStays DEF IInv, expire
<1>3. WorldTypeOK'
  BY DEF IInv, WorldTypeOK, expire
<1> QED BY <1>1, <1>2, <1>3 DEF IInv

(* A process dies with all its tasks.                                       *)
LEMMA crashStep == ASSUME IInv, NEW w \in Workers, crash(w) PROVE IInv'
<1> DEFINE dead == {t \in Tasks : W(t) = w}
<1>1. Drop(dead) /\ Reset(dead)
  BY DEF crash
<1>2. FenceTypeOK'
  BY <1>1, LeaseFenceAssumption DEF IInv, FenceTypeOK, Drop, Forget
<1>3. RowTypeOK'
  BY <1>1, ResetRows DEF IInv, crash
<1>4. WorldTypeOK'
  <2>1. 0 \in 0..MaxEntries
    BY RunEngineAssumption
  <2> QED BY <2>1 DEF IInv, WorldTypeOK, crash
<1>5. TaskInv'
  BY <1>1, ResetInv DEF IInv, crash, Frozen
<1> QED BY <1>2, <1>3, <1>4, <1>5 DEF IInv

-----------------------------------------------------------------------------
(* The invariant holds initially and is preserved.                          *)
LEMMA InitIInv == Init => IInv
<1> SUFFICES ASSUME Init PROVE IInv
  OBVIOUS
<1>1. FenceTypeOK
  BY DEF Init, FenceInit, FenceTypeOK
<1>2. NoRun \in Snapshots /\ NoRun.call = 0
  BY NoRunType
<1>3. RowTypeOK
  BY <1>2 DEF Init, RowTypeOK, Actions
<1>4. 0 \in 0..MaxEntries /\ 0 <= MaxCalls
  BY RunEngineAssumption
<1>5. calls \in Seq(Turns) /\ Len(calls) = 0
  BY DEF Init
<1>6. effects \in [Calls -> Seq(Actions)]
  <2>1. <<>> \in Seq(Actions)
    OBVIOUS
  <2> QED BY <2>1 DEF Init
<1>7. WorldTypeOK
  BY <1>4, <1>5, <1>6 DEF Init, WorldTypeOK
<1>8. TaskTypeOK
  BY <1>2, <1>4 DEF Init, TaskTypeOK, Points, Kinds, Continuations, Retreats
<1>9. CallInv
  BY <1>2 DEF Init, CallInv, PendingIsTool, Awaiting, OnCall
<1>10. EffectInv
  BY DEF Init, EffectInv, Performing
<1> QED BY <1>1, <1>3, <1>7, <1>8, <1>9, <1>10 DEF IInv, TaskInv

(* Every step preserves the invariant.                                      *)
LEMMA NextIInv == IInv /\ [Next]_vars => IInv'
<1> SUFFICES ASSUME IInv, [Next]_vars PROVE IInv'
  OBVIOUS
<1>1. ASSUME NEW t \in Tasks, Work(t) PROVE IInv'
  BY <1>1, acquireLeaseStep, leaseHeldStep, releaseLeaseStep, renewStep, saveStep,
     saveConflictStep, closeBudgetStep, resumeStep, recoverEnvironmentStep,
     cancelStep, answerStep, approvalStep, decideStep, rejectedStep, approvedStep,
     preparedStep, waitLostStep, loopStep, reloadStep, withinBudgetStep,
     modelCompletedStep, modelAsksUserStep, modelCallsWithSecretStep,
     modelCallsToolStep, authorizeAskStep, authorizeDenyStep, authorizeAllowStep,
     prerenewStep, performWithStep, claimStep, performStep, performedStep,
     performEndsStep, completeStep, disposeStep, cancelDisposeStep, borrowStep,
     verifiedStep, cleanupStep
     DEF Work
<1>2. ASSUME NEW t \in Tasks, Fault(t) PROVE IInv'
  BY <1>2, startFailsStep, prepareFailsStep, failBudgetStep, driveFailsStep,
     verifyFailsStep DEF Fault
<1>3. ASSUME NEW t \in Tasks, Call(t) PROVE IInv'
  BY <1>3, startStep, recoverExpiredStep, commandStep DEF Call
<1>4. CASE UNCHANGED vars
  BY <1>4, FenceStays, RowStays, WorldStays, TaskStays DEF IInv, vars
<1> QED BY <1>1, <1>2, <1>3, <1>4, heartbeatStep, notifyStep, crashStep, expireStep
        DEF Next

(* The inductive invariant holds throughout every behaviour.                *)
LEMMA Invariance == Spec => []IInv
BY InitIInv, NextIInv, PTL DEF Spec

(* Every variable keeps its type: snapshots are well-formed, and a granted  *)
(* capability names a tool.                                                 *)
THEOREM TypeCorrect == Spec => []TypeOK
<1>1. IInv => TypeOK
  BY DEF IInv, TaskInv, TypeOK
<1> QED BY <1>1, Invariance, PTL

(* A tool call's side effect happens at most once, however many processes,  *)
(* crashes, takeovers, retries and concurrent approvals there are.          *)
THEOREM ExecutedAtMostOnce == Spec => []AtMostOnce
<1>1. IInv => AtMostOnce
  BY DEF IInv, TaskInv, EffectInv, AtMostOnce
<1> QED BY <1>1, Invariance, PTL

-----------------------------------------------------------------------------
(* The token the database accepts is held by a task of the owner, so that   *)
(* whoever renews it renews the lease of its own process.                   *)
HolderOwns == holder # NoTask => owner = WorkerOf[holder]

(* Every operation of LeaseFence keeps the token with a task of the owner.  *)
LEMMA FenceHolderOwns ==
  ASSUME FenceTypeOK, HolderOwns, [FenceNext]_fenceVars
  PROVE  HolderOwns'
<1>1. ASSUME NEW t \in Tasks, Acquire(t) PROVE HolderOwns'
  BY <1>1 DEF HolderOwns, Acquire
<1>2. ASSUME NEW t \in Tasks, Release(t) PROVE HolderOwns'
  BY <1>2 DEF HolderOwns, Release, Forget
<1>3. ASSUME NEW w \in Workers, Renew(w) \/ Invalidate(w) PROVE HolderOwns'
  BY <1>3 DEF HolderOwns, Renew, Invalidate
<1>4. ASSUME NEW ts \in SUBSET Tasks, Drop(ts) PROVE HolderOwns'
  BY <1>4 DEF HolderOwns, Drop, Forget
<1>5. CASE Expire \/ UNCHANGED fenceVars
  BY <1>5 DEF HolderOwns, Expire, fenceVars
<1> QED BY <1>1, <1>2, <1>3, <1>4, <1>5 DEF FenceNext

(* Extending the lease under an accepted token is a Renew of its owner.     *)
LEMMA AcceptedRenews ==
  ASSUME FenceTypeOK, HolderOwns, NEW t \in Tasks, TokenAccepted(t),
         live' = TRUE, UNCHANGED <<owner, holder>>
  PROVE  FenceNext
<1>1. owner = WorkerOf[t] /\ WorkerOf[t] \in Workers
  BY LeaseFenceAssumption DEF HolderOwns, TokenAccepted
<1>2. Renew(WorkerOf[t])
  BY <1>1 DEF Renew
<1> QED BY <1>1, <1>2 DEF FenceNext

(* Every step of the engine is an operation of LeaseFence or leaves it      *)
(* alone.                                                                   *)
LEMMA EngineFenceStep ==
  ASSUME FenceTypeOK, HolderOwns, [Next]_vars
  PROVE  [FenceNext]_fenceVars
<1> USE DEF fenceVars
<1>1. ASSUME NEW t \in Tasks, renew(t) \/ prerenew(t) PROVE [FenceNext]_fenceVars
  BY <1>1, AcceptedRenews DEF renew, prerenew, renewLease
<1>2. ASSUME NEW t \in Tasks, loop(t) PROVE [FenceNext]_fenceVars
  <2>1. CASE TokenAccepted(t)
    BY <1>2, <2>1, AcceptedRenews DEF loop
  <2>2. CASE ~TokenAccepted(t)
    BY <1>2, <2>2 DEF loop, FenceTypeOK
  <2> QED BY <2>1, <2>2
<1>3. ASSUME NEW t \in Tasks, heartbeat(t) PROVE [FenceNext]_fenceVars
  <2>1. W(t) \in Workers
    BY LeaseFenceAssumption DEF W
  <2>2. CASE owner = W(t)
    BY <1>3, <2>1, <2>2 DEF heartbeat, Renew, FenceNext
  <2>3. CASE owner # W(t)
    BY <1>3, <2>3 DEF heartbeat
  <2> QED BY <2>2, <2>3
<1>4. ASSUME NEW t \in Tasks, acquireLease(t) \/ releaseLease(t)
      PROVE  [FenceNext]_fenceVars
  BY <1>4 DEF acquireLease, releaseLease, FenceNext
<1>5. ASSUME NEW w \in Workers, crash(w) PROVE [FenceNext]_fenceVars
  <2>1. PICK ts \in SUBSET Tasks : Drop(ts)
    BY <1>5 DEF crash
  <2> QED BY <2>1 DEF FenceNext
<1>6. CASE expire
  BY <1>6 DEF expire, FenceNext
<1>7. ASSUME NEW t \in Tasks,
             \/ leaseHeld(t) \/ save(t) \/ saveConflict(t) \/ closeBudget(t)
             \/ resume(t) \/ recoverEnvironment(t) \/ cancel(t) \/ answer(t)
             \/ approval(t) \/ decide(t) \/ rejected(t) \/ approved(t)
             \/ prepared(t) \/ waitLost(t) \/ reload(t) \/ withinBudget(t)
      PROVE  UNCHANGED fenceVars
  BY <1>7 DEF leaseHeld, save, saveConflict, closeBudget, resume, recoverEnvironment,
              cancel, answer, approval, decide, rejected, approved, prepared, waitLost,
              reload, withinBudget, LoadFrame
<1>8. ASSUME NEW t \in Tasks,
             \/ modelCompleted(t) \/ modelAsksUser(t) \/ modelCallsWithSecret(t)
             \/ modelCallsTool(t) \/ authorizeAsk(t) \/ authorizeDeny(t)
             \/ authorizeAllow(t) \/ performWith(t) \/ claim(t) \/ perform(t)
             \/ performed(t) \/ performEnds(t) \/ complete(t) \/ dispose(t)
             \/ cancelDispose(t) \/ borrow(t) \/ verified(t) \/ cleanup(t)
      PROVE  UNCHANGED fenceVars
  BY <1>8 DEF modelCompleted, modelAsksUser, modelCallsWithSecret, modelCallsTool,
              authorizeAsk, authorizeDeny, authorizeAllow, AuthorizeFrame,
              performWith, claim, perform, performed, performEnds, complete,
              dispose, cancelDispose, borrow, verified, cleanup
<1>9. ASSUME NEW t \in Tasks, Fault(t) PROVE UNCHANGED fenceVars
  BY <1>9 DEF Fault, startFails, prepareFails, failBudget, driveFails, verifyFails
<1>10. ASSUME NEW t \in Tasks, Call(t) PROVE UNCHANGED fenceVars
  BY <1>10 DEF Call, start, recoverExpired, command
<1>11. ASSUME NEW w \in Workers, notify(w) \/ notifyLost(w) PROVE UNCHANGED fenceVars
  BY <1>11 DEF notify, notifyLost
<1>12. CASE UNCHANGED vars
  BY <1>12 DEF vars
<1>13. ASSUME NEW t \in Tasks, Work(t) PROVE [FenceNext]_fenceVars
  BY <1>1, <1>2, <1>4, <1>7, <1>8, <1>13 DEF Work
<1> QED BY <1>3, <1>5, <1>6, <1>9, <1>10, <1>11, <1>12, <1>13 DEF Next

(* The engine implements LeaseFence: it acquires only a lease that is free, *)
(* lapsed or its own, extends only its own, and no other step moves it.     *)
THEOREM EngineKeepsLeaseContract == Spec => LeaseContract
<1>1. Init => FenceInit /\ HolderOwns
  BY DEF Init, FenceInit, HolderOwns
<1>2. IInv /\ HolderOwns /\ [Next]_vars => HolderOwns' /\ [FenceNext]_fenceVars
  BY EngineFenceStep, FenceHolderOwns DEF IInv
<1> QED BY <1>1, <1>2, Invariance, PTL DEF Spec, LeaseContract, FenceSpec

-----------------------------------------------------------------------------
(* What the model is told.  The copies of a Run are the row and the working *)
(* snapshots of the tasks; most of them are stale, and all of them keep the *)
(* following books.                                                         *)
Copies == {run} \cup {snap[t] : t \in Tasks}

(* The policy asks for a decision about a call.                             *)
Asks(c) == c \in DOMAIN calls /\ calls[c].tool \in Tools /\ calls[c].policy = "ask"

(* A run-scoped decision covers the pending call of a snapshot.             *)
Covered(s, verdict) == <<verdict, calls[s.call].tool>> \in s.grants

(* Only asked calls come to the approval ledger, and a call that came there *)
(* is covered by nothing but the decision about itself.                     *)
AskedInv ==
    /\ \A c \in Calls : approvals[c] # "none" => Asks(c)
    /\ \A x \in Copies : x.call # 0 /\ approvals[x.call] # "none" =>
         /\ Covered(x, "allow") => approvals[x.call] = "approve_run"
         /\ Covered(x, "deny") => approvals[x.call] = "reject_run"

(* While a call did not come there, its snapshots have the same grants.     *)
SameGrants ==
    \A x, y \in Copies :
      x.call # 0 /\ x.call = y.call /\ approvals[x.call] = "none" => x.grants = y.grants

(* A call that a run-scoped rejection keeps from being asked about or run.  *)
Barred(c) ==
    /\ Asks(c) /\ approvals[c] = "none" /\ effects[c] = <<>>
    /\ \A x \in Copies : x.call = c => Covered(x, "deny") /\ ~Covered(x, "allow")

Refused(c) ==
    /\ calls[c].tool \in Tools
    /\ \/ calls[c].policy = "deny"
       \/ approvals[c] \in Deny
       \/ Barred(c)

(* Why a result may say what it says.                                       *)
Grounds(c, outcome) ==
    \/ outcome = "executed" /\ ledger[c].state = "completed"
    \/ outcome = "answered" /\ calls[c].tool = "question"
    \/ outcome = "authorized" /\ calls[c].tool = "network"
    \/ outcome = "denied" /\ Refused(c)

(* The results of a copy are of different calls, none of them pending.      *)
ResultsOf(x) ==
    /\ \A i, j \in DOMAIN x.results : x.results[i].id = x.results[j].id => i = j
    /\ \A i \in DOMAIN x.results :
         /\ x.results[i].id \in DOMAIN calls
         /\ x.results[i].id # x.call /\ x.results[i].id # x.question
         /\ Grounds(x.results[i].id, x.results[i].outcome)

WaitOf(x) ==
    /\ x.question # 0 => x.question \in DOMAIN calls /\ calls[x.question].tool = "question"
    /\ x.status = "waiting_approval" =>
         x.approval /\ x.call # 0 /\ approvals[x.call] # "none"
    /\ x.status = "waiting_user" => x.question # 0

CopyInv == \A x \in Copies : ResultsOf(x) /\ WaitOf(x)

(* What ran was allowed: by the policy, by the decision about the call, or  *)
(* by the grants every snapshot of the call has.                            *)
Justified(c) ==
    /\ c \in DOMAIN calls /\ calls[c].tool = "exec"
    /\ \/ calls[c].policy = "allow" /\ effects[c][1] = "original"
       \/ Asks(c) /\ approvals[c] \in Allow /\ effects[c][1] = "original"
       \/ Asks(c) /\ approvals[c] = "edit_approve" /\ effects[c][1] = "edited"
       \/ /\ Asks(c) /\ approvals[c] = "none" /\ effects[c][1] = "original"
          /\ <<"allow", calls[c].tool>> \in run.grants
          /\ \A x \in Copies : x.call = c => Covered(x, "allow")

RanInv == \A c \in Calls :
    /\ ledger[c].state = "completed" => effects[c] # <<>>
    /\ effects[c] # <<>> => Justified(c)

Books == AskedInv /\ SameGrants /\ CopyInv /\ RanInv

-----------------------------------------------------------------------------
(* Where a task is, and what it then knows.                                 *)
InLoop == {"budget", "model", "authorize", "prerenew", "borrow", "verify", "cleanup"}
Authorized == {"prerenew", "perform_with", "claim", "perform", "performing", "complete"}
Writing == {"renew", "save"}

StatusAt(t) ==
    LET p == Awaiting(t)
        s == snap[t].status
    IN  /\ p \in {"budget", "model"} \cup (OnCall \ {"decide"}) => s = "running"
        /\ p \in {"budget", "model"} => pc[t] = p
        /\ p = "model" => snap[t].call = 0
        /\ p = "decide" => s = "waiting_approval"
        /\ p = "prepare" => s = "preparing"
        /\ p = "loop" => s = "running" \/ (inDrive[t] /\ s = "failed")
        /\ p \in {"borrow", "verify"} => s = "verifying"
        /\ p = "cleanup" => s \in {"succeeded", "failed"}
        /\ p = "canceldispose" => s = "cancelling"
        /\ p \in {"acquire", "load"} =>
             IF pc[t] \in Writing THEN s = "queued" ELSE run.status # "absent"

(* The calls that come to drive().                                          *)
Drives(t) == kind[t] \in {"start", "resume", "answer", "approved"} \cup ApprovalKinds

(* drive() works on its own read of the Run, the approval commands on the   *)
(* snapshot of their frame.                                                 *)
DriveAt(t) ==
    LET p == Awaiting(t)
    IN  /\ p \in InLoop => inDrive[t] /\ ~Direct(t)
        /\ p \in Authorized => (Direct(t) <=> ~inDrive[t])
        /\ p = "dispose" => kind[t] = "recover" \/ inDrive[t]
        /\ p \in {"prepare", "loop", "reload"} => Drives(t)
        /\ p = "reload" => ~Direct(t)
        /\ inDrive[t] => Drives(t) /\ ~Direct(t)
        /\ pc[t] \in Writing /\ fail[t] = "dispose" => next[t] = "dispose"
        /\ pc[t] \in Writing \cup {"idle"} /\ fail[t] = "idle" => ~inDrive[t]
        /\ pc[t] = "idle" => fail[t] = "idle"
        /\ p = "idle" => pc[t] = "idle"

(* A task on its way to perform has the permission in its hands.            *)
Permitted(t) ==
    LET c == snap[t].call
    IN  /\ calls[c].tool = "exec"
        /\ Direct(t) =>
             kind[t] \in Allow \cup {"edit_approve"} /\ approvals[c] = kind[t]
        /\ ~Direct(t) =>
             \/ calls[c].policy = "allow"
             \/ Asks(c) /\ Covered(snap[t], "allow") /\ snap[t].grants \subseteq run.grants

CallAt(t) ==
    LET p == Awaiting(t)
        c == snap[t].call
    IN  /\ p = "rejected" => kind[t] \in Deny /\ approvals[c] = kind[t]
        /\ p = "approved" =>
             kind[t] \in Allow \cup {"edit_approve"} /\ approvals[c] = kind[t]
        /\ p \in {"budget", "model", "authorize"} => snap[t].grants \subseteq run.grants
        /\ p \in Authorized => Permitted(t)
        /\ pc[t] \in {"performing", "complete"} => effects[c] # <<>>

(* What one write does to the row: a change of status, or one report.       *)
Moved(r, s) ==
    /\ s.results = r.results
    /\ s.status = r.status \/ <<r.status, s.status>> \in Lifecycle!Moves
    /\ s.call = r.call \/ r.call = 0 \/ (s.call = 0 /\ s.status = "cancelled")

Reported(r, s) ==
    \E c \in Calls, o \in Outcomes :
      /\ s.results = Append(r.results, [id |-> c, outcome |-> o])
      /\ \/ /\ r.status = "running" /\ s.status = "running" /\ o # "answered"
            /\ s.call = 0 /\ r.call \in {0, c}
         \/ /\ r.status = "waiting_user" /\ s.status \in {"running", "preparing"}
            /\ o = "answered" /\ s.call = r.call

Change(r, s) == r.grants \subseteq s.grants /\ (Moved(r, s) \/ Reported(r, s))

(* A task whose snapshot has the row's version has the row in its hands, or *)
(* a change of it.                                                          *)
CurrentAt(t) == t \in current =>
    /\ pc[t] \in Writing => Change(run, snap[t])
    /\ pc[t] \in Points \ (Writing \cup {"idle", "acquire", "load", "cleanup", "dispose",
                                         "release"}) => snap[t] = run
    /\ pc[t] = "cleanup" => run.status = "verifying" /\ Moved(run, snap[t])
                              /\ run.grants = snap[t].grants

(* While drive() has not written, the frame that called it can still record *)
(* a failure.                                                               *)
OuterAt(t) ==
    LET p == Awaiting(t)
    IN  /\ t \in outer /\ kind[t] # "recover"
        /\ \/ p \in InLoop \cup Authorized \cup {"dispose"}
           \/ p = "approved" /\ pc[t] \notin Writing
        => run.status = "running"

At(t) == StatusAt(t) /\ DriveAt(t) /\ CallAt(t) /\ CurrentAt(t) /\ OuterAt(t)

(* Nothing happens before start.                                            *)
StartInv == slot = "none" => run = NoRun /\ \A t \in Tasks : pc[t] = "idle"

(* What the model is told about a Run, and what that rests on.              *)
TruthInv == Books /\ StartInv /\ \A t \in Tasks : At(t)

-----------------------------------------------------------------------------
(* The copies are snapshots whose pending call is a numbered tool call.     *)
LEMMA CopyTypes ==
  ASSUME IInv
  PROVE  /\ run \in Copies /\ \A t \in Tasks : snap[t] \in Copies
         /\ Copies \subseteq Snapshots
         /\ DOMAIN calls = 1..Len(calls) /\ DOMAIN calls \subseteq Calls
         /\ \A c \in DOMAIN calls : calls[c] \in Turns
         /\ \A x \in Copies : x.call # 0 => x.call \in DOMAIN calls /\ calls[x.call].tool \in Tools
<1>1. /\ run \in Snapshots /\ snap \in [Tasks -> Snapshots]
      /\ calls \in Seq(Turns) /\ Len(calls) <= MaxCalls
      /\ PendingIsTool(run) /\ \A t \in Tasks : PendingIsTool(snap[t])
  BY DEF IInv, RowTypeOK, WorldTypeOK, TaskInv, TaskTypeOK, CallInv
<1>2. /\ run \in Copies /\ \A t \in Tasks : snap[t] \in Copies
      /\ Copies \subseteq Snapshots
  BY <1>1 DEF Copies
<1>3. Len(calls) \in Nat /\ DOMAIN calls = 1..Len(calls)
  BY <1>1
<1>4. DOMAIN calls \subseteq Calls /\ \A c \in DOMAIN calls : calls[c] \in Turns
  BY <1>1, <1>3, RunEngineAssumption DEF Calls
<1>5. ASSUME NEW x \in Copies, x.call # 0
      PROVE  x.call \in DOMAIN calls /\ calls[x.call].tool \in Tools
  <2>1. PendingIsTool(x) /\ x \in Snapshots
    BY <1>1, <1>2 DEF Copies
  <2>2. x.call \in Nat
    BY <2>1, RunEngineAssumption DEF Snapshots
  <2> QED BY <1>3, <1>5, <2>1, <2>2 DEF PendingIsTool
<1> QED BY <1>2, <1>3, <1>4, <1>5

(* What the copies are after a step.                                        *)
LEMMA NextCopyTypes ==
  ASSUME IInv'
  PROVE  /\ Copies' \subseteq Snapshots
         /\ Copies' = {run'} \cup {snap'[t] : t \in Tasks}
<1>1. run' \in Snapshots /\ snap' \in [Tasks -> Snapshots]
  BY DEF IInv, RowTypeOK, TaskInv, TaskTypeOK
<1> QED BY <1>1 DEF Copies

(* x says no more than y: it may have forgotten a call or a question, and   *)
(* waits for nothing that y did not wait for.                               *)
Derived(x, y) ==
    /\ x.results = y.results /\ x.grants = y.grants
    /\ x.call \in {y.call, 0} /\ x.question \in {y.question, 0}
    /\ x.status = "waiting_approval" =>
         y.status = "waiting_approval" /\ x.approval = y.approval /\ x.call = y.call
    /\ x.status = "waiting_user" => y.status = "waiting_user" /\ x.question = y.question

(* The provider numbers turns and takes none back.                          *)
CallsKept == \A c \in DOMAIN calls : c \in DOMAIN calls' /\ calls'[c] = calls[c]

GroundsKept ==
    \A c \in DOMAIN calls : \A o \in Outcomes : Grounds(c, o) => Grounds(c, o)'

AskedKept == \A c \in Calls : approvals[c] # "none" => approvals'[c] # "none"

(* The entries of a sequence over S are in S.                               *)
LEMMA EntryType ==
  ASSUME NEW S, NEW s \in Seq(S), NEW i \in DOMAIN s
  PROVE  s[i] \in S
OBVIOUS

(* A copy that says no more than a true one is true.                        *)
LEMMA DerivedKept ==
  ASSUME NEW x \in Snapshots, NEW y \in Snapshots, Derived(x, y),
         ResultsOf(y), WaitOf(y), CallsKept, GroundsKept, AskedKept,
         y.call # 0 => y.call \in DOMAIN calls, DOMAIN calls \subseteq Calls
  PROVE  ResultsOf(x)' /\ WaitOf(x)'
<1>1. x.results \in Seq([id: Calls, outcome: Outcomes]) /\ x.results = y.results
  BY DEF Derived, Snapshots
<1>2. \A i \in DOMAIN x.results : x.results[i] \in [id: Calls, outcome: Outcomes]
  BY <1>1, EntryType
<1>3. ASSUME NEW i \in DOMAIN x.results
      PROVE  /\ x.results[i].id \in DOMAIN calls'
             /\ x.results[i].id # x.call /\ x.results[i].id # x.question
             /\ Grounds(x.results[i].id, x.results[i].outcome)'
  <2>1. /\ y.results[i].id \in DOMAIN calls
        /\ y.results[i].id # y.call /\ y.results[i].id # y.question
        /\ Grounds(y.results[i].id, y.results[i].outcome)
    BY <1>1 DEF ResultsOf
  <2>2. y.results[i].id \in Calls /\ y.results[i].outcome \in Outcomes
    BY <1>1, <1>2
  <2>3. y.results[i].id # 0
    BY <2>2 DEF Calls
  <2>4. Grounds(y.results[i].id, y.results[i].outcome)'
    BY <2>1, <2>2 DEF GroundsKept
  <2> QED BY <1>1, <2>1, <2>3, <2>4 DEF Derived, CallsKept
<1>4. ResultsOf(x)'
  BY <1>1, <1>3 DEF ResultsOf
<1>5. WaitOf(x)'
  BY DEF WaitOf, Derived, CallsKept, AskedKept
<1> QED BY <1>4, <1>5

(* An idle task's snapshot has no results and waits for nothing.            *)
LEMMA NoRunKept == ResultsOf(NoRun)' /\ WaitOf(NoRun)'
BY DEF ResultsOf, WaitOf, NoRun

(* Whoever has a pending call had it before, with the same grants.          *)
CallersKept ==
    \A x \in Copies' : x.call # 0 =>
      \E y \in Copies : y.call = x.call /\ y.grants = x.grants

(* A completed entry stays, and only of what ran.                           *)
LedgerKept ==
    \A c \in Calls :
      /\ ledger[c].state = "completed" => ledger'[c].state = "completed"
      /\ ledger'[c].state = "completed" => effects[c] # <<>>

(* The books about grants are kept by a step that decides nothing.          *)
LEMMA UndecidedInv ==
  ASSUME IInv, IInv', AskedInv, SameGrants, RanInv, CallersKept, LedgerKept,
         UNCHANGED <<calls, approvals, effects>>, run.grants \subseteq run'.grants
  PROVE  /\ AskedInv' /\ SameGrants' /\ RanInv'
         /\ CallsKept /\ AskedKept /\ GroundsKept
<1>1. CallsKept /\ AskedKept
  BY DEF CallsKept, AskedKept
<1>2. \A c \in DOMAIN calls : c # 0 /\ c \in Calls
  BY CopyTypes DEF Calls
<1>3. \A c : Asks(c)' <=> Asks(c)
  BY DEF Asks
<1>4. AskedInv'
  <2>1. ASSUME NEW x \in Copies', x.call # 0, approvals'[x.call] # "none"
        PROVE  /\ Covered(x, "allow")' => approvals'[x.call] = "approve_run"
               /\ Covered(x, "deny")' => approvals'[x.call] = "reject_run"
    <3>1. PICK y \in Copies : y.call = x.call /\ y.grants = x.grants
      BY <2>1 DEF CallersKept
    <3> QED BY <2>1, <3>1 DEF AskedInv, Covered
  <2>2. \A c \in Calls : approvals'[c] # "none" => Asks(c)'
    BY <1>3 DEF AskedInv
  <2> QED BY <2>1, <2>2 DEF AskedInv
<1>5. SameGrants'
  <2> SUFFICES ASSUME NEW x \in Copies', NEW z \in Copies', x.call # 0,
                      x.call = z.call, approvals'[x.call] = "none"
               PROVE  x.grants = z.grants
    BY DEF SameGrants
  <2>1. PICK y \in Copies : y.call = x.call /\ y.grants = x.grants
    BY DEF CallersKept
  <2>2. PICK v \in Copies : v.call = z.call /\ v.grants = z.grants
    BY DEF CallersKept
  <2> QED BY <2>1, <2>2 DEF SameGrants
<1>6. GroundsKept
  <2> SUFFICES ASSUME NEW c \in DOMAIN calls, NEW o \in Outcomes, Grounds(c, o)
               PROVE  Grounds(c, o)'
    BY DEF GroundsKept
  <2>1. ASSUME Barred(c) PROVE Barred(c)'
    <3>1. ASSUME NEW x \in Copies', x.call = c
          PROVE  Covered(x, "deny")' /\ ~Covered(x, "allow")'
      <4>1. PICK y \in Copies : y.call = x.call /\ y.grants = x.grants
        BY <1>2, <3>1 DEF CallersKept
      <4> QED BY <2>1, <3>1, <4>1 DEF Barred, Covered
    <3> QED BY <1>3, <2>1, <3>1 DEF Barred
  <2>2. Refused(c) => Refused(c)'
    BY <2>1 DEF Refused
  <2> QED BY <1>2, <2>2 DEF Grounds, LedgerKept
<1>7. RanInv'
  <2> SUFFICES ASSUME NEW c \in Calls
               PROVE  /\ ledger'[c].state = "completed" => effects'[c] # <<>>
                      /\ effects'[c] # <<>> => Justified(c)'
    BY DEF RanInv
  <2>1. ASSUME effects[c] # <<>> PROVE Justified(c)'
    <3>1. Justified(c)
      BY <2>1 DEF RanInv
    <3>2. ASSUME \A x \in Copies : x.call = c => Covered(x, "allow")
          PROVE  \A x \in Copies' : x.call = c => Covered(x, "allow")'
      <4> SUFFICES ASSUME NEW x \in Copies', x.call = c PROVE Covered(x, "allow")'
        OBVIOUS
      <4>1. PICK y \in Copies : y.call = x.call /\ y.grants = x.grants
        BY <1>2, <3>1 DEF CallersKept, Justified
      <4> QED BY <3>2, <4>1 DEF Covered
    <3> QED BY <1>3, <3>1, <3>2 DEF Justified
  <2> QED BY <2>1 DEF LedgerKept
<1> QED BY <1>1, <1>4, <1>5, <1>6, <1>7

(* Nothing new is said: every copy comes from an earlier one.               *)
Descend == \A x \in Copies' : x = NoRun \/ \E y \in Copies : Derived(x, y)

(* The copies stay true when each comes from an earlier one.                *)
LEMMA CopiesDescend ==
  ASSUME IInv, IInv', CopyInv, Descend, CallsKept, AskedKept, GroundsKept
  PROVE  CopyInv'
<1> SUFFICES ASSUME NEW x \in Copies' PROVE ResultsOf(x)' /\ WaitOf(x)'
  BY DEF CopyInv
<1>1. CASE x = NoRun
  BY <1>1, NoRunKept
<1>2. ASSUME NEW y \in Copies, Derived(x, y) PROVE ResultsOf(x)' /\ WaitOf(x)'
  <2>1. x \in Snapshots
    BY NextCopyTypes
  <2> QED BY <1>2, <2>1, CopyTypes, DerivedKept DEF CopyInv
<1> QED BY <1>1, <1>2 DEF Descend

(* The ledgers, the numbered turns and what ran stay as they are.           *)
Same == UNCHANGED <<calls, ledger, approvals, effects>>

(* A step that only hands copies on keeps the books.                        *)
LEMMA DescendInv ==
  ASSUME IInv, IInv', Books, Descend, Same, run.grants \subseteq run'.grants
  PROVE  Books'
<1>1. CallersKept
  <2> SUFFICES ASSUME NEW x \in Copies', x.call # 0
               PROVE  \E y \in Copies : y.call = x.call /\ y.grants = x.grants
    BY DEF CallersKept
  <2>1. x # NoRun
    BY DEF NoRun
  <2>2. PICK y \in Copies : Derived(x, y)
    BY <2>1 DEF Descend
  <2> QED BY <2>2 DEF Derived
<1>2. LedgerKept
  BY DEF LedgerKept, Same, Books, RanInv
<1>3. /\ AskedInv' /\ SameGrants' /\ RanInv'
      /\ CallsKept /\ AskedKept /\ GroundsKept
  BY <1>1, <1>2, UndecidedInv DEF Same, Books
<1> QED BY <1>3, CopiesDescend DEF Books

(* The snapshot of one task is replaced by one that says no more.           *)
LEMMA MoveInv ==
  ASSUME IInv, IInv', Books, NEW t \in Tasks, NEW s,
         s = NoRun \/ Derived(s, snap[t]) \/ Derived(s, run),
         snap' = [snap EXCEPT ![t] = s], run' = run, Same
  PROVE  Books'
<1>1. \A x : Derived(x, x)
  BY DEF Derived
<1>2. \A u \in Tasks : snap'[u] = IF u = t THEN s ELSE snap[u]
  BY DEF IInv, TaskInv, TaskTypeOK
<1>3. Descend
  <2> SUFFICES ASSUME NEW x \in Copies' PROVE x = NoRun \/ \E y \in Copies : Derived(x, y)
    BY DEF Descend
  <2>1. run \in Copies /\ \A u \in Tasks : snap[u] \in Copies
    BY CopyTypes
  <2>2. CASE x = run'
    BY <1>1, <2>1, <2>2
  <2>3. ASSUME NEW u \in Tasks, x = snap'[u]
        PROVE  x = NoRun \/ \E y \in Copies : Derived(x, y)
    <3>1. CASE u = t
      BY <1>2, <2>1, <2>3, <3>1
    <3>2. CASE u # t
      BY <1>1, <1>2, <2>1, <2>3, <3>2
    <3> QED BY <3>1, <3>2
  <2> QED BY <2>2, <2>3, NextCopyTypes
<1> QED BY <1>3, DescendInv

(* Nothing is written at all.                                               *)
LEMMA StayInv ==
  ASSUME IInv, IInv', Books, UNCHANGED <<run, snap>>, Same
  PROVE  Books'
<1>1. \A x : Derived(x, x)
  BY DEF Derived
<1>2. Descend
  BY <1>1 DEF Descend, Copies
<1> QED BY <1>2, DescendInv

-----------------------------------------------------------------------------
(* What the other tasks see of a step of t.                                 *)
Others(t) ==
    \A u \in Tasks \ {t} :
      /\ pc'[u] = pc[u] /\ kind'[u] = kind[u] /\ snap'[u] = snap[u]
      /\ next'[u] = next[u] /\ fail'[u] = fail[u] /\ inDrive'[u] = inDrive[u]
      /\ u \in current' => u \in current /\ run' = run
      /\ u \in outer' => u \in outer /\ run' = run

DecisionsKept ==
    \A c \in Calls : approvals[c] \in ApprovalKinds => approvals'[c] = approvals[c]

EffectsKept == \A c \in Calls : effects[c] # <<>> => effects'[c] # <<>>

WorldStep ==
    /\ CallsKept /\ DecisionsKept /\ EffectsKept
    /\ run.grants \subseteq run'.grants
    /\ run.status # "absent" => run'.status # "absent"

(* A step that writes neither the row nor the ledgers changes nothing       *)
(* others rely on.                                                          *)
LEMMA SameWorld ==
  ASSUME run' = run, Same
  PROVE  WorldStep
BY DEF WorldStep, Same, CallsKept, DecisionsKept, EffectsKept

(* A step of t leaves every other task where it is.                         *)
LEMMA OthersAt ==
  ASSUME IInv, NEW t \in Tasks, NEW u \in Tasks \ {t}, At(u), Others(t), WorldStep
  PROVE  At(u)'
<1>1. /\ pc'[u] = pc[u] /\ kind'[u] = kind[u] /\ snap'[u] = snap[u]
      /\ next'[u] = next[u] /\ fail'[u] = fail[u] /\ inDrive'[u] = inDrive[u]
      /\ u \in current' => u \in current /\ run' = run
      /\ u \in outer' => u \in outer /\ run' = run
  BY DEF Others
<1>2. Awaiting(u)' = Awaiting(u)
  BY <1>1 DEF Awaiting
<1>3. StatusAt(u)'
  BY <1>1, <1>2 DEF At, StatusAt, WorldStep
<1>4. DriveAt(u)'
  BY <1>1, <1>2 DEF At, DriveAt, Direct, Drives
<1>5. CallAt(u)'
  <2>1. Awaiting(u) \in OnCall => snap[u].call # 0
    BY DEF IInv, TaskInv, CallInv
  <2>2. snap[u].call # 0 => snap[u].call \in DOMAIN calls /\ snap[u].call \in Calls
    BY CopyTypes
  <2>3. ASSUME Awaiting(u) \in {"rejected", "approved"} PROVE approvals'[snap[u].call] = approvals[snap[u].call]
    BY <2>1, <2>2, <2>3 DEF At, CallAt, WorldStep, DecisionsKept, OnCall, ApprovalKinds
  <2>4. ASSUME Awaiting(u) \in Authorized PROVE Permitted(u)'
    <3>1. Permitted(u) /\ snap[u].call \in DOMAIN calls /\ snap[u].call \in Calls
      BY <2>1, <2>2, <2>4 DEF At, CallAt, OnCall, Authorized
    <3>2. calls'[snap[u].call] = calls[snap[u].call] /\ snap[u].call \in DOMAIN calls'
      BY <3>1 DEF WorldStep, CallsKept
    <3>3. Direct(u)' <=> Direct(u)
      BY <1>1 DEF Direct
    <3>4. approvals[snap[u].call] = kind[u] /\ kind[u] \in Allow \cup {"edit_approve"}
            => approvals'[snap[u].call] = kind[u]
      BY <3>1 DEF WorldStep, DecisionsKept, ApprovalKinds
    <3> QED BY <1>1, <3>1, <3>2, <3>3, <3>4 DEF Permitted, Covered, Asks, WorldStep
  <2>5. ASSUME pc[u] \in {"performing", "complete"} PROVE effects'[snap[u].call] # <<>>
    <3>1. Awaiting(u) \in OnCall
      BY <2>5 DEF Awaiting, OnCall
    <3> QED BY <2>1, <2>2, <2>5, <3>1 DEF At, CallAt, WorldStep, EffectsKept
  <2>6. Awaiting(u) \in {"budget", "model", "authorize"} => snap[u].grants \subseteq run'.grants
    BY DEF At, CallAt, WorldStep
  <2> QED BY <1>1, <1>2, <2>3, <2>4, <2>5, <2>6 DEF At, CallAt
<1>6. CurrentAt(u)'
  BY <1>1 DEF At, CurrentAt
<1>7. OuterAt(u)'
  BY <1>1, <1>2 DEF At, OuterAt
<1> QED BY <1>3, <1>4, <1>5, <1>6, <1>7 DEF At

(* A step of a task that was called.                                        *)
LEMMA TaskStep ==
  ASSUME IInv, IInv', TruthInv, NEW t \in Tasks, pc[t] # "idle",
         slot' \in {slot, "closed"}, Others(t), WorldStep, Books', At(t)'
  PROVE  TruthInv'
<1>1. StartInv'
  BY DEF TruthInv, StartInv
<1>2. \A u \in Tasks : At(u)'
  BY OthersAt DEF TruthInv
<1> QED BY <1>1, <1>2 DEF TruthInv

(* Going to release is always right: nothing is known there.                *)
LEMMA ReleaseAt ==
  ASSUME NEW t \in Tasks, At(t), pc'[t] = "release", kind'[t] = kind[t],
         inDrive'[t] = inDrive[t]
  PROVE  At(t)'
<1> USE DEF At
<1>1. Awaiting(t)' = pc'[t]
  BY DEF Awaiting
<1>2. StatusAt(t)' /\ OuterAt(t)'
  BY <1>1 DEF StatusAt, OuterAt, OnCall, InLoop, Authorized
<1>3. DriveAt(t)'
  BY <1>1 DEF DriveAt, InLoop, Authorized, Direct, Drives, Writing
<1>4. CallAt(t)' /\ CurrentAt(t)'
  BY <1>1 DEF CallAt, CurrentAt, Authorized, Writing
<1> QED BY <1>2, <1>3, <1>4

(* A write after which the task is finished.                                *)
LEMMA WriteReleaseAt ==
  ASSUME NEW t \in Tasks, At(t), pc'[t] = "renew", next'[t] = "release",
         fail'[t] = "release", kind'[t] = kind[t], inDrive'[t] \in {inDrive[t], FALSE},
         t \in current' => Change(run', snap'[t])
  PROVE  At(t)'
<1> USE DEF At
<1>1. Awaiting(t)' = "release"
  BY DEF Awaiting
<1>2. StatusAt(t)' /\ OuterAt(t)'
  BY <1>1 DEF StatusAt, OuterAt, OnCall, InLoop, Authorized
<1>3. DriveAt(t)'
  BY <1>1 DEF DriveAt, InLoop, Authorized, Direct, Drives, Writing
<1>4. CallAt(t)' /\ CurrentAt(t)'
  BY <1>1 DEF CallAt, CurrentAt, Authorized, Writing
<1> QED BY <1>2, <1>3, <1>4

(* A write after which the loop goes on.                                    *)
LEMMA WriteLoopAt ==
  ASSUME NEW t \in Tasks, At(t), pc'[t] = "renew", next'[t] = "loop",
         fail'[t] = "release", kind'[t] = kind[t], inDrive'[t] = inDrive[t],
         snap'[t].status = "running" \/ (inDrive[t] /\ snap'[t].status = "failed"),
         Drives(t), t \in current' => Change(run', snap'[t])
  PROVE  At(t)'
<1> USE DEF At
<1>1. Awaiting(t)' = "loop"
  BY DEF Awaiting
<1>2. StatusAt(t)' /\ OuterAt(t)'
  BY <1>1 DEF StatusAt, OuterAt, OnCall, InLoop, Authorized
<1>3. DriveAt(t)'
  BY <1>1 DEF DriveAt, InLoop, Authorized, Direct, Drives, Writing
<1>4. CallAt(t)' /\ CurrentAt(t)'
  BY <1>1 DEF CallAt, CurrentAt, Authorized, Writing
<1> QED BY <1>2, <1>3, <1>4

(* A task moves on without writing.                                         *)
LEMMA GotoTruth ==
  ASSUME IInv, IInv', TruthInv, NEW t \in Tasks, NEW p, pc[t] # "idle", Goto(t, p),
         run' = run, Same, slot' \in {slot, "closed"},
         current' \subseteq current, outer' \subseteq outer, At(t)'
  PROVE  TruthInv'
<1>1. Others(t)
  BY DEF Goto, Others, IInv, TaskInv, TaskTypeOK
<1>2. Books'
  BY StayInv DEF Goto, TruthInv
<1> QED BY <1>1, <1>2, SameWorld, TaskStep

(* A task begins to write a copy that says no more than one there was.      *)
LEMMA PersistTruth ==
  ASSUME IInv, IInv', TruthInv, NEW t \in Tasks, NEW s, NEW n, NEW f, pc[t] # "idle",
         PersistOr(t, s, n, f), Derived(s, snap[t]) \/ Derived(s, run),
         run' = run, Same, slot' \in {slot, "closed"}, kind' = kind,
         \A u \in Tasks \ {t} : inDrive'[u] = inDrive[u],
         current' \subseteq current \cup {t}, outer' \subseteq outer \cup {t}, At(t)'
  PROVE  TruthInv'
<1>1. Others(t)
  BY DEF PersistOr, Others, IInv, TaskInv, TaskTypeOK
<1>2. Books'
  BY MoveInv DEF PersistOr, TruthInv
<1> QED BY <1>1, <1>2, SameWorld, TaskStep

(* A task gives its lease back.                                             *)
LEMMA GotoRelease ==
  ASSUME IInv, IInv', TruthInv, NEW t \in Tasks, pc[t] # "idle", Goto(t, "release"),
         run' = run, Same, slot' \in {slot, "closed"},
         current' \subseteq current, outer' \subseteq outer
  PROVE  TruthInv'
<1>1. /\ pc'[t] = "release" /\ kind'[t] = kind[t] /\ inDrive'[t] = inDrive[t]
      /\ At(t)
  BY DEF Goto, IInv, TaskInv, TaskTypeOK, TruthInv
<1> QED BY <1>1, ReleaseAt, GotoTruth

(* Writing a status changes nothing else.                                   *)
LEMMA WithDerived ==
  ASSUME NEW s \in Snapshots, NEW st, st \notin Waiting
  PROVE  /\ Derived([s EXCEPT !.status = st], s)
         /\ [s EXCEPT !.status = st].status = st
         /\ [s EXCEPT !.status = st].call = s.call
         /\ [s EXCEPT !.status = st].grants = s.grants
         /\ [s EXCEPT !.status = st].results = s.results
         /\ <<s.status, st>> \in Lifecycle!Moves => Change(s, [s EXCEPT !.status = st])
BY DEF Derived, Snapshots, Waiting, Change, Moved

(* What PersistOr does to the task that writes.                             *)
LEMMA PersistWrites ==
  ASSUME IInv, NEW t \in Tasks, NEW s, NEW n, NEW f, PersistOr(t, s, n, f)
  PROVE  pc'[t] = "renew" /\ snap'[t] = s /\ next'[t] = n /\ fail'[t] = f
BY DEF IInv, TaskInv, TaskTypeOK, PersistOr

(* It writes and is finished.                                               *)
LEMMA PersistRelease ==
  ASSUME IInv, IInv', TruthInv, NEW t \in Tasks, NEW s, pc[t] # "idle",
         Persist(t, s, "release"), Derived(s, snap[t]) \/ Derived(s, run),
         run' = run, Same, slot' \in {slot, "closed"}, kind' = kind, inDrive' = inDrive,
         current' \subseteq current \cup {t}, outer' \subseteq outer \cup {t},
         t \in current' => Change(run, s)
  PROVE  TruthInv'
<1>1. PersistOr(t, s, "release", "release")
  BY DEF Persist
<1>2. /\ pc'[t] = "renew" /\ snap'[t] = s /\ next'[t] = "release"
      /\ fail'[t] = "release"
  BY <1>1, PersistWrites
<1>3. At(t)'
  BY <1>2, WriteReleaseAt DEF TruthInv
<1> QED BY <1>1, <1>3, PersistTruth

(* It writes and goes on in the loop.                                       *)
LEMMA PersistLoop ==
  ASSUME IInv, IInv', TruthInv, NEW t \in Tasks, NEW s, pc[t] # "idle",
         Persist(t, s, "loop"), Derived(s, snap[t]) \/ Derived(s, run),
         s.status = "running" \/ (inDrive[t] /\ s.status = "failed"), Drives(t),
         run' = run, Same, slot' \in {slot, "closed"}, kind' = kind, inDrive' = inDrive,
         current' \subseteq current \cup {t}, outer' \subseteq outer \cup {t},
         t \in current' => Change(run, s)
  PROVE  TruthInv'
<1>1. PersistOr(t, s, "loop", "release")
  BY DEF Persist
<1>2. /\ pc'[t] = "renew" /\ snap'[t] = s /\ next'[t] = "loop" /\ fail'[t] = "release"
  BY <1>1, PersistWrites
<1>3. At(t)'
  BY <1>2, WriteLoopAt DEF TruthInv
<1> QED BY <1>1, <1>3, PersistTruth

-----------------------------------------------------------------------------
(* Every action keeps the books and the places of the tasks.                *)

(* Calls end.                                                               *)
LEMMA ResetTruth ==
  ASSUME IInv, IInv', TruthInv, NEW ts, Reset(ts), run' = run, Same,
         slot' \in {slot, "closed"}
  PROVE  TruthInv'
<1>1. ASSUME NEW u \in Tasks
      PROVE  /\ pc'[u] = IF u \in ts THEN "idle" ELSE pc[u]
             /\ kind'[u] = IF u \in ts THEN "none" ELSE kind[u]
             /\ snap'[u] = IF u \in ts THEN NoRun ELSE snap[u]
             /\ next'[u] = IF u \in ts THEN "idle" ELSE next[u]
             /\ fail'[u] = IF u \in ts THEN "idle" ELSE fail[u]
             /\ inDrive'[u] = IF u \in ts THEN FALSE ELSE inDrive[u]
  BY DEF Reset
<1>2. current' \subseteq current /\ outer' \subseteq outer
  BY DEF Reset
<1>3. Books'
  <2>1. \A x : Derived(x, x)
    BY DEF Derived
  <2>2. Descend
    <3> SUFFICES ASSUME NEW x \in Copies'
                 PROVE  x = NoRun \/ \E y \in Copies : Derived(x, y)
      BY DEF Descend
    <3>1. run \in Copies /\ \A u \in Tasks : snap[u] \in Copies
      BY CopyTypes
    <3>2. x \in Copies \/ x = NoRun
      <4>1. CASE x = run'
        BY <3>1, <4>1
      <4>2. ASSUME NEW u \in Tasks, x = snap'[u] PROVE x \in Copies \/ x = NoRun
        BY <1>1, <3>1, <4>2
      <4> QED BY <4>1, <4>2, NextCopyTypes
    <3> QED BY <2>1, <3>2
  <2> QED BY <2>2, DescendInv DEF TruthInv
<1>4. StartInv'
  BY <1>1 DEF StartInv, TruthInv
<1>5. ASSUME NEW u \in Tasks PROVE At(u)'
  <2>1. CASE u \in ts
    <3>1. Awaiting(u)' = "idle" /\ pc'[u] = "idle"
      BY <1>1, <2>1 DEF Awaiting
    <3>2. StatusAt(u)' /\ OuterAt(u)'
      BY <3>1 DEF StatusAt, OuterAt, OnCall, InLoop, Authorized
    <3>3. DriveAt(u)' /\ CallAt(u)' /\ CurrentAt(u)'
      BY <1>1, <2>1, <3>1 DEF DriveAt, CallAt, CurrentAt, Authorized, InLoop, Writing, Drives
    <3> QED BY <3>2, <3>3 DEF At
  <2>2. CASE u \notin ts
    <3>2. /\ pc'[u] = pc[u] /\ kind'[u] = kind[u] /\ snap'[u] = snap[u]
          /\ next'[u] = next[u] /\ fail'[u] = fail[u] /\ inDrive'[u] = inDrive[u]
      BY <1>1, <2>2
    <3>3. UNCHANGED <<calls, effects, approvals>>
      BY DEF Same
    <3> QED BY <1>2, <3>2, <3>3 DEF At, StatusAt, DriveAt, CallAt, CurrentAt, OuterAt,
               Awaiting, Direct, Drives, Permitted, Covered, Asks, TruthInv
  <2> QED BY <2>1, <2>2
<1> QED BY <1>3, <1>4, <1>5 DEF TruthInv

(* start admits the Run and queues it.                                      *)
LEMMA startTruth ==
  ASSUME IInv, IInv', TruthInv, NEW t \in Tasks, start(t) PROVE TruthInv'
<1> DEFINE s == [NoRun EXCEPT !.status = "queued"]
<1>1. run = NoRun /\ run' = run /\ Same /\ pc[t] = "idle" /\ slot' = "open"
  BY DEF start, TruthInv, StartInv, Same
<1>2. /\ pc'[t] = "save" /\ kind'[t] = "start" /\ snap'[t] = s /\ next'[t] = "acquire"
      /\ fail' = fail /\ inDrive' = inDrive /\ current' = current \cup {t} /\ outer' = outer
      /\ snap' = [snap EXCEPT ![t] = s]
  BY DEF start, Begin, IInv, TaskInv, TaskTypeOK
<1>3. Others(t)
  BY <1>1 DEF start, Begin, Others, IInv, TaskInv, TaskTypeOK
<1>4. s.status = "queued" /\ Derived(s, run) /\ Change(run, s)
  BY <1>1, NoRunType, WithDerived
     DEF Waiting, NoRun, Lifecycle!Moves
<1> HIDE DEF s
<1>5. Books'
  BY <1>1, <1>2, <1>4, MoveInv DEF TruthInv
<1>6. At(t)'
  <2>0. At(t) /\ Awaiting(t)' = "acquire"
    BY <1>2 DEF TruthInv, Awaiting
  <2>1. StatusAt(t)' /\ OuterAt(t)'
    BY <1>2, <1>4, <2>0 DEF StatusAt, OuterAt, OnCall, InLoop, Authorized, Writing
  <2>2. DriveAt(t)'
    BY <1>1, <1>2, <2>0 DEF At, DriveAt, InLoop, Authorized, Direct, Drives, Writing, ApprovalKinds, Allow, Deny
  <2>3. CallAt(t)' /\ CurrentAt(t)'
    BY <1>1, <1>2, <1>4, <2>0 DEF CallAt, CurrentAt, Authorized, Writing
  <2> QED BY <2>1, <2>2, <2>3 DEF At
<1>7. \A u \in Tasks : At(u)'
  BY <1>1, <1>3, <1>6, SameWorld, OthersAt DEF TruthInv
<1>8. StartInv'
  BY <1>1 DEF StartInv
<1> QED BY <1>5, <1>7, <1>8 DEF TruthInv

(* A call begins.                                                           *)
LEMMA BeginTruth ==
  ASSUME IInv, IInv', TruthInv, NEW t \in Tasks, NEW k, Begin(t, k, "acquire"),
         run.status # "absent", run' = run, Same, slot' = slot,
         UNCHANGED <<snap, next, fail, inDrive, current, outer>>
  PROVE  TruthInv'
<1>1. pc[t] = "idle" /\ pc'[t] = "acquire"
  BY DEF Begin, IInv, TaskInv, TaskTypeOK
<1>2. Others(t)
  BY DEF Begin, Others, IInv, TaskInv, TaskTypeOK
<1>3. Books'
  BY StayInv DEF TruthInv
<1>4. At(t)'
  <2>0. At(t) /\ Awaiting(t)' = "acquire"
    BY <1>1 DEF TruthInv, Awaiting
  <2>1. StatusAt(t)' /\ OuterAt(t)'
    BY <1>1, <2>0 DEF StatusAt, OuterAt, OnCall, InLoop, Authorized, Writing
  <2>2. DriveAt(t)'
    BY <1>1, <2>0 DEF At, DriveAt, InLoop, Authorized, Direct, Drives, Writing
  <2>3. CallAt(t)' /\ CurrentAt(t)'
    BY <1>1, <2>0 DEF CallAt, CurrentAt, Authorized, Writing
  <2> QED BY <2>1, <2>2, <2>3 DEF At
<1>5. \A u \in Tasks : At(u)'
  BY <1>2, <1>4, SameWorld, OthersAt DEF TruthInv
<1>6. slot # "none"
  BY DEF TruthInv, StartInv, NoRun
<1>7. StartInv'
  BY <1>6 DEF StartInv
<1> QED BY <1>3, <1>5, <1>7 DEF TruthInv

(* resume, recovery and the commands begin.                                 *)
LEMMA callTruth ==
  ASSUME IInv, IInv', TruthInv, NEW t \in Tasks, Call(t) PROVE TruthInv'
<1>1. CASE start(t)
  BY <1>1, startTruth
<1>2. CASE recoverExpired(t)
  BY <1>2, BeginTruth DEF recoverExpired, Same
<1>3. ASSUME NEW k \in Commands, command(t, k) PROVE TruthInv'
  BY <1>3, BeginTruth DEF command, Same
<1> QED BY <1>1, <1>2, <1>3 DEF Call

(* The lease is asked for, refused, or given back.                          *)
LEMMA leaseTruth ==
  ASSUME IInv, IInv', TruthInv, NEW t \in Tasks,
         acquireLease(t) \/ leaseHeld(t) \/ releaseLease(t)
  PROVE  TruthInv'
<1>1. CASE acquireLease(t)
  <2>1. /\ pc[t] = "acquire" /\ Goto(t, "load") /\ run' = run /\ Same /\ slot' = slot
        /\ current' = current /\ outer' = outer
    BY <1>1 DEF acquireLease, Same
  <2>2. /\ pc'[t] = "load" /\ kind' = kind /\ inDrive' = inDrive
        /\ Awaiting(t)' = "load" /\ Awaiting(t) = "acquire" /\ At(t)
    BY <2>1 DEF Goto, IInv, TaskInv, TaskTypeOK, TruthInv, Awaiting
  <2>3. At(t)'
    <3>1. StatusAt(t)' /\ OuterAt(t)'
      BY <2>1, <2>2 DEF At, StatusAt, OuterAt, OnCall, InLoop, Authorized, Writing
    <3>2. DriveAt(t)' /\ CallAt(t)' /\ CurrentAt(t)'
      BY <2>2 DEF At, DriveAt, CallAt, CurrentAt, InLoop, Authorized, Direct, Drives, Writing
    <3> QED BY <3>1, <3>2 DEF At
  <2> QED BY <2>1, <2>3, GotoTruth
<1>2. CASE leaseHeld(t)
  BY <1>2, ResetTruth DEF leaseHeld, Same
<1>3. CASE releaseLease(t)
  BY <1>3, ResetTruth DEF releaseLease, Same
<1> QED BY <1>1, <1>2, <1>3

(* The write in progress is given up at fail[t].                            *)
LEMMA FailAt ==
  ASSUME IInv, TruthInv, NEW t \in Tasks, pc[t] \in Writing, Goto(t, fail[t]), run' = run,
         outer' = outer
  PROVE  At(t)'
<1>1. /\ pc'[t] = fail[t] /\ kind' = kind /\ inDrive' = inDrive /\ fail' = fail /\ At(t)
      /\ fail[t] \in Retreats /\ Awaiting(t) = next[t]
  BY DEF Goto, IInv, TaskInv, TaskTypeOK, TruthInv, Awaiting, Writing
<1>2. Awaiting(t)' = fail[t]
  BY <1>1 DEF Awaiting, Retreats
<1>3. StatusAt(t)'
  BY <1>1, <1>2 DEF StatusAt, OnCall, Retreats
<1>4. DriveAt(t)'
  BY <1>1, <1>2 DEF At, DriveAt, InLoop, Authorized, Direct, Drives, Writing, Retreats
<1>5. CallAt(t)' /\ CurrentAt(t)'
  BY <1>1, <1>2 DEF CallAt, CurrentAt, Authorized, Writing, Retreats
<1>6. OuterAt(t)'
  BY <1>1, <1>2 DEF At, OuterAt, DriveAt, InLoop, Authorized, Retreats
<1> QED BY <1>3, <1>4, <1>5, <1>6 DEF At

(* The renewal before a write succeeds or sends the task where it gives up. *)
LEMMA renewTruth ==
  ASSUME IInv, IInv', TruthInv, NEW t \in Tasks, renew(t) PROVE TruthInv'
<1>1. /\ pc[t] = "renew" /\ run' = run /\ Same /\ slot' = slot
      /\ current' = current /\ outer' = outer
      /\ Goto(t, "save") \/ Goto(t, fail[t])
  BY DEF renew, renewLease, Same
<1>2. CASE Goto(t, "save")
  <2>1. /\ pc'[t] = "save" /\ UNCHANGED <<kind, inDrive, snap, next, fail>> /\ At(t)
        /\ Awaiting(t)' = next[t] /\ Awaiting(t) = next[t]
    BY <1>1, <1>2 DEF Goto, IInv, TaskInv, TaskTypeOK, TruthInv, Awaiting
  <2>2. StatusAt(t)'
    BY <1>1, <2>1 DEF At, StatusAt, Writing
  <2>3. DriveAt(t)'
    BY <1>1, <2>1 DEF At, DriveAt, Writing, Direct, Drives
  <2>4. CallAt(t)'
    BY <1>1, <2>1 DEF At, CallAt, Same, Permitted, Covered, Direct, Asks
  <2>5. CurrentAt(t)' /\ OuterAt(t)'
    BY <1>1, <2>1 DEF At, CurrentAt, OuterAt, Writing
  <2>6. At(t)'
    BY <2>2, <2>3, <2>4, <2>5 DEF At
  <2> QED BY <1>1, <1>2, <2>6, GotoTruth
<1>3. CASE Goto(t, fail[t])
  BY <1>1, <1>3, FailAt, GotoTruth DEF Writing
<1> QED BY <1>1, <1>2, <1>3

(* A stale copy is not written.                                             *)
LEMMA saveConflictTruth ==
  ASSUME IInv, IInv', TruthInv, NEW t \in Tasks, saveConflict(t) PROVE TruthInv'
BY FailAt, GotoTruth DEF saveConflict, Writing, Same

(* A task goes on where it wanted to, its snapshot unchanged.               *)
LEMMA NextAt ==
  ASSUME IInv, TruthInv, NEW t \in Tasks, pc[t] \in {"save", "close"},
         pc'[t] \in {next[t], "close"}, UNCHANGED <<kind, inDrive, snap, next, fail>>,
         UNCHANGED <<calls, approvals>>, run.grants \subseteq run'.grants,
         next[t] \in {"acquire"} => run'.status # "absent",
         t \in current' => snap[t] = run',
         t \in outer' /\ kind[t] # "recover" /\ next[t] \in InLoop \cup Authorized \cup {"dispose", "approved"}
           => run'.status = "running"
  PROVE  At(t)'
<1>1. /\ Awaiting(t)' = next[t] /\ Awaiting(t) = next[t] /\ At(t) /\ next[t] \in Continuations
      /\ pc'[t] \notin Writing
  BY DEF IInv, TaskInv, TaskTypeOK, TruthInv, Awaiting, Writing, Continuations
<1>2. StatusAt(t)'
  BY <1>1 DEF At, StatusAt, Writing, Continuations
<1>3. DriveAt(t)'
  <2>1. next[t] # "idle"
    BY <1>1 DEF At, DriveAt
  <2> QED BY <1>1, <2>1 DEF At, DriveAt, Writing, Direct, Drives
<1>4. CallAt(t)'
  <2>1. pc'[t] \notin {"performing", "complete"}
    BY <1>1 DEF Continuations
  <2> QED BY <1>1, <2>1 DEF At, CallAt, Permitted, Covered, Direct, Asks
<1>5. CurrentAt(t)' /\ OuterAt(t)'
  BY <1>1 DEF CurrentAt, OuterAt, Writing, Continuations
<1> QED BY <1>2, <1>3, <1>4, <1>5 DEF At

(* The budget of a finished Run is closed.                                  *)
LEMMA closeBudgetTruth ==
  ASSUME IInv, IInv', TruthInv, NEW t \in Tasks, closeBudget(t) PROVE TruthInv'
<1>1. /\ pc[t] = "close" /\ run' = run /\ Same /\ slot' = "closed"
      /\ current' = current /\ outer' = outer /\ Goto(t, next[t])
  BY DEF closeBudget, Same
<1>2. /\ pc'[t] = next[t] /\ UNCHANGED <<kind, inDrive, snap, next, fail>> /\ At(t)
      /\ Awaiting(t) = next[t]
  BY <1>1 DEF Goto, IInv, TaskInv, TaskTypeOK, TruthInv, Awaiting
<1>3. next[t] \in {"acquire"} => run.status # "absent"
  BY <1>1, <1>2 DEF At, StatusAt, Writing
<1>4. /\ t \in current => snap[t] = run
      /\ t \in outer /\ kind[t] # "recover" /\ next[t] \in InLoop \cup Authorized \cup {"dispose", "approved"}
           => run.status = "running"
  BY <1>1, <1>2 DEF At, CurrentAt, OuterAt, Points, Writing
<1>5. At(t)'
  BY <1>1, <1>2, <1>3, <1>4, NextAt DEF Same
<1> QED BY <1>1, <1>5, GotoTruth

(* The compare-and-swap makes the writer's copy the row.                    *)
LEMMA saveTruth ==
  ASSUME IInv, IInv', TruthInv, NEW t \in Tasks, save(t) PROVE TruthInv'
<1>1. /\ pc[t] = "save" /\ t \in current /\ run' = snap[t] /\ current' = {t}
      /\ outer' = IF inDrive[t] THEN {} ELSE {t}
      /\ Goto(t, IF snap[t].status \in Terminal THEN "close" ELSE next[t])
      /\ Same /\ slot' = slot /\ snap' = snap
  BY DEF save, Goto, Same
<1>2. /\ pc'[t] \in {next[t], "close"} /\ UNCHANGED <<kind, inDrive, snap, next, fail>>
      /\ At(t) /\ Awaiting(t) = next[t]
  BY <1>1 DEF Goto, IInv, TaskInv, TaskTypeOK, TruthInv, Awaiting
<1>3. Change(run, run')
  BY <1>1, <1>2 DEF At, CurrentAt, Writing
<1>4. run.grants \subseteq run'.grants /\ (run.status # "absent" => run'.status # "absent")
  BY <1>3 DEF Change, Moved, Reported, Lifecycle!Moves, Lifecycle!Live, Lifecycle!Finished
<1>5. WorldStep
  BY <1>1, <1>4 DEF WorldStep, Same, CallsKept, DecisionsKept, EffectsKept
<1>6. Others(t)
  BY <1>1 DEF Others, Goto, IInv, TaskInv, TaskTypeOK
<1>7. Books'
  <2>1. \A x : Derived(x, x)
    BY DEF Derived
  <2>2. Copies' \subseteq Copies
    BY <1>1, NextCopyTypes, CopyTypes
  <2>3. Descend
    BY <2>1, <2>2 DEF Descend
  <2> QED BY <1>1, <1>4, <2>3, DescendInv DEF TruthInv
<1>8. At(t)'
  <2>1. next[t] \in {"acquire"} => run'.status # "absent"
    BY <1>1, <1>2 DEF At, StatusAt, Writing
  <2>2. t \in outer' /\ kind[t] # "recover" /\ next[t] \in InLoop \cup Authorized \cup {"dispose", "approved"}
          => run'.status = "running"
    BY <1>1, <1>2 DEF At, DriveAt, StatusAt, OnCall, Authorized
  <2> QED BY <1>1, <1>2, <1>4, <2>1, <2>2, NextAt DEF Same
<1> QED BY <1>1, <1>5, <1>6, <1>7, <1>8, TaskStep

(* A call reads the Run.                                                    *)
LEMMA Loaded ==
  ASSUME IInv, TruthInv, NEW t \in Tasks, pc[t] = "load"
  PROVE  run.status \in Statuses /\ At(t) /\ run \in Snapshots
<1>1. At(t) /\ Awaiting(t) = "load" /\ run \in Snapshots
  BY DEF TruthInv, Awaiting, IInv, RowTypeOK
<1>2. run.status # "absent"
  BY <1>1 DEF At, StatusAt, Writing
<1> QED BY <1>1, <1>2 DEF Snapshots

(* It goes on with what it read.                                            *)
LEMMA EnterTruth ==
  ASSUME IInv, IInv', TruthInv, NEW t \in Tasks, NEW p \in {"release", "loop", "decide"},
         pc[t] # "idle", Enter(t, p), run' = run, Same, slot' = slot,
         kind' = kind, inDrive' = inDrive,
         current' \subseteq current \cup {t}, outer' \subseteq outer \cup {t},
         p = "loop" => run.status = "running" /\ Drives(t), p = "decide" => run.status = "waiting_approval"
  PROVE  TruthInv'
<1>1. /\ pc'[t] = p /\ snap'[t] = run /\ next' = next /\ fail' = fail
      /\ snap' = [snap EXCEPT ![t] = run] /\ At(t) /\ Awaiting(t)' = p
  BY DEF Enter, IInv, TaskInv, TaskTypeOK, TruthInv, Awaiting
<1>2. Others(t)
  BY DEF Enter, Others, IInv, TaskInv, TaskTypeOK
<1>3. Books'
  <2>1. Derived(run, run)
    BY DEF Derived
  <2> QED BY <1>1, <2>1, MoveInv DEF TruthInv
<1>4. At(t)'
  <2>1. StatusAt(t)' /\ OuterAt(t)'
    BY <1>1 DEF StatusAt, OuterAt, OnCall, InLoop, Authorized
  <2>2. DriveAt(t)' /\ CallAt(t)' /\ CurrentAt(t)'
    BY <1>1 DEF At, DriveAt, CallAt, CurrentAt, InLoop, Authorized, Direct, Drives, Writing
  <2> QED BY <2>1, <2>2 DEF At
<1> QED BY <1>2, <1>3, <1>4, SameWorld, TaskStep

(* A write after which the environment is prepared.                         *)
LEMMA WritePrepareAt ==
  ASSUME NEW t \in Tasks, At(t), pc'[t] = "renew", next'[t] = "prepare",
         fail'[t] = "release", kind'[t] = kind[t], inDrive'[t] = inDrive[t],
         snap'[t].status = "preparing", Drives(t),
         t \in current' => Change(run', snap'[t])
  PROVE  At(t)'
<1> USE DEF At
<1>1. Awaiting(t)' = "prepare"
  BY DEF Awaiting
<1>2. StatusAt(t)' /\ OuterAt(t)'
  BY <1>1 DEF StatusAt, OuterAt, OnCall, InLoop, Authorized
<1>3. DriveAt(t)'
  BY <1>1 DEF DriveAt, InLoop, Authorized, Direct, Drives, Writing
<1>4. CallAt(t)' /\ CurrentAt(t)'
  BY <1>1 DEF CallAt, CurrentAt, Authorized, Writing
<1> QED BY <1>2, <1>3, <1>4

(* resume prepares the Run, drives it on, or leaves it alone.               *)
LEMMA resumeTruth ==
  ASSUME IInv, IInv', TruthInv, NEW t \in Tasks, resume(t) PROVE TruthInv'
<1>1. /\ pc[t] = "load" /\ run' = run /\ Same /\ slot' = slot
      /\ UNCHANGED <<kind, inDrive>>
      /\ current' = current \cup {t} /\ outer' = outer \cup {t}
  BY DEF resume, Load, LoadFrame, Same
<1>2. run.status \in Statuses /\ At(t) /\ run \in Snapshots /\ Drives(t)
  BY <1>1, Loaded DEF resume, Drives
<1>3. CASE run.status \notin Startable \ Waiting
  <2>1. Enter(t, "release")
    BY <1>3 DEF resume
  <2> QED BY <1>1, <2>1, EnterTruth
<1>4. CASE run.status \in Startable \ Waiting /\ Handle(t) # 0
  <2>1. Enter(t, IF run.status = "running" THEN "loop" ELSE "release")
    BY <1>4 DEF resume
  <2>2. CASE run.status = "running"
    BY <1>1, <1>2, <2>1, <2>2, EnterTruth
  <2>3. CASE run.status # "running"
    BY <1>1, <2>1, <2>3, EnterTruth
  <2> QED BY <2>2, <2>3
<1>5. CASE run.status \in Startable \ Waiting /\ Handle(t) = 0
  <2> DEFINE s == [run EXCEPT !.status = "preparing"]
  <2>1. Persist(t, s, "prepare")
    BY <1>5 DEF resume
  <2>2. <<run.status, "preparing">> \in Lifecycle!Moves
    BY <1>5 DEF Startable, Waiting, Lifecycle!Moves
  <2>3. Derived(s, run) /\ s.status = "preparing" /\ Change(run, s)
    BY <1>2, <2>2, WithDerived DEF Waiting
  <2> HIDE DEF s
  <2>4. PersistOr(t, s, "prepare", "release")
    BY <2>1 DEF Persist
  <2>5. At(t)'
    BY <1>1, <1>2, <2>3, <2>4, PersistWrites, WritePrepareAt
  <2> QED BY <1>1, <2>3, <2>4, <2>5, PersistTruth
<1> QED BY <1>3, <1>4, <1>5

(* A write after which a handle is given up.                                *)
LEMMA WriteDisposeAt ==
  ASSUME NEW t \in Tasks, At(t), pc'[t] = "renew", next'[t] = "dispose",
         fail'[t] \in {"release", "dispose"}, kind'[t] = kind[t], inDrive'[t] = inDrive[t],
         \/ kind[t] = "recover"
         \/ inDrive[t] /\ (t \in outer' => run'.status = "running"),
         t \in current' => Change(run', snap'[t])
  PROVE  At(t)'
<1> USE DEF At
<1>1. Awaiting(t)' = "dispose"
  BY DEF Awaiting
<1>2. StatusAt(t)' /\ OuterAt(t)'
  BY <1>1 DEF StatusAt, OuterAt, OnCall, InLoop, Authorized
<1>3. DriveAt(t)'
  BY <1>1 DEF DriveAt, InLoop, Authorized, Direct, Drives, Writing
<1>4. CallAt(t)' /\ CurrentAt(t)'
  BY <1>1 DEF CallAt, CurrentAt, Authorized, Writing
<1> QED BY <1>2, <1>3, <1>4

(* recoverEnvironment marks a startable Run environment_offline.            *)
LEMMA recoverEnvironmentTruth ==
  ASSUME IInv, IInv', TruthInv, NEW t \in Tasks, recoverEnvironment(t) PROVE TruthInv'
<1>1. /\ pc[t] = "load" /\ run' = run /\ Same /\ slot' = slot
      /\ UNCHANGED <<kind, inDrive>> /\ kind[t] = "recover"
      /\ current' = current \cup {t} /\ outer' = outer \cup {t}
  BY DEF recoverEnvironment, Load, LoadFrame, Same
<1>2. run.status \in Statuses /\ At(t) /\ run \in Snapshots
  BY <1>1, Loaded
<1>3. CASE run.status \notin Startable
  BY <1>1, <1>3, EnterTruth DEF recoverEnvironment
<1>4. CASE run.status \in Startable
  <2> DEFINE s == [run EXCEPT !.status = "environment_offline"]
  <2>1. Persist(t, s, "dispose") \/ Persist(t, s, "release")
    BY <1>4 DEF recoverEnvironment
  <2>2. <<run.status, "environment_offline">> \in Lifecycle!Moves
    BY <1>4 DEF Startable, Waiting, Lifecycle!Moves, Lifecycle!Live
  <2>3. Derived(s, run) /\ Change(run, s)
    BY <1>2, <2>2, WithDerived DEF Waiting
  <2> HIDE DEF s
  <2>4. CASE Persist(t, s, "release")
    BY <1>1, <2>3, <2>4, PersistRelease
  <2>5. CASE Persist(t, s, "dispose")
    <3>1. PersistOr(t, s, "dispose", "release")
      BY <2>5 DEF Persist
    <3>2. At(t)'
      BY <1>1, <1>2, <2>3, <3>1, PersistWrites, WriteDisposeAt
    <3> QED BY <1>1, <2>3, <3>1, <3>2, PersistTruth
  <2> QED BY <2>1, <2>4, <2>5
<1> QED BY <1>3, <1>4

(* cancel reads the Run, aborts its handle and writes cancelling.           *)
LEMMA cancelTruth ==
  ASSUME IInv, IInv', TruthInv, NEW t \in Tasks, cancel(t) PROVE TruthInv'
<1>1. /\ pc[t] = "load" /\ run' = run /\ Same /\ slot' = slot
      /\ UNCHANGED <<kind, inDrive>>
      /\ current' = current \cup {t} /\ outer' = outer \cup {t}
  BY DEF cancel, Load, Same
<1>2. run.status \in Statuses /\ At(t) /\ run \in Snapshots
  BY <1>1, Loaded
<1>3. CASE Enter(t, "release")
  BY <1>1, <1>3, EnterTruth
<1>4. CASE Persist(t, [run EXCEPT !.status = "cancelling"], "canceldispose")
  <2> DEFINE s == [run EXCEPT !.status = "cancelling"]
  <2>1. <<run.status, "cancelling">> \in Lifecycle!Moves
    BY <1>2 DEF Statuses, Startable, Waiting, Terminal, Lifecycle!Moves, Lifecycle!Live,
                Lifecycle!Finished
  <2>2. Derived(s, run) /\ Change(run, s) /\ s.status = "cancelling"
    BY <1>2, <2>1, WithDerived DEF Waiting
  <2> HIDE DEF s
  <2>3. PersistOr(t, s, "canceldispose", "release")
    BY <1>4 DEF Persist, s
  <2>4. /\ pc'[t] = "renew" /\ snap'[t] = s /\ next'[t] = "canceldispose"
        /\ fail'[t] = "release"
    BY <2>3, PersistWrites
  <2>5. At(t)'
    <3>1. Awaiting(t)' = "canceldispose"
      BY <2>4 DEF Awaiting
    <3>2. StatusAt(t)' /\ OuterAt(t)'
      BY <2>2, <2>4, <3>1 DEF StatusAt, OuterAt, OnCall, InLoop, Authorized
    <3>3. DriveAt(t)'
      BY <1>1, <1>2, <2>4, <3>1 DEF At, DriveAt, InLoop, Authorized, Direct, Drives, Writing
    <3>4. CallAt(t)' /\ CurrentAt(t)'
      BY <1>1, <2>2, <2>4, <3>1 DEF CallAt, CurrentAt, Authorized, Writing
    <3> QED BY <3>2, <3>3, <3>4 DEF At
  <2> QED BY <1>1, <2>2, <2>3, <2>5, PersistTruth
<1> QED BY <1>3, <1>4 DEF cancel

-----------------------------------------------------------------------------
(* Reports.                                                                 *)

(* A copy with one more result, of a call that has none.                    *)
LEMMA Pushed ==
  ASSUME NEW s \in Snapshots, NEW y \in Snapshots, NEW c \in Calls, NEW o \in Outcomes,
         s.results = Append(y.results, [id |-> c, outcome |-> o]),
         s.call # c, s.question # c, s.call \in {0, y.call}, s.question \in {0, y.question},
         s.status \notin Waiting,
         \A i \in DOMAIN y.results : y.results[i].id # c,
         ResultsOf(y), WaitOf(y), CallsKept, GroundsKept,
         c \in DOMAIN calls', Grounds(c, o)'
  PROVE  ResultsOf(s)' /\ WaitOf(s)'
<1> DEFINE ys == y.results
           n == Len(ys)
           ss == s.results
<1>1. ys \in Seq([id: Calls, outcome: Outcomes])
  BY DEF Snapshots
<1>2. /\ n \in Nat /\ DOMAIN ys = 1..n /\ DOMAIN ss = 1..n + 1
      /\ ss[n + 1].id = c /\ ss[n + 1].outcome = o
      /\ \A i \in 1..n : ss[i] = ys[i]
  BY <1>1
<1>3. \A i \in 1..n : ys[i] \in [id: Calls, outcome: Outcomes]
  BY <1>1, <1>2, EntryType
<1>4. /\ \A i, j \in 1..n : ys[i].id = ys[j].id => i = j
      /\ \A i \in 1..n :
           /\ ys[i].id \in DOMAIN calls /\ ys[i].id # y.call /\ ys[i].id # y.question
           /\ Grounds(ys[i].id, ys[i].outcome)
      /\ \A i \in 1..n : ys[i].id # c
  BY <1>2 DEF ResultsOf
<1> HIDE DEF ys, ss, n
<1>5. \A i, j \in 1..n + 1 : ss[i].id = ss[j].id => i = j
  <2> SUFFICES ASSUME NEW i \in 1..n + 1, NEW j \in 1..n + 1, ss[i].id = ss[j].id
               PROVE  i = j
    OBVIOUS
  <2>1. (i \in 1..n \/ i = n + 1) /\ (j \in 1..n \/ j = n + 1)
    BY <1>2
  <2> QED BY <1>2, <1>4, <2>1
<1>6. ASSUME NEW i \in 1..n + 1
      PROVE  /\ ss[i].id \in DOMAIN calls' /\ ss[i].id # s.call /\ ss[i].id # s.question
             /\ Grounds(ss[i].id, ss[i].outcome)'
  <2>1. CASE i = n + 1
    BY <1>2, <2>1
  <2>2. CASE i \in 1..n
    <3>1. ss[i] = ys[i] /\ ys[i].id \in Calls /\ ys[i].outcome \in Outcomes /\ ys[i].id # 0
      BY <1>2, <1>3, <2>2 DEF Calls
    <3>2. Grounds(ys[i].id, ys[i].outcome)'
      BY <1>4, <2>2, <3>1 DEF GroundsKept
    <3> QED BY <1>4, <2>2, <3>1, <3>2 DEF CallsKept
  <2> QED BY <1>2, <2>1, <2>2
<1>7. ResultsOf(s)'
  BY <1>2, <1>5, <1>6 DEF ResultsOf, ss
<1>8. WaitOf(s)'
  BY DEF WaitOf, Waiting, CallsKept
<1> QED BY <1>7, <1>8

(* One task has a new copy.                                                 *)
LEMMA OneNew ==
  ASSUME IInv, IInv', CopyInv, CallsKept, AskedKept, GroundsKept, NEW t \in Tasks,
         NEW s, snap' = [snap EXCEPT ![t] = s], run' = run,
         ResultsOf(s)' /\ WaitOf(s)'
  PROVE  CopyInv'
<1>1. \A u \in Tasks : snap'[u] = IF u = t THEN s ELSE snap[u]
  BY DEF IInv, TaskInv, TaskTypeOK
<1>2. ASSUME NEW x \in Copies PROVE ResultsOf(x)' /\ WaitOf(x)'
  <2>1. Derived(x, x) /\ x \in Snapshots /\ (x.call # 0 => x.call \in DOMAIN calls)
        /\ DOMAIN calls \subseteq Calls
    BY CopyTypes DEF Derived
  <2> QED BY <2>1, DerivedKept DEF CopyInv
<1>3. \A x \in Copies' : x = s \/ x \in Copies
  <2> SUFFICES ASSUME NEW x \in Copies' PROVE x = s \/ x \in Copies
    OBVIOUS
  <2>1. CASE x = run'
    BY <2>1, CopyTypes
  <2>2. ASSUME NEW u \in Tasks, x = snap'[u] PROVE x = s \/ x \in Copies
    BY <1>1, <2>2, CopyTypes
  <2> QED BY <2>1, <2>2, NextCopyTypes
<1> QED BY <1>2, <1>3 DEF CopyInv

(* Keeping the books while a result is reported.                            *)
LEMMA PushBooks ==
  ASSUME IInv, IInv', Books, NEW t \in Tasks, NEW y \in Copies, NEW s \in Snapshots,
         NEW c \in Calls, NEW o \in Outcomes,
         s.results = Append(y.results, [id |-> c, outcome |-> o]), s.grants = y.grants,
         s.call # c, s.question # c, s.call \in {0, y.call}, s.question \in {0, y.question},
         s.status \notin Waiting,
         \A i \in DOMAIN y.results : y.results[i].id # c,
         snap' = [snap EXCEPT ![t] = s], run' = run,
         UNCHANGED <<calls, approvals, effects>>, LedgerKept,
         c \in DOMAIN calls, Grounds(c, o) \/ Grounds(c, o)'
  PROVE  Books'
<1>1. \A u \in Tasks : snap'[u] = IF u = t THEN s ELSE snap[u]
  BY DEF IInv, TaskInv, TaskTypeOK
<1>2. CallersKept
  <2> SUFFICES ASSUME NEW x \in Copies', x.call # 0
               PROVE  \E v \in Copies : v.call = x.call /\ v.grants = x.grants
    BY DEF CallersKept
  <2>1. CASE x = run'
    BY <2>1, CopyTypes
  <2>2. ASSUME NEW u \in Tasks, x = snap'[u]
        PROVE  \E v \in Copies : v.call = x.call /\ v.grants = x.grants
    BY <1>1, <2>2, CopyTypes
  <2> QED BY <2>1, <2>2, NextCopyTypes
<1>3. /\ AskedInv' /\ SameGrants' /\ RanInv'
      /\ CallsKept /\ AskedKept /\ GroundsKept
  BY <1>2, UndecidedInv DEF Books
<1>4. y \in Snapshots /\ ResultsOf(y) /\ WaitOf(y)
  BY CopyTypes DEF Books, CopyInv
<1>5. c \in DOMAIN calls' /\ Grounds(c, o)'
  BY <1>3 DEF GroundsKept
<1>6. ResultsOf(s)' /\ WaitOf(s)'
  BY <1>3, <1>4, <1>5, Pushed
<1> QED BY <1>3, <1>6, OneNew DEF Books

(* What a report changes of a snapshot.                                     *)
LEMMA ReportFields ==
  ASSUME IInv, NEW t \in Tasks, NEW o \in Outcomes, snap[t].call # 0,
         NEW s, s = Result(t, o) \/ (s = Executed(t) /\ o = "executed")
  PROVE  /\ s \in Snapshots /\ s.call = 0 /\ s.question = snap[t].question
         /\ s.status = snap[t].status /\ s.grants = snap[t].grants
         /\ s.results = Append(snap[t].results, [id |-> snap[t].call, outcome |-> o])
         /\ snap[t].call \in Calls
<1>1. snap \in [Tasks -> Snapshots] /\ snap[t] \in Snapshots
  BY DEF IInv, TaskInv, TaskTypeOK
<1>2. snap[t].call \in Calls
  BY <1>1, RunEngineAssumption DEF Snapshots, Calls
<1>3. s \in Snapshots /\ s.call = 0
  BY <1>1, ResultType, ExecutedType DEF Outcomes
<1>4. /\ s.question = snap[t].question
      /\ s.status = snap[t].status /\ s.grants = snap[t].grants
      /\ s.results = Append(snap[t].results, [id |-> snap[t].call, outcome |-> o])
  BY <1>1 DEF Result, Executed, Snapshots
<1> QED BY <1>2, <1>3, <1>4

(* A driver reports about its pending call and goes on.                     *)
LEMMA ReportTruth ==
  ASSUME IInv, IInv', TruthInv, NEW t \in Tasks, NEW o \in Outcomes \ {"answered"},
         NEW s, s = Result(t, o) \/ (s = Executed(t) /\ o = "executed"),
         Persist(t, s, "loop"), pc[t] \in OnCall \ {"decide"},
         run' = run, UNCHANGED <<calls, approvals, effects>>, LedgerKept, slot' = slot,
         kind' = kind, inDrive' = inDrive, current' = current, outer' = outer,
         NEW c, c = snap[t].call, Grounds(c, o) \/ Grounds(c, o)'
  PROVE  TruthInv'
<1>1. /\ At(t) /\ Awaiting(t) = pc[t] /\ snap[t].call # 0 /\ snap[t].status = "running"
      /\ pc[t] # "idle"
  <2>1. At(t) /\ Awaiting(t) = pc[t] /\ pc[t] # "idle"
    BY DEF TruthInv, Awaiting, OnCall
  <2> QED BY <2>1 DEF At, StatusAt, IInv, TaskInv, CallInv
<1>2. /\ s \in Snapshots /\ s.call = 0 /\ s.question = snap[t].question
      /\ s.status = snap[t].status /\ s.grants = snap[t].grants
      /\ s.results = Append(snap[t].results, [id |-> snap[t].call, outcome |-> o])
      /\ snap[t].call \in Calls
  BY <1>1, ReportFields
<1>3. PersistOr(t, s, "loop", "release") /\ snap' = [snap EXCEPT ![t] = s]
  BY DEF Persist, PersistOr
<1>4. /\ pc'[t] = "renew" /\ snap'[t] = s /\ next'[t] = "loop" /\ fail'[t] = "release"
  BY <1>3, PersistWrites
<1>5. snap[t] \in Copies /\ snap[t].call \in DOMAIN calls /\ calls[snap[t].call].tool \in Tools
  BY <1>1, CopyTypes
<1>6. ResultsOf(snap[t]) /\ WaitOf(snap[t])
  BY <1>5 DEF TruthInv, Books, CopyInv
<1>7. /\ s.call # snap[t].call /\ s.question # snap[t].call
      /\ \A i \in DOMAIN snap[t].results : snap[t].results[i].id # snap[t].call
  BY <1>1, <1>2, <1>5, <1>6 DEF ResultsOf, WaitOf, Tools
<1>8. Books'
  <2>1. /\ s.call \in {0, snap[t].call} /\ s.question \in {0, snap[t].question}
        /\ s.status \notin Waiting /\ o \in Outcomes /\ Books
    BY <1>1, <1>2 DEF TruthInv, Waiting
  <2>2. c \in Calls /\ c \in DOMAIN calls
    BY <1>2, <1>5
  <2> QED BY <1>2, <1>3, <1>5, <1>7, <2>1, <2>2, PushBooks
<1>9. Others(t)
  BY <1>3 DEF PersistOr, Others, IInv, TaskInv, TaskTypeOK
<1>10. WorldStep
  BY DEF WorldStep, CallsKept, DecisionsKept, EffectsKept
<1>11. t \in current => Change(run, s)
  <2> SUFFICES ASSUME t \in current PROVE Change(run, s)
    OBVIOUS
  <2>1. snap[t] = run
    BY <1>1 DEF At, CurrentAt, OnCall, Points, Waits, Writing
  <2>2. Reported(run, s)
    BY <1>1, <1>2, <2>1 DEF Reported
  <2> QED BY <1>2, <2>1, <2>2 DEF Change
<1>12. At(t)'
  <2>1. Drives(t)
    BY <1>1 DEF At, DriveAt, CallAt, Drives, Direct, ApprovalKinds, OnCall, InLoop, Authorized
  <2> QED BY <1>1, <1>2, <1>4, <1>11, <2>1, WriteLoopAt
<1> QED BY <1>1, <1>8, <1>9, <1>10, <1>12, TaskStep

(* answer pushes the user's answer as a result and goes on.                 *)
LEMMA answerTruth ==
  ASSUME IInv, IInv', TruthInv, NEW t \in Tasks, answer(t) PROVE TruthInv'
<1>1. /\ pc[t] = "load" /\ run' = run /\ Same /\ slot' = slot
      /\ UNCHANGED <<kind, inDrive>>
      /\ current' = current \cup {t} /\ outer' = outer \cup {t}
  BY DEF answer, Load, LoadFrame, Same
<1>2. run.status \in Statuses /\ At(t) /\ run \in Snapshots /\ run \in Copies /\ Drives(t)
  BY <1>1, Loaded, CopyTypes DEF answer, Drives
<1>3. CASE ~(run.status = "waiting_user" /\ run.question # 0)
  BY <1>1, <1>3, EnterTruth DEF answer
<1>4. CASE run.status = "waiting_user" /\ run.question # 0
  <2> DEFINE n == IF Handle(t) # 0 THEN "loop" ELSE "prepare"
             st == IF Handle(t) # 0 THEN "running" ELSE "preparing"
             s == [run EXCEPT !.status = st,
                !.results = Append(@, [id |-> run.question, outcome |-> "answered"]),
                !.question = 0]
  <2>1. Persist(t, s, n)
    BY <1>4 DEF answer
  <2>2. run.question \in Calls /\ run.question \in DOMAIN calls
        /\ calls[run.question].tool = "question" /\ ResultsOf(run)
    <3>1. ResultsOf(run) /\ WaitOf(run)
      BY <1>2 DEF TruthInv, Books, CopyInv
    <3>2. run.question \in DOMAIN calls
      BY <1>4, <3>1 DEF WaitOf
    <3>3. run.question \in Calls
      BY <3>2, CopyTypes
    <3> QED BY <1>4, <3>1, <3>2, <3>3 DEF WaitOf
  <2>3. /\ s.results = Append(run.results, [id |-> run.question, outcome |-> "answered"])
        /\ s.status = st /\ s.question = 0 /\ s.call = run.call /\ s.grants = run.grants
    BY <1>2 DEF Snapshots
  <2>4. s \in Snapshots
    <3>1. Append(run.results, [id |-> run.question, outcome |-> "answered"])
            \in Seq([id: Calls, outcome: Outcomes])
      BY <1>2, <2>2, SnapshotPush DEF Outcomes
    <3>2. 0 \in 0..MaxCalls /\ st \in Statuses
      BY RunEngineAssumption DEF Statuses, Startable
    <3> HIDE DEF st
    <3> QED BY <1>2, <3>1, <3>2 DEF Snapshots
  <2>5. s.call # run.question /\ \A i \in DOMAIN run.results : run.results[i].id # run.question
    <3>1. run.call # 0 => calls[run.call].tool \in Tools
      BY <1>2, CopyTypes
    <3> QED BY <1>4, <2>2, <2>3, <3>1 DEF ResultsOf, Tools
  <2>6. /\ st \in {"running", "preparing"} /\ (n = "loop" <=> st = "running")
        /\ n \in {"loop", "prepare"}
    OBVIOUS
  <2> HIDE DEF s, st, n
  <2>7. PersistOr(t, s, n, "release") /\ snap' = [snap EXCEPT ![t] = s]
    BY <2>1 DEF Persist, PersistOr
  <2>8. /\ pc'[t] = "renew" /\ snap'[t] = s /\ next'[t] = n /\ fail'[t] = "release"
    BY <2>7, PersistWrites
  <2>9. Books'
    <3>1. Grounds(run.question, "answered")'
      BY <1>1, <2>2 DEF Grounds, Same
    <3>2. LedgerKept
      BY <1>1 DEF LedgerKept, Same, TruthInv, Books, RanInv
    <3>3. s.question # run.question /\ st \notin Waiting /\ "answered" \in Outcomes
      BY <1>4, <2>3, <2>6 DEF Waiting, Outcomes
    <3> QED BY <1>1, <1>2, <2>2, <2>3, <2>4, <2>5, <2>7, <3>1, <3>2, <3>3, PushBooks
            DEF TruthInv, Same
  <2>10. Change(run, s)
    <3>1. Reported(run, s)
      BY <1>4, <2>2, <2>3, <2>6 DEF Reported, Outcomes
    <3> QED BY <2>3, <3>1 DEF Change
  <2>11. At(t)'
    BY <1>1, <1>2, <2>3, <2>6, <2>8, <2>10, WriteLoopAt, WritePrepareAt
  <2>12. Others(t)
    BY <1>1, <2>7 DEF PersistOr, Others, IInv, TaskInv, TaskTypeOK
  <2> QED BY <1>1, <2>9, <2>11, <2>12, SameWorld, TaskStep
<1> QED BY <1>3, <1>4

-----------------------------------------------------------------------------
(* Failures, and the steps of a driver that report nothing.                 *)

(* The points at which a task that is current has the row in its hands.     *)
Holding == Points \ (Writing \cup {"idle", "acquire", "load", "cleanup", "dispose", "release"})

(* What a task knows at a point that is not a write.                        *)
LEMMA HoldingFacts ==
  ASSUME IInv, TruthInv, NEW t \in Tasks, pc[t] \in Holding \ {"close"}
  PROVE  /\ At(t) /\ Awaiting(t) = pc[t] /\ pc[t] # "idle"
         /\ snap[t] \in Snapshots /\ snap[t] \in Copies
         /\ t \in current => snap[t] = run
<1>1. At(t) /\ Awaiting(t) = pc[t] /\ pc[t] # "idle"
  BY DEF TruthInv, Awaiting, Holding, Writing
<1>2. snap[t] \in Snapshots /\ snap[t] \in Copies
  BY CopyTypes DEF IInv, TaskInv, TaskTypeOK
<1>3. t \in current => snap[t] = run
  BY <1>1 DEF At, CurrentAt, Holding
<1> QED BY <1>1, <1>2, <1>3

(* A task whose steps only move it keeps everything.                        *)
LEMMA PlaceTruth ==
  ASSUME IInv, IInv', TruthInv, NEW t \in Tasks, pc[t] # "idle", Others(t),
         UNCHANGED <<run, snap>>, Same, slot' \in {slot, "closed"}, At(t)'
  PROVE  TruthInv'
<1>1. Books'
  BY StayInv DEF TruthInv
<1> QED BY <1>1, SameWorld, TaskStep

(* A driver writes a status, and nothing follows.                           *)
LEMMA FinishTruth ==
  ASSUME IInv, IInv', TruthInv, NEW t \in Tasks, NEW st, st \notin Waiting,
         pc[t] \in Holding \ {"close"}, Persist(t, With(t, st), "release"),
         <<snap[t].status, st>> \in Lifecycle!Moves, run' = run, Same, slot' = slot,
         UNCHANGED <<kind, inDrive, current, outer>>
  PROVE  TruthInv'
<1> DEFINE s == With(t, st)
<1>1. /\ At(t) /\ pc[t] # "idle" /\ snap[t] \in Snapshots
      /\ t \in current => snap[t] = run
  BY HoldingFacts
<1>2. Derived(s, snap[t]) /\ Change(snap[t], s)
  BY <1>1, WithDerived DEF With
<1> HIDE DEF s
<1>3. Persist(t, s, "release")
  BY DEF s
<1> QED BY <1>1, <1>2, <1>3, PersistRelease

(* A driver writes a status and goes on.                                    *)
LEMMA GoOnTruth ==
  ASSUME IInv, IInv', TruthInv, NEW t \in Tasks, NEW st, st \notin Waiting,
         st = "running" \/ (inDrive[t] /\ st = "failed"), Drives(t),
         pc[t] \in Holding \ {"close"}, Persist(t, With(t, st), "loop"),
         <<snap[t].status, st>> \in Lifecycle!Moves, run' = run, Same, slot' = slot,
         UNCHANGED <<kind, inDrive, current, outer>>
  PROVE  TruthInv'
<1> DEFINE s == With(t, st)
<1>1. /\ At(t) /\ pc[t] # "idle" /\ snap[t] \in Snapshots
      /\ t \in current => snap[t] = run
  BY HoldingFacts
<1>2. Derived(s, snap[t]) /\ Change(snap[t], s) /\ s.status = st
  BY <1>1, WithDerived DEF With
<1> HIDE DEF s
<1>3. Persist(t, s, "loop")
  BY DEF s
<1> QED BY <1>1, <1>2, <1>3, PersistLoop

(* An error leaves drive; the frame that called it writes failed over the   *)
(* row it read, which was running.                                          *)
LEMMA DriveErrorTruth ==
  ASSUME IInv, IInv', TruthInv, NEW t \in Tasks, pc[t] \in InLoop \cup {"dispose"},
         kind[t] # "recover", DriveError(t), run' = run, Same, slot' = slot
  PROVE  TruthInv'
<1>1. At(t) /\ pc[t] # "idle" /\ Awaiting(t) = pc[t]
  BY DEF TruthInv, InLoop, Awaiting
<1>2. CASE kind[t] = "answer"
  BY <1>1, <1>2, GotoRelease DEF DriveError
<1>3. CASE kind[t] # "answer"
  <2> DEFINE s == [run EXCEPT !.status = "failed"]
  <2>1. /\ PersistOr(t, s, "release", "release")
        /\ current' = IF t \in outer THEN current \cup {t} ELSE current \ {t}
        /\ inDrive' = [inDrive EXCEPT ![t] = FALSE] /\ UNCHANGED <<outer, kind>>
    BY <1>3 DEF DriveError, Persist
  <2>2. Derived(s, run) /\ (run.status = "running" => Change(run, s))
    BY WithDerived DEF IInv, RowTypeOK, Waiting, Lifecycle!Moves
  <2> HIDE DEF s
  <2>3. inDrive'[t] = FALSE /\ \A u \in Tasks \ {t} : inDrive'[u] = inDrive[u]
    BY <2>1 DEF IInv, TaskInv, TaskTypeOK
  <2>4. t \in current' => Change(run, s)
    BY <1>1, <2>1, <2>2 DEF At, OuterAt
  <2>5. At(t)'
    BY <1>1, <2>1, <2>3, <2>4, PersistWrites, WriteReleaseAt
  <2> QED BY <1>1, <2>1, <2>2, <2>3, <2>5, PersistTruth
<1> QED BY <1>2, <1>3

(* perform is over for a driver: the status is written, the handle given    *)
(* up.                                                                      *)
LEMMA StopTruth ==
  ASSUME IInv, IInv', TruthInv, NEW t \in Tasks, NEW st \in {"environment_offline", "cancelled"},
         pc[t] \in {"claim", "performing"}, ~Direct(t),
         PersistOr(t, With(t, st), "dispose", "dispose"),
         run' = run, Same, slot' = slot, UNCHANGED <<kind, inDrive, current, outer>>
  PROVE  TruthInv'
<1> DEFINE s == With(t, st)
<1>1. /\ At(t) /\ pc[t] # "idle" /\ snap[t] \in Snapshots /\ Awaiting(t) = pc[t]
      /\ t \in current => snap[t] = run
  BY HoldingFacts DEF Holding, Points, Waits, Writing
<1>2. snap[t].status = "running"
  BY <1>1 DEF At, StatusAt, OnCall
<1>3. Derived(s, snap[t]) /\ Change(snap[t], s)
  <2>1. <<"running", st>> \in Lifecycle!Moves
    BY DEF Lifecycle!Moves, Lifecycle!Live
  <2> QED BY <1>1, <1>2, <2>1, WithDerived DEF With, Waiting
<1> HIDE DEF s
<1>4. PersistOr(t, s, "dispose", "dispose")
  BY DEF s
<1>5. /\ inDrive[t] /\ kind[t] # "recover"
      /\ t \in outer => run.status = "running"
  BY <1>1 DEF At, DriveAt, OuterAt, Authorized, Drives, ApprovalKinds, Allow, Deny
<1>6. At(t)'
  BY <1>1, <1>3, <1>4, <1>5, PersistWrites, WriteDisposeAt
<1> QED BY <1>1, <1>3, <1>4, <1>6, PersistTruth

(* performWith failed.                                                      *)
LEMMA PerformErrorTruth ==
  ASSUME IInv, IInv', TruthInv, NEW t \in Tasks, pc[t] \in {"claim", "performing"},
         PerformError(t), run' = run, Same, slot' = slot, UNCHANGED <<current, outer>>
  PROVE  TruthInv'
<1>1. CASE Direct(t)
  BY <1>1, GotoRelease DEF PerformError
<1>2. CASE ~Direct(t)
  BY <1>2, StopTruth DEF PerformError
<1> QED BY <1>1, <1>2

-----------------------------------------------------------------------------
(* The actions, in the order of the code.                                   *)

(* approve, reject, edit_approve read the Run.                              *)
LEMMA approvalTruth ==
  ASSUME IInv, IInv', TruthInv, NEW t \in Tasks, approval(t) PROVE TruthInv'
<1>1. /\ pc[t] = "load" /\ run' = run /\ Same /\ slot' = slot
      /\ UNCHANGED <<kind, inDrive>>
      /\ current' = current \cup {t} /\ outer' = outer \cup {t}
  BY DEF approval, Load, LoadFrame, Same
<1>2. \/ Enter(t, "decide") /\ run.status = "waiting_approval"
      \/ Enter(t, "release")
  BY DEF approval
<1> QED BY <1>1, <1>2, EnterTruth

(* The rejection of the pending call is reported.                           *)
LEMMA rejectedTruth ==
  ASSUME IInv, IInv', TruthInv, NEW t \in Tasks, rejected(t) PROVE TruthInv'
<1> DEFINE c == snap[t].call
<1>1. /\ pc[t] = "rejected" /\ run' = run /\ Same /\ slot' = slot
      /\ UNCHANGED <<kind, inDrive, current, outer>>
      /\ Persist(t, Result(t, "denied"), "loop")
  BY DEF rejected, Same
<1>2. /\ At(t) /\ Awaiting(t) = pc[t] /\ snap[t] \in Copies
  BY <1>1, HoldingFacts DEF Holding, Points, Writing
<1>3. snap[t].call # 0
  BY <1>1, <1>2 DEF IInv, TaskInv, CallInv, OnCall
<1>4. Grounds(c, "denied")
  BY <1>1, <1>2, <1>3, CopyTypes DEF At, CallAt, Grounds, Refused
<1>5. LedgerKept
  BY <1>1 DEF LedgerKept, Same, TruthInv, Books, RanInv
<1> HIDE DEF c
<1>6. c = snap[t].call /\ "denied" \in Outcomes \ {"answered"}
  BY DEF c, Outcomes
<1> QED BY <1>1, <1>4, <1>5, <1>6, ReportTruth DEF OnCall, Same

(* The environment is ready.                                                *)
LEMMA preparedTruth ==
  ASSUME IInv, IInv', TruthInv, NEW t \in Tasks, prepared(t) PROVE TruthInv'
<1>1. /\ pc[t] = "prepare" /\ run' = run /\ Same /\ slot' = slot
      /\ UNCHANGED <<kind, inDrive, current, outer>>
      /\ Persist(t, With(t, "running"), "loop")
  BY DEF prepared, Same
<1>2. /\ At(t) /\ Awaiting(t) = pc[t] /\ pc[t] \in Holding \ {"close"}
  BY <1>1, HoldingFacts DEF Holding, Points, Waits, Writing
<1>3. Drives(t) /\ <<snap[t].status, "running">> \in Lifecycle!Moves
  BY <1>1, <1>2 DEF At, DriveAt, StatusAt, Lifecycle!Moves
<1> QED BY <1>1, <1>2, <1>3, GoOnTruth DEF Waiting

(* The lease was lost while the environment worked.                         *)
LEMMA waitLostTruth ==
  ASSUME IInv, IInv', TruthInv, NEW t \in Tasks, waitLost(t) PROVE TruthInv'
BY GotoRelease DEF waitLost, Same

(* The environment cannot be prepared.                                      *)
LEMMA prepareFailsTruth ==
  ASSUME IInv, IInv', TruthInv, NEW t \in Tasks, prepareFails(t) PROVE TruthInv'
<1>1. /\ pc[t] = "prepare" /\ run' = run /\ Same /\ slot' = slot
      /\ UNCHANGED <<current, outer>>
  BY DEF prepareFails, Same
<1>2. CASE kind[t] = "answer"
  BY <1>1, <1>2, GotoRelease DEF prepareFails
<1>3. CASE kind[t] # "answer"
  <2>1. Persist(t, With(t, "environment_offline"), "release") /\ UNCHANGED <<kind, inDrive>>
    BY <1>3 DEF prepareFails
  <2>2. /\ At(t) /\ Awaiting(t) = pc[t] /\ pc[t] \in Holding \ {"close"}
    BY <1>1, HoldingFacts DEF Holding, Points, Waits, Writing
  <2>3. <<snap[t].status, "environment_offline">> \in Lifecycle!Moves
    BY <1>1, <2>2 DEF At, StatusAt, Lifecycle!Moves, Lifecycle!Live
  <2> QED BY <1>1, <2>1, <2>2, <2>3, FinishTruth DEF Waiting
<1> QED BY <1>2, <1>3

(* drive looks at the lease.                                                *)
LEMMA loopTruth ==
  ASSUME IInv, IInv', TruthInv, NEW t \in Tasks, loop(t) PROVE TruthInv'
<1>1. /\ pc[t] = "loop" /\ UNCHANGED <<run, snap>> /\ Same /\ slot' = slot
      /\ UNCHANGED <<next, fail, inDrive, current, outer>>
  BY DEF loop, Same
<1>2. /\ pc'[t] \in {"reload", "release"}
      /\ kind'[t] = IF kind[t] \in ApprovalKinds THEN "approved" ELSE kind[t]
  BY DEF loop, IInv, TaskInv, TaskTypeOK
<1>3. Others(t)
  BY DEF loop, Others, IInv, TaskInv, TaskTypeOK
<1>4. /\ At(t) /\ Awaiting(t) = pc[t] /\ (t \in current => snap[t] = run)
  BY <1>1, HoldingFacts DEF Holding, Points, Writing
<1>5. At(t)'
  <2>1. Awaiting(t)' = pc'[t]
    BY <1>2 DEF Awaiting
  <2>2. StatusAt(t)' /\ OuterAt(t)'
    BY <1>2, <2>1 DEF StatusAt, OuterAt, OnCall, InLoop, Authorized
  <2>3. Drives(t)' /\ ~Direct(t)'
    BY <1>1, <1>2, <1>4 DEF At, DriveAt, Drives, Direct, ApprovalKinds, Allow, Deny
  <2>4. DriveAt(t)'
    BY <1>1, <1>2, <2>1, <2>3 DEF DriveAt, InLoop, Authorized, Writing
  <2>5. CallAt(t)' /\ CurrentAt(t)'
    BY <1>1, <1>2, <1>4, <2>1 DEF CallAt, CurrentAt, Authorized, Writing
  <2> QED BY <2>2, <2>4, <2>5 DEF At
<1> QED BY <1>1, <1>3, <1>5, PlaceTruth

(* drive reads the Run anew.                                                *)
LEMMA reloadTruth ==
  ASSUME IInv, IInv', TruthInv, NEW t \in Tasks, reload(t) PROVE TruthInv'
<1>1. /\ pc[t] = "reload" /\ run' = run /\ Same /\ slot' = slot
      /\ UNCHANGED <<kind, next, fail, outer>> /\ current' = current \cup {t}
      /\ snap' = [snap EXCEPT ![t] = run]
  BY DEF reload, Same
<1>2. /\ pc'[t] = IF run.status = "running" THEN "budget" ELSE "release"
      /\ snap'[t] = run /\ inDrive'[t] = TRUE
  BY DEF reload, IInv, TaskInv, TaskTypeOK
<1>3. Others(t)
  BY DEF reload, Others, IInv, TaskInv, TaskTypeOK
<1>4. /\ At(t) /\ Awaiting(t) = pc[t]
  BY <1>1, HoldingFacts DEF Holding, Points, Writing
<1>5. Books'
  <2>1. Derived(run, run)
    BY DEF Derived
  <2> QED BY <1>1, <2>1, MoveInv DEF TruthInv
<1>6. At(t)'
  <2>1. Awaiting(t)' = pc'[t] /\ pc'[t] \in {"budget", "release"}
    BY <1>2 DEF Awaiting
  <2>2. StatusAt(t)' /\ OuterAt(t)'
    BY <1>1, <1>2, <2>1 DEF StatusAt, OuterAt, OnCall, InLoop, Authorized
  <2>3. Drives(t)' /\ ~Direct(t)'
    BY <1>1, <1>4 DEF At, DriveAt, Drives, Direct
  <2>4. DriveAt(t)'
    BY <1>2, <2>1, <2>3 DEF DriveAt, InLoop, Authorized, Writing
  <2>5. CallAt(t)' /\ CurrentAt(t)'
    BY <1>1, <1>2, <2>1 DEF CallAt, CurrentAt, Authorized, Writing
  <2> QED BY <2>2, <2>4, <2>5 DEF At
<1> QED BY <1>1, <1>3, <1>5, <1>6, SameWorld, TaskStep

(* The budget has room for another turn.                                    *)
LEMMA withinBudgetTruth ==
  ASSUME IInv, IInv', TruthInv, NEW t \in Tasks, withinBudget(t) PROVE TruthInv'
<1>1. /\ pc[t] = "budget" /\ UNCHANGED <<run, snap>> /\ Same /\ slot' = slot
      /\ UNCHANGED <<kind, next, fail, inDrive, current, outer>>
      /\ Goto(t, IF snap[t].call # 0 THEN "authorize" ELSE "model")
  BY DEF withinBudget, Goto, Same
<1>2. pc'[t] = IF snap[t].call # 0 THEN "authorize" ELSE "model"
  BY <1>1 DEF Goto, IInv, TaskInv, TaskTypeOK
<1>3. /\ At(t) /\ Awaiting(t) = pc[t] /\ (t \in current => snap[t] = run)
  BY <1>1, HoldingFacts DEF Holding, Points, Writing
<1>4. At(t)'
  <2>1. Awaiting(t)' = pc'[t]
    BY <1>2 DEF Awaiting
  <2>2. StatusAt(t)' /\ OuterAt(t)'
    BY <1>1, <1>2, <1>3, <2>1 DEF At, StatusAt, OuterAt, OnCall, InLoop, Authorized
  <2>3. DriveAt(t)'
    BY <1>1, <1>2, <1>3, <2>1 DEF At, DriveAt, InLoop, Authorized, Direct, Drives, Writing
  <2>4. CallAt(t)' /\ CurrentAt(t)'
    BY <1>1, <1>2, <1>3, <2>1 DEF At, CallAt, CurrentAt, Authorized, Writing
  <2> QED BY <2>2, <2>3, <2>4 DEF At
<1> QED BY <1>1, <1>4, GotoTruth

(* The budget has none.                                                     *)
LEMMA failBudgetTruth ==
  ASSUME IInv, IInv', TruthInv, NEW t \in Tasks, failBudget(t) PROVE TruthInv'
<1>1. /\ pc[t] \in {"budget", "model"} \/ (pc[t] = "loop" /\ ~inDrive[t])
      /\ run' = run /\ Same /\ slot' = slot
      /\ UNCHANGED <<kind, inDrive, current, outer>>
      /\ Persist(t, With(t, "failed"), "release")
  BY DEF failBudget, Same
<1>2. /\ At(t) /\ Awaiting(t) = pc[t] /\ pc[t] \in Holding \ {"close"}
  BY <1>1, HoldingFacts DEF Holding, Points, Waits, Writing
<1>3. <<snap[t].status, "failed">> \in Lifecycle!Moves
  BY <1>1, <1>2 DEF At, StatusAt, Lifecycle!Moves
<1> QED BY <1>1, <1>2, <1>3, FinishTruth DEF Waiting

(* The model says that it is done.                                          *)
LEMMA modelCompletedTruth ==
  ASSUME IInv, IInv', TruthInv, NEW t \in Tasks, modelCompleted(t) PROVE TruthInv'
<1> DEFINE s == With(t, "verifying")
<1>1. /\ pc[t] = "model" /\ run' = run /\ Same /\ slot' = slot
      /\ UNCHANGED <<kind, inDrive, current, outer>>
      /\ PersistOr(t, s, "borrow", "release")
  BY DEF modelCompleted, Persist, Same
<1>2. /\ At(t) /\ Awaiting(t) = pc[t] /\ snap[t] \in Snapshots /\ pc[t] # "idle"
      /\ t \in current => snap[t] = run
  BY <1>1, HoldingFacts DEF Holding, Points, Writing
<1>3. Derived(s, snap[t]) /\ Change(snap[t], s) /\ s.status = "verifying"
  <2>1. <<snap[t].status, "verifying">> \in Lifecycle!Moves
    BY <1>1, <1>2 DEF At, StatusAt, Lifecycle!Moves
  <2> QED BY <1>2, <2>1, WithDerived DEF With, Waiting
<1> HIDE DEF s
<1>4. /\ pc'[t] = "renew" /\ snap'[t] = s /\ next'[t] = "borrow" /\ fail'[t] = "release"
  BY <1>1, PersistWrites
<1>5. At(t)'
  <2>1. Awaiting(t)' = "borrow"
    BY <1>4 DEF Awaiting
  <2>2. StatusAt(t)' /\ OuterAt(t)'
    BY <1>1, <1>2, <1>3, <1>4, <2>1 DEF At, StatusAt, OuterAt, OnCall, InLoop, Authorized
  <2>3. DriveAt(t)'
    BY <1>1, <1>2, <1>4, <2>1 DEF At, DriveAt, InLoop, Authorized, Direct, Drives, Writing
  <2>4. CallAt(t)' /\ CurrentAt(t)'
    BY <1>1, <1>2, <1>3, <1>4, <2>1 DEF At, CallAt, CurrentAt, Authorized, Writing
  <2> QED BY <2>2, <2>3, <2>4 DEF At
<1> QED BY <1>1, <1>2, <1>3, <1>5, PersistTruth

(* drive fails while it asks the model or the policy.                       *)
LEMMA driveFailsTruth ==
  ASSUME IInv, IInv', TruthInv, NEW t \in Tasks, driveFails(t) PROVE TruthInv'
<1>1. /\ pc[t] \in {"model", "authorize"} /\ run' = run /\ Same /\ slot' = slot
      /\ DriveError(t)
  BY DEF driveFails, Same
<1>2. At(t) /\ Awaiting(t) = pc[t]
  BY <1>1, HoldingFacts DEF Holding, Points, Writing
<1>3. kind[t] # "recover"
  BY <1>1, <1>2 DEF At, DriveAt, InLoop, Drives, ApprovalKinds, Allow, Deny
<1> QED BY <1>1, <1>3, DriveErrorTruth DEF InLoop

(* A rule denies the call: the Run fails.                                   *)
LEMMA authorizeDenyTruth ==
  ASSUME IInv, IInv', TruthInv, NEW t \in Tasks, authorizeDeny(t) PROVE TruthInv'
<1>1. /\ pc[t] = "authorize" /\ run' = run /\ Same /\ slot' = slot
      /\ UNCHANGED <<kind, inDrive, current, outer>>
      /\ Persist(t, With(t, "failed"), "release")
  BY DEF authorizeDeny, AuthorizeFrame, Same
<1>2. /\ At(t) /\ Awaiting(t) = pc[t] /\ pc[t] \in Holding \ {"close"}
  BY <1>1, HoldingFacts DEF Holding, Points, Waits, Writing
<1>3. <<snap[t].status, "failed">> \in Lifecycle!Moves
  BY <1>1, <1>2 DEF At, StatusAt, OnCall, Lifecycle!Moves
<1> QED BY <1>1, <1>2, <1>3, FinishTruth DEF Waiting

(* The lease is renewed before the tool runs.                               *)
LEMMA prerenewTruth ==
  ASSUME IInv, IInv', TruthInv, NEW t \in Tasks, prerenew(t) PROVE TruthInv'
<1>1. /\ pc[t] = "prerenew" /\ UNCHANGED <<run, snap>> /\ Same /\ slot' = slot
      /\ UNCHANGED <<current, outer>>
      /\ Goto(t, "perform_with") \/ Goto(t, "release")
  BY DEF prerenew, renewLease, Goto, Same
<1>2. CASE Goto(t, "release")
  BY <1>1, <1>2, GotoRelease
<1>3. CASE Goto(t, "perform_with")
  <2>1. /\ At(t) /\ Awaiting(t) = pc[t] /\ (t \in current => snap[t] = run)
    BY <1>1, HoldingFacts DEF Holding, Points, Writing
  <2>2. /\ pc'[t] = "perform_with" /\ UNCHANGED <<kind, next, fail, inDrive>>
        /\ Awaiting(t)' = "perform_with"
    BY <1>3 DEF Goto, IInv, TaskInv, TaskTypeOK, Awaiting
  <2>3. At(t)'
    <3>1. StatusAt(t)' /\ OuterAt(t)'
      BY <1>1, <2>1, <2>2 DEF At, StatusAt, OuterAt, OnCall, InLoop, Authorized
    <3>2. DriveAt(t)'
      BY <1>1, <2>1, <2>2 DEF At, DriveAt, InLoop, Authorized, Direct, Drives, Writing
    <3>3. CallAt(t)'
      BY <1>1, <2>1, <2>2
         DEF At, CallAt, Authorized, Permitted, Covered, Direct, Asks, Same
    <3>4. CurrentAt(t)'
      BY <1>1, <2>1, <2>2 DEF CurrentAt, Writing
    <3> QED BY <3>1, <3>2, <3>3, <3>4 DEF At
  <2> QED BY <1>1, <1>3, <2>3, GotoTruth
<1> QED BY <1>1, <1>2, <1>3

(* The marker that the call was started.                                    *)
LEMMA performWithTruth ==
  ASSUME IInv, IInv', TruthInv, NEW t \in Tasks, performWith(t) PROVE TruthInv'
<1>1. /\ pc[t] = "perform_with" /\ run' = run /\ Same /\ slot' = slot
      /\ UNCHANGED <<kind, inDrive, current, outer>>
  BY DEF performWith, Goto, Same
<1>2. /\ At(t) /\ Awaiting(t) = pc[t] /\ (t \in current => snap[t] = run)
      /\ pc[t] # "idle" /\ snap[t] \in Snapshots
  BY <1>1, HoldingFacts DEF Holding, Points, Writing
<1>3. CASE Goto(t, "claim")
  <2>1. /\ pc'[t] = "claim" /\ UNCHANGED <<kind, next, fail, inDrive, snap>>
        /\ Awaiting(t)' = "claim"
    BY <1>3 DEF Goto, IInv, TaskInv, TaskTypeOK, Awaiting
  <2>2. At(t)'
    <3>1. StatusAt(t)' /\ OuterAt(t)'
      BY <1>1, <1>2, <2>1 DEF At, StatusAt, OuterAt, OnCall, InLoop, Authorized
    <3>2. DriveAt(t)'
      BY <1>1, <1>2, <2>1 DEF At, DriveAt, InLoop, Authorized, Direct, Drives, Writing
    <3>3. CallAt(t)'
      BY <1>1, <1>2, <2>1
         DEF At, CallAt, Authorized, Permitted, Covered, Direct, Asks, Same
    <3>4. CurrentAt(t)'
      BY <1>1, <1>2, <2>1 DEF CurrentAt, Writing
    <3> QED BY <3>1, <3>2, <3>3, <3>4 DEF At
  <2> QED BY <1>1, <1>3, <2>2, GotoTruth
<1>4. CASE Persist(t, [snap[t] EXCEPT !.started = @ \cup {snap[t].call}], "claim")
  <2> DEFINE s == [snap[t] EXCEPT !.started = @ \cup {snap[t].call}]
  <2>1. PersistOr(t, s, "claim", "release")
    BY <1>4 DEF Persist
  <2>2. /\ s.call = snap[t].call /\ s.grants = snap[t].grants /\ s.status = snap[t].status
        /\ s.results = snap[t].results /\ Derived(s, snap[t])
    BY <1>2 DEF Snapshots, Derived
  <2> HIDE DEF s
  <2>3. Change(snap[t], s)
    BY <2>2 DEF Change, Moved
  <2>4. /\ pc'[t] = "renew" /\ snap'[t] = s /\ next'[t] = "claim" /\ fail'[t] = "release"
        /\ Awaiting(t)' = "claim"
    BY <2>1, PersistWrites DEF Awaiting
  <2>5. At(t)'
    <3>1. StatusAt(t)' /\ OuterAt(t)'
      BY <1>1, <1>2, <2>2, <2>4 DEF At, StatusAt, OuterAt, OnCall, InLoop, Authorized
    <3>2. DriveAt(t)'
      BY <1>1, <1>2, <2>4 DEF At, DriveAt, InLoop, Authorized, Direct, Drives, Writing
    <3>3. CallAt(t)'
      BY <1>1, <1>2, <2>2, <2>4
         DEF At, CallAt, Authorized, Permitted, Covered, Direct, Asks, Same
    <3>4. CurrentAt(t)'
      BY <1>1, <1>2, <2>3, <2>4 DEF CurrentAt, Writing
    <3> QED BY <3>1, <3>2, <3>3, <3>4 DEF At
  <2> QED BY <1>1, <1>2, <2>1, <2>2, <2>5, PersistTruth
<1> QED BY <1>3, <1>4 DEF performWith

(* The network access that a command or a rule authorized is reported; for  *)
(* an approved command the handle is taken up.                              *)
LEMMA approvedTruth ==
  ASSUME IInv, IInv', TruthInv, NEW t \in Tasks, approved(t) PROVE TruthInv'
<1> DEFINE c == snap[t].call
<1>1. /\ pc[t] = "approved" /\ run' = run /\ Same /\ slot' = slot
      /\ UNCHANGED <<kind, inDrive, current, outer>>
  BY DEF approved, Same
<1>2. /\ At(t) /\ Awaiting(t) = pc[t] /\ snap[t] \in Copies /\ pc[t] # "idle"
      /\ t \in current => snap[t] = run
  BY <1>1, HoldingFacts DEF Holding, Points, Writing
<1>3. c # 0 /\ c \in DOMAIN calls /\ calls[c].tool \in Tools
  BY <1>1, <1>2, CopyTypes DEF IInv, TaskInv, CallInv, OnCall
<1>4. CASE Persist(t, Result(t, "authorized"), "loop") /\ calls[c].tool = "network"
  <2>1. Grounds(c, "authorized")
    BY <1>4 DEF Grounds
  <2>2. LedgerKept
    BY <1>1 DEF LedgerKept, Same, TruthInv, Books, RanInv
  <2> HIDE DEF c
  <2>3. c = snap[t].call /\ "authorized" \in Outcomes \ {"answered"}
    BY DEF c, Outcomes
  <2> QED BY <1>1, <1>4, <2>1, <2>2, <2>3, ReportTruth DEF OnCall, Same
<1>5. CASE /\ pc' = [pc EXCEPT ![t] = "release"]
           /\ UNCHANGED <<snap, next, fail, entry>>
  <2>1. pc'[t] = "release" /\ Others(t)
    BY <1>1, <1>5 DEF Others, IInv, TaskInv, TaskTypeOK
  <2> QED BY <1>1, <1>2, <1>5, <2>1, ReleaseAt, PlaceTruth
<1>6. CASE /\ calls[c].tool # "network" /\ pc' = [pc EXCEPT ![t] = "perform_with"]
           /\ UNCHANGED <<snap, next, fail>>
  <2>1. pc'[t] = "perform_with" /\ Others(t) /\ Awaiting(t)' = "perform_with"
    BY <1>1, <1>6 DEF Others, IInv, TaskInv, TaskTypeOK, Awaiting
  <2>2. calls[c].tool = "exec"
    BY <1>3, <1>6 DEF Tools
  <2>3. Direct(t) /\ ~inDrive[t]
    BY <1>1, <1>2 DEF At, CallAt, DriveAt, Direct, ApprovalKinds
  <2>4. At(t)'
    <3>1. StatusAt(t)' /\ OuterAt(t)'
      BY <1>1, <1>2, <1>6, <2>1 DEF At, StatusAt, OuterAt, OnCall, InLoop, Authorized, Writing
    <3>2. DriveAt(t)'
      BY <1>1, <1>2, <1>6, <2>1, <2>3 DEF At, DriveAt, InLoop, Authorized, Direct, Drives, Writing
    <3>3. CallAt(t)'
      BY <1>1, <1>2, <1>6, <2>1, <2>2, <2>3
         DEF At, CallAt, Authorized, Permitted, Direct, Same
    <3>4. CurrentAt(t)'
      BY <1>1, <1>2, <1>6, <2>1 DEF CurrentAt, Writing
    <3> QED BY <3>1, <3>2, <3>3, <3>4 DEF At
  <2> QED BY <1>1, <1>2, <1>6, <2>1, <2>4, PlaceTruth
<1> QED BY <1>4, <1>5, <1>6 DEF approved, Turn

(* A rule allows the call, or a run-scoped grant does.                      *)
LEMMA authorizeAllowTruth ==
  ASSUME IInv, IInv', TruthInv, NEW t \in Tasks, authorizeAllow(t) PROVE TruthInv'
<1> DEFINE c == snap[t].call
<1>1. /\ pc[t] = "authorize" /\ run' = run /\ Same /\ slot' = slot
      /\ Decision(t) = "allow"
  BY DEF authorizeAllow, AuthorizeFrame, Same
<1>2. /\ At(t) /\ Awaiting(t) = pc[t] /\ snap[t] \in Copies /\ pc[t] # "idle"
      /\ t \in current => snap[t] = run
  BY <1>1, HoldingFacts DEF Holding, Points, Writing
<1>3. c # 0 /\ c \in DOMAIN calls /\ calls[c].tool \in Tools
  BY <1>1, <1>2, CopyTypes DEF IInv, TaskInv, CallInv, OnCall
<1>4. CASE /\ Persist(t, Result(t, "authorized"), "loop") /\ calls[c].tool = "network"
           /\ UNCHANGED <<kind, inDrive, entry, lost, current, outer>>
  <2>1. Grounds(c, "authorized")
    BY <1>4 DEF Grounds
  <2>2. LedgerKept
    BY <1>1 DEF LedgerKept, Same, TruthInv, Books, RanInv
  <2> HIDE DEF c
  <2>3. c = snap[t].call /\ "authorized" \in Outcomes \ {"answered"}
    BY DEF c, Outcomes
  <2> QED BY <1>1, <1>4, <2>1, <2>2, <2>3, ReportTruth DEF OnCall, Same
<1>5. CASE DriveError(t)
  <2>1. kind[t] # "recover"
    BY <1>1, <1>2 DEF At, DriveAt, InLoop, Drives, ApprovalKinds, Allow, Deny
  <2> QED BY <1>1, <1>5, <2>1, DriveErrorTruth DEF InLoop
<1>6. CASE /\ calls[c].tool # "network" /\ pc' = [pc EXCEPT ![t] = "prerenew"]
           /\ UNCHANGED <<kind, snap, next, fail, inDrive, lost, current, outer>>
  <2>1. pc'[t] = "prerenew" /\ Others(t) /\ Awaiting(t)' = "prerenew"
    BY <1>1, <1>6 DEF Others, IInv, TaskInv, TaskTypeOK, Awaiting
  <2>2. calls[c].tool = "exec"
    BY <1>3, <1>6 DEF Tools
  <2>3. inDrive[t] /\ ~Direct(t) /\ snap[t].grants \subseteq run.grants
    BY <1>1, <1>2 DEF At, CallAt, DriveAt, InLoop
  <2>4. calls[c].policy = "allow" \/ (Asks(c) /\ Covered(snap[t], "allow"))
    BY <1>1, <1>3 DEF Decision, Turn, Asks, Covered
  <2>5. At(t)'
    <3>1. StatusAt(t)' /\ OuterAt(t)'
      BY <1>1, <1>2, <1>6, <2>1 DEF At, StatusAt, OuterAt, OnCall, InLoop, Authorized, Writing
    <3>2. DriveAt(t)'
      BY <1>1, <1>2, <1>6, <2>1, <2>3 DEF At, DriveAt, InLoop, Authorized, Direct, Drives, Writing
    <3>3. CallAt(t)'
      BY <1>1, <1>2, <1>6, <2>1, <2>2, <2>3, <2>4
         DEF At, CallAt, Authorized, Permitted, Direct, Covered, Asks, Same
    <3>4. CurrentAt(t)'
      BY <1>1, <1>2, <1>6, <2>1 DEF CurrentAt, Writing
    <3> QED BY <3>1, <3>2, <3>3, <3>4 DEF At
  <2> QED BY <1>1, <1>2, <1>6, <2>1, <2>5, PlaceTruth
<1> QED BY <1>4, <1>5, <1>6 DEF authorizeAllow, Turn

(* The books when the ledger of tool calls learns something true.           *)
LEMMA LedgerBooks ==
  ASSUME IInv, IInv', Books, LedgerKept, UNCHANGED <<run, snap, calls, approvals, effects>>
  PROVE  Books'
<1>1. Copies' = Copies
  BY CopyTypes, NextCopyTypes DEF Copies
<1>2. CallersKept
  BY <1>1 DEF CallersKept
<1>3. /\ AskedInv' /\ SameGrants' /\ RanInv'
      /\ CallsKept /\ AskedKept /\ GroundsKept
  BY <1>2, UndecidedInv DEF Books
<1>4. \A x : Derived(x, x)
  BY DEF Derived
<1>5. Descend
  BY <1>1, <1>4 DEF Descend
<1> QED BY <1>3, <1>5, CopiesDescend DEF Books

(* A task goes on to the next step of performWith.                          *)
LEMMA AdvanceAt ==
  ASSUME IInv, TruthInv, NEW t \in Tasks, pc[t] \in Authorized,
         pc'[t] \in Authorized \ {"prerenew"},
         UNCHANGED <<kind, next, fail, inDrive, snap, calls, approvals, run, current, outer>>,
         pc'[t] \in {"performing", "complete"} => effects'[snap[t].call] # <<>>
  PROVE  At(t)'
<1>1. /\ At(t) /\ Awaiting(t) = pc[t] /\ (t \in current => snap[t] = run)
  BY HoldingFacts DEF Authorized, Holding, Points, Waits, Writing
<1>2. Awaiting(t)' = pc'[t]
  BY DEF Awaiting, Authorized
<1>3. StatusAt(t)' /\ OuterAt(t)'
  BY <1>1, <1>2 DEF At, StatusAt, OuterAt, OnCall, InLoop, Authorized
<1>4. DriveAt(t)'
  BY <1>1, <1>2 DEF At, DriveAt, InLoop, Authorized, Direct, Drives, Writing
<1>5. CallAt(t)'
  BY <1>1, <1>2 DEF At, CallAt, Authorized, Permitted, Covered, Direct, Asks
<1>6. CurrentAt(t)'
  BY <1>1, <1>2 DEF CurrentAt, Authorized, Writing
<1> QED BY <1>3, <1>4, <1>5, <1>6 DEF At

(* claim takes the call, finds it done, or finds that nobody knows.         *)
LEMMA claimTruth ==
  ASSUME IInv, IInv', TruthInv, NEW t \in Tasks, claim(t) PROVE TruthInv'
<1> DEFINE c == snap[t].call
<1>1. /\ pc[t] = "claim" /\ run' = run /\ slot' = slot
      /\ UNCHANGED <<calls, approvals, effects, current, outer>>
  BY DEF claim
<1>2. /\ At(t) /\ Awaiting(t) = pc[t] /\ snap[t] \in Copies /\ pc[t] # "idle"
      /\ pc[t] \in Holding \ {"close"} /\ (t \in current => snap[t] = run)
  BY <1>1, HoldingFacts DEF Holding, Points, Waits, Writing
<1>3. c # 0 /\ c \in DOMAIN calls /\ c \in Calls
  BY <1>1, <1>2, CopyTypes DEF IInv, TaskInv, CallInv, OnCall
<1>4. ledger' = ledger => LedgerKept
  BY DEF LedgerKept, TruthInv, Books, RanInv
<1>5. CASE /\ ledger[c].state = "none"
           /\ ledger' = [ledger EXCEPT ![c] = [state |-> "executing",
                                               action |-> ActionOf(t)]]
           /\ Goto(t, "perform")
  <2>1. LedgerKept
    <3>1. \A d \in Calls : ledger'[d].state = "completed" <=> ledger[d].state = "completed"
      BY <1>5 DEF IInv, RowTypeOK
    <3> QED BY <3>1 DEF LedgerKept, TruthInv, Books, RanInv
  <2>2. /\ pc'[t] = "perform" /\ Others(t)
        /\ UNCHANGED <<kind, next, fail, inDrive, snap>>
    BY <1>1, <1>5 DEF Goto, Others, IInv, TaskInv, TaskTypeOK
  <2>3. Books'
    BY <1>1, <2>1, <2>2, LedgerBooks DEF TruthInv
  <2>4. At(t)'
    BY <1>1, <2>2, AdvanceAt DEF Authorized
  <2>5. WorldStep
    BY <1>1 DEF WorldStep, CallsKept, DecisionsKept, EffectsKept
  <2> QED BY <1>1, <1>2, <2>2, <2>3, <2>4, <2>5, TaskStep
<1>6. CASE UNCHANGED ledger /\ PerformError(t)
  BY <1>1, <1>6, PerformErrorTruth DEF Same
<1>7. CASE /\ ledger[c].state = "completed" /\ UNCHANGED ledger
           /\ Persist(t, Executed(t), "loop") /\ UNCHANGED <<kind, inDrive, entry, lost>>
  <2>1. Grounds(c, "executed")
    BY <1>7 DEF Grounds
  <2> HIDE DEF c
  <2>2. c = snap[t].call /\ "executed" \in Outcomes \ {"answered"}
    BY DEF c, Outcomes
  <2> QED BY <1>1, <1>4, <1>7, <2>1, <2>2, ReportTruth DEF OnCall
<1>8. CASE /\ UNCHANGED ledger /\ UNCHANGED <<kind, inDrive, entry, lost>>
           /\ Persist(t, With(t, "failed"), IF Direct(t) THEN "release" ELSE "loop")
  <2>1. Same
    BY <1>1, <1>8 DEF Same
  <2>2. <<snap[t].status, "failed">> \in Lifecycle!Moves
    BY <1>1, <1>2 DEF At, StatusAt, OnCall, Lifecycle!Moves
  <2>3. CASE Direct(t)
    BY <1>1, <1>2, <1>8, <2>1, <2>2, <2>3, FinishTruth DEF Waiting
  <2>4. CASE ~Direct(t)
    <3>1. inDrive[t] /\ Drives(t)
      BY <1>1, <1>2, <2>4 DEF At, DriveAt, Authorized
    <3> QED BY <1>1, <1>2, <1>8, <2>1, <2>2, <2>4, <3>1, GoOnTruth DEF Waiting
  <2> QED BY <2>3, <2>4
<1> QED BY <1>5, <1>6, <1>7, <1>8 DEF claim

(* The side effect starts with the permission the task holds.               *)
LEMMA performTruth ==
  ASSUME IInv, IInv', TruthInv, NEW t \in Tasks, perform(t) PROVE TruthInv'
<1>0. PICK c, a : c = snap[t].call /\ a = ActionOf(t)
  OBVIOUS
<1>1. /\ pc[t] = "perform" /\ run' = run /\ slot' = slot
      /\ UNCHANGED <<calls, approvals, ledger, current, outer>>
      /\ effects' = [effects EXCEPT ![c] = Append(@, a)] /\ Goto(t, "performing")
  BY <1>0 DEF perform
<1>2. /\ At(t) /\ Awaiting(t) = pc[t] /\ snap[t] \in Copies /\ pc[t] # "idle"
  BY <1>1, HoldingFacts DEF Holding, Points, Waits, Writing
<1>3. c # 0 /\ c \in DOMAIN calls /\ c \in Calls
  BY <1>0, <1>1, <1>2, CopyTypes DEF IInv, TaskInv, CallInv, OnCall
<1>4. Permitted(t) /\ calls[c].tool = "exec"
  BY <1>0, <1>1, <1>2 DEF At, CallAt, Authorized, Permitted
<1>5. /\ effects[c] = <<>> /\ ledger[c].state = "executing"
  BY <1>0, <1>1 DEF IInv, TaskInv, EffectInv, Performing
<1>6. /\ effects'[c] # <<>> /\ effects'[c][1] = a
      /\ \A d \in Calls \ {c} : effects'[d] = effects[d]
  <2>1. effects'[c] = Append(<<>>, a)
    BY <1>1, <1>3, <1>5 DEF IInv, WorldTypeOK
  <2>2. effects'[c] = <<a>>
    BY <2>1
  <2>3. \A d \in Calls \ {c} : effects'[d] = effects[d]
    BY <1>1 DEF IInv, WorldTypeOK
  <2> QED BY <2>2, <2>3
<1>7. pc'[t] = "performing" /\ Others(t) /\ UNCHANGED <<kind, next, fail, inDrive, snap>>
  BY <1>1 DEF Goto, Others, IInv, TaskInv, TaskTypeOK
<1>8. Copies' = Copies
  BY <1>1, <1>7, CopyTypes, NextCopyTypes DEF Copies
<1>9. Justified(c)'
  <2>1. snap[t].call = c /\ (a = IF kind[t] = "edit_approve" THEN "edited" ELSE "original")
    BY <1>0 DEF ActionOf
  <2>2. CASE Direct(t)
    <3>1. kind[t] \in Allow \cup {"edit_approve"} /\ approvals[c] = kind[t]
      BY <1>4, <2>1, <2>2 DEF Permitted
    <3>2. Asks(c)
      BY <1>3, <3>1 DEF TruthInv, Books, AskedInv, Allow
    <3>3. Asks(c)' /\ kind[t] \in Allow => a = "original"
      BY <1>1, <2>1, <3>2 DEF Asks, Allow
    <3>4. Asks(c)'
      BY <1>1, <3>2 DEF Asks
    <3> QED BY <1>1, <1>3, <1>4, <1>6, <2>1, <3>1, <3>3, <3>4 DEF Justified
  <2>3. CASE ~Direct(t) /\ calls[c].policy = "allow"
    <3>1. a = "original"
      BY <2>1, <2>3 DEF Direct, ApprovalKinds
    <3> QED BY <1>1, <1>3, <1>4, <1>6, <2>3, <3>1 DEF Justified
  <2>4. CASE /\ ~Direct(t) /\ Asks(c) /\ Covered(snap[t], "allow")
             /\ snap[t].grants \subseteq run.grants
    <3>1. a = "original" /\ Asks(c)'
      BY <1>1, <2>1, <2>4 DEF Direct, ApprovalKinds, Asks
    <3>2. CASE approvals[c] # "none"
      <4>1. approvals[c] = "approve_run"
        BY <1>2, <1>3, <2>1, <2>4, <3>2 DEF TruthInv, Books, AskedInv
      <4> QED BY <1>1, <1>3, <1>4, <1>6, <3>1, <4>1 DEF Justified, Allow
    <3>3. CASE approvals[c] = "none"
      <4>1. <<"allow", calls[c].tool>> \in run.grants
        BY <2>1, <2>4 DEF Covered
      <4>2. ASSUME NEW x \in Copies, x.call = c PROVE Covered(x, "allow")
        <5>1. x.grants = snap[t].grants
          BY <1>2, <1>3, <2>1, <3>3, <4>2 DEF TruthInv, Books, SameGrants
        <5> QED BY <2>1, <2>4, <4>2, <5>1 DEF Covered
      <4>3. \A x \in Copies' : x.call = c => Covered(x, "allow")'
        BY <1>1, <1>8, <4>2 DEF Covered
      <4> QED BY <1>1, <1>3, <1>4, <1>6, <3>1, <3>3, <4>1, <4>3 DEF Justified
    <3> QED BY <3>2, <3>3
  <2> QED BY <1>4, <2>1, <2>2, <2>3, <2>4 DEF Permitted
<1>10. ~Barred(c)
  <2>1. snap[t].call = c
    BY <1>0
  <2>2. CASE Direct(t)
    BY <1>4, <2>1, <2>2 DEF Permitted, Barred, Allow
  <2>3. CASE ~Direct(t)
    BY <1>2, <1>4, <2>1, <2>3 DEF Permitted, Barred, Asks
  <2> QED BY <2>2, <2>3
<1>11. Books'
  <2>1. CallsKept /\ AskedKept
    BY <1>1 DEF CallsKept, AskedKept
  <2>2. AskedInv'
    BY <1>1, <1>8 DEF TruthInv, Books, AskedInv, Asks, Covered
  <2>3. SameGrants'
    BY <1>1, <1>8 DEF TruthInv, Books, SameGrants
  <2>4. GroundsKept
    <3> SUFFICES ASSUME NEW d \in DOMAIN calls, NEW o \in Outcomes, Grounds(d, o)
                 PROVE  Grounds(d, o)'
      BY DEF GroundsKept
    <3>1. ASSUME Barred(d) PROVE Barred(d)'
      <4>1. d # c /\ d \in Calls
        BY <1>10, <3>1, CopyTypes
      <4> QED BY <1>1, <1>6, <1>8, <3>1, <4>1 DEF Barred, Asks, Covered
    <3>2. Refused(d) => Refused(d)'
      BY <1>1, <3>1 DEF Refused
    <3> QED BY <1>1, <3>2 DEF Grounds
  <2>5. RanInv'
    <3> SUFFICES ASSUME NEW d \in Calls
                 PROVE  /\ ledger'[d].state = "completed" => effects'[d] # <<>>
                        /\ effects'[d] # <<>> => Justified(d)'
      BY DEF RanInv
    <3>1. CASE d = c
      BY <1>6, <1>9, <3>1
    <3>2. CASE d # c
      <4>1. /\ effects'[d] = effects[d] /\ ledger'[d] = ledger[d]
            /\ ledger[d].state = "completed" => effects[d] # <<>>
            /\ effects[d] # <<>> => Justified(d)
        BY <1>1, <1>6, <3>2 DEF TruthInv, Books, RanInv
      <4>2. Justified(d) => Justified(d)'
        BY <1>1, <1>8, <4>1 DEF Justified, Asks, Covered
      <4> QED BY <4>1, <4>2
    <3> QED BY <3>1, <3>2
  <2>6. \A x : Derived(x, x)
    BY DEF Derived
  <2>7. Descend
    BY <1>8, <2>6 DEF Descend
  <2>8. CopyInv'
    BY <2>1, <2>4, <2>7, CopiesDescend DEF TruthInv, Books
  <2> QED BY <2>2, <2>3, <2>5, <2>8 DEF Books
<1>12. At(t)'
  BY <1>0, <1>1, <1>6, <1>7, AdvanceAt DEF Authorized
<1>13. WorldStep
  <2>1. EffectsKept
    BY <1>6 DEF EffectsKept
  <2> QED BY <1>1, <2>1 DEF WorldStep, CallsKept, DecisionsKept
<1> QED BY <1>1, <1>2, <1>7, <1>11, <1>12, <1>13, TaskStep

(* perform returned.                                                        *)
LEMMA performedTruth ==
  ASSUME IInv, IInv', TruthInv, NEW t \in Tasks, performed(t) PROVE TruthInv'
<1>1. /\ pc[t] = "performing" /\ run' = run /\ Same /\ slot' = slot
      /\ UNCHANGED <<current, outer>> /\ Goto(t, "complete")
  BY DEF performed, Same
<1>2. pc'[t] = "complete" /\ UNCHANGED <<kind, next, fail, inDrive, snap>>
  BY <1>1 DEF Goto, IInv, TaskInv, TaskTypeOK
<1>3. effects'[snap[t].call] # <<>>
  BY <1>1 DEF TruthInv, At, CallAt, Same
<1>4. At(t)'
  BY <1>1, <1>2, <1>3, AdvanceAt DEF Authorized, Same
<1> QED BY <1>1, <1>4, GotoTruth

(* perform was cancelled, lost its lease, or failed.                        *)
LEMMA performEndsTruth ==
  ASSUME IInv, IInv', TruthInv, NEW t \in Tasks, performEnds(t) PROVE TruthInv'
<1>1. /\ pc[t] = "performing" /\ run' = run /\ Same /\ slot' = slot
      /\ UNCHANGED <<current, outer>>
  BY DEF performEnds, Same
<1>2. CASE Goto(t, "release")
  BY <1>1, <1>2, GotoRelease
<1>3. CASE /\ ~Direct(t) /\ PersistOr(t, With(t, "cancelled"), "dispose", "dispose")
           /\ UNCHANGED <<kind, inDrive, entry, lost>>
  BY <1>1, <1>3, StopTruth
<1>4. CASE PerformError(t)
  BY <1>1, <1>4, PerformErrorTruth
<1> QED BY <1>2, <1>3, <1>4 DEF performEnds

(* What ran is recorded as completed and reported.                          *)
LEMMA completeTruth ==
  ASSUME IInv, IInv', TruthInv, NEW t \in Tasks, complete(t) PROVE TruthInv'
<1> DEFINE c == snap[t].call
<1>1. /\ pc[t] = "complete" /\ run' = run /\ slot' = slot
      /\ UNCHANGED <<calls, approvals, effects, kind, inDrive, current, outer>>
      /\ ledger' = [ledger EXCEPT ![c].state = "completed"]
      /\ Persist(t, Executed(t), "loop")
  BY DEF complete
<1>2. /\ At(t) /\ Awaiting(t) = pc[t] /\ snap[t] \in Copies
  BY <1>1, HoldingFacts DEF Holding, Points, Waits, Writing
<1>3. c # 0 /\ c \in DOMAIN calls /\ c \in Calls
  BY <1>1, <1>2, CopyTypes DEF IInv, TaskInv, CallInv, OnCall
<1>4. effects[c] # <<>>
  BY <1>1, <1>2 DEF At, CallAt
<1> HIDE DEF c
<1>5. /\ ledger'[c].state = "completed"
      /\ \A d \in Calls \ {c} : ledger'[d] = ledger[d]
  BY <1>1, <1>3 DEF IInv, RowTypeOK
<1>6. LedgerKept
  BY <1>4, <1>5 DEF LedgerKept, TruthInv, Books, RanInv
<1>7. \A d : d = c => Grounds(d, "executed")'
  BY <1>5 DEF Grounds
<1>8. PICK d : d = c /\ Grounds(d, "executed")'
  BY <1>7
<1>9. d = snap[t].call /\ "executed" \in Outcomes \ {"answered"}
  BY <1>8 DEF c, Outcomes
<1> QED BY <1>1, <1>6, <1>8, <1>9, ReportTruth DEF OnCall

(* The handle is given up after the status was written.                     *)
LEMMA disposeTruth ==
  ASSUME IInv, IInv', TruthInv, NEW t \in Tasks, dispose(t) PROVE TruthInv'
<1>1. pc[t] = "dispose" /\ run' = run /\ Same /\ slot' = slot
  BY DEF dispose, Same
<1>2. CASE Goto(t, "release") /\ UNCHANGED <<current, outer>>
  BY <1>1, <1>2, GotoRelease
<1>3. CASE kind[t] # "recover" /\ DriveError(t)
  BY <1>1, <1>3, DriveErrorTruth
<1> QED BY <1>2, <1>3 DEF dispose

(* cancel is over.                                                          *)
LEMMA cancelDisposeTruth ==
  ASSUME IInv, IInv', TruthInv, NEW t \in Tasks, cancelDispose(t) PROVE TruthInv'
<1> DEFINE s == [With(t, "cancelled") EXCEPT !.call = 0, !.question = 0,
                                             !.approval = FALSE]
<1>1. /\ pc[t] = "canceldispose" /\ run' = run /\ Same /\ slot' = slot
      /\ UNCHANGED <<current, outer>>
  BY DEF cancelDispose, Same
<1>2. /\ At(t) /\ Awaiting(t) = pc[t] /\ snap[t] \in Snapshots /\ pc[t] # "idle"
      /\ t \in current => snap[t] = run
  BY <1>1, HoldingFacts DEF Holding, Points, Waits, Writing
<1>3. /\ s.call = 0 /\ s.question = 0 /\ s.status = "cancelled"
      /\ s.grants = snap[t].grants /\ s.results = snap[t].results
  BY <1>2 DEF With, Snapshots
<1>4. snap[t].status = "cancelling"
  BY <1>1, <1>2 DEF At, StatusAt
<1>5. CASE Persist(t, s, "release") /\ UNCHANGED <<kind, inDrive, entry, lost, failures>>
  <2> HIDE DEF s
  <2>1. Derived(s, snap[t]) /\ Change(snap[t], s)
    BY <1>3, <1>4 DEF Derived, Change, Moved, Lifecycle!Moves
  <2> QED BY <1>1, <1>2, <1>5, <2>1, PersistRelease
<1>6. CASE Goto(t, "release")
  BY <1>1, <1>6, GotoRelease
<1> QED BY <1>5, <1>6 DEF cancelDispose

(* Verification takes up the handle.                                        *)
LEMMA borrowTruth ==
  ASSUME IInv, IInv', TruthInv, NEW t \in Tasks, borrow(t) PROVE TruthInv'
<1>1. pc[t] = "borrow" /\ run' = run /\ Same /\ slot' = slot
  BY DEF borrow, Same
<1>2. /\ At(t) /\ Awaiting(t) = pc[t] /\ pc[t] # "idle" /\ (t \in current => snap[t] = run)
  BY <1>1, HoldingFacts DEF Holding, Points, Waits, Writing
<1>3. CASE DriveError(t)
  <2>1. kind[t] # "recover"
    BY <1>1, <1>2 DEF At, DriveAt, InLoop, Drives, ApprovalKinds, Allow, Deny
  <2> QED BY <1>1, <1>3, <2>1, DriveErrorTruth DEF InLoop
<1>4. CASE /\ pc' = [pc EXCEPT ![t] = "verify"]
           /\ UNCHANGED <<kind, snap, next, fail, inDrive, lost, current, outer>>
  <2>1. pc'[t] = "verify" /\ Others(t) /\ Awaiting(t)' = "verify"
    BY <1>1, <1>4 DEF Others, IInv, TaskInv, TaskTypeOK, Awaiting
  <2>2. At(t)'
    <3>1. StatusAt(t)' /\ OuterAt(t)'
      BY <1>1, <1>2, <1>4, <2>1 DEF At, StatusAt, OuterAt, OnCall, InLoop, Authorized
    <3>2. DriveAt(t)'
      BY <1>1, <1>2, <1>4, <2>1 DEF At, DriveAt, InLoop, Authorized, Direct, Drives, Writing
    <3>3. CallAt(t)' /\ CurrentAt(t)'
      BY <1>1, <1>2, <1>4, <2>1 DEF CallAt, CurrentAt, Authorized, Writing
    <3> QED BY <3>1, <3>2, <3>3 DEF At
  <2> QED BY <1>1, <1>2, <1>4, <2>1, <2>2, PlaceTruth
<1> QED BY <1>3, <1>4 DEF borrow

(* Verification reported an outcome.                                        *)
LEMMA verifiedTruth ==
  ASSUME IInv, IInv', TruthInv, NEW t \in Tasks, verified(t) PROVE TruthInv'
<1>1. /\ pc[t] = "verify" /\ run' = run /\ Same /\ slot' = slot
      /\ UNCHANGED <<kind, next, fail, inDrive, current, outer>>
      /\ pc' = [pc EXCEPT ![t] = "cleanup"]
  BY DEF verified, Same
<1>2. /\ At(t) /\ Awaiting(t) = pc[t] /\ pc[t] # "idle" /\ snap[t] \in Snapshots
      /\ t \in current => snap[t] = run
  BY <1>1, HoldingFacts DEF Holding, Points, Waits, Writing
<1>3. PICK st \in {"succeeded", "failed"} : snap' = [snap EXCEPT ![t].status = st]
  BY DEF verified
<1> DEFINE s == [snap[t] EXCEPT !.status = st]
<1>4. snap' = [snap EXCEPT ![t] = s] /\ snap'[t] = s
  BY <1>3 DEF IInv, TaskInv, TaskTypeOK
<1>5. snap[t].status = "verifying"
  BY <1>1, <1>2 DEF At, StatusAt
<1>6. Derived(s, snap[t]) /\ s.status = st /\ Moved(snap[t], s) /\ s.grants = snap[t].grants
  BY <1>2, <1>5 DEF Derived, Snapshots, Moved, Lifecycle!Moves
<1> HIDE DEF s
<1>7. Books'
  BY <1>1, <1>4, <1>6, MoveInv DEF TruthInv
<1>8. pc'[t] = "cleanup" /\ Others(t) /\ Awaiting(t)' = "cleanup"
  BY <1>1, <1>4 DEF Others, IInv, TaskInv, TaskTypeOK, Awaiting
<1>9. At(t)'
  <2>1. StatusAt(t)' /\ OuterAt(t)'
    BY <1>1, <1>2, <1>4, <1>6, <1>8 DEF At, StatusAt, OuterAt, OnCall, InLoop, Authorized
  <2>2. DriveAt(t)'
    BY <1>1, <1>2, <1>8 DEF At, DriveAt, InLoop, Authorized, Direct, Drives, Writing
  <2>3. CallAt(t)' /\ CurrentAt(t)'
    BY <1>1, <1>2, <1>4, <1>5, <1>6, <1>8 DEF CallAt, CurrentAt, Authorized, Writing
  <2> QED BY <2>1, <2>2, <2>3 DEF At
<1> QED BY <1>1, <1>2, <1>7, <1>8, <1>9, SameWorld, TaskStep

(* Verification failed.                                                     *)
LEMMA verifyFailsTruth ==
  ASSUME IInv, IInv', TruthInv, NEW t \in Tasks, verifyFails(t) PROVE TruthInv'
<1>1. pc[t] = "verify" /\ run' = run /\ Same /\ slot' = slot /\ DriveError(t)
  BY DEF verifyFails, Same
<1>2. At(t) /\ Awaiting(t) = pc[t]
  BY <1>1, HoldingFacts DEF Holding, Points, Waits, Writing
<1>3. kind[t] # "recover"
  BY <1>1, <1>2 DEF At, DriveAt, InLoop, Drives, ApprovalKinds, Allow, Deny
<1> QED BY <1>1, <1>3, DriveErrorTruth DEF InLoop

(* The outcome is written, as it is or as failed.                           *)
LEMMA cleanupTruth ==
  ASSUME IInv, IInv', TruthInv, NEW t \in Tasks, cleanup(t) PROVE TruthInv'
<1>1. /\ pc[t] = "cleanup" /\ run' = run /\ Same /\ slot' = slot
      /\ UNCHANGED <<kind, inDrive, current, outer>>
  BY DEF cleanup, Same
<1>2. /\ At(t) /\ Awaiting(t) = pc[t] /\ pc[t] # "idle" /\ snap[t] \in Snapshots
  BY <1>1 DEF TruthInv, Awaiting, IInv, TaskInv, TaskTypeOK
<1>3. snap[t].status \in {"succeeded", "failed"}
  BY <1>1, <1>2 DEF At, StatusAt
<1>4. t \in current => run.status = "verifying" /\ Moved(run, snap[t])
                         /\ run.grants = snap[t].grants
  BY <1>1, <1>2 DEF At, CurrentAt
<1>5. CASE Persist(t, snap[t], "release")
  <2>1. Derived(snap[t], snap[t]) /\ (t \in current => Change(run, snap[t]))
    BY <1>4 DEF Derived, Change
  <2> QED BY <1>1, <1>2, <1>5, <2>1, PersistRelease
<1>6. CASE Persist(t, With(t, "failed"), "release")
  <2> DEFINE s == With(t, "failed")
  <2>1. /\ Derived(s, snap[t]) /\ s.status = "failed" /\ s.call = snap[t].call
        /\ s.grants = snap[t].grants /\ s.results = snap[t].results
    BY <1>2, WithDerived DEF With, Waiting
  <2> HIDE DEF s
  <2>2. t \in current => Change(run, s)
    BY <1>3, <1>4, <2>1 DEF Change, Moved, Lifecycle!Moves
  <2>3. Persist(t, s, "release")
    BY <1>6 DEF s
  <2> QED BY <1>1, <1>2, <2>1, <2>2, <2>3, PersistRelease
<1> QED BY <1>5, <1>6 DEF cleanup

(* Nothing of the Run, its tasks and its ledgers changes.                   *)
LEMMA AroundTruth ==
  ASSUME IInv, IInv', TruthInv,
         UNCHANGED <<run, current, outer, slot, pc, kind, snap, next, fail, inDrive>>, Same
  PROVE  TruthInv'
<1>1. Books'
  BY StayInv DEF TruthInv
<1>2. StartInv'
  BY DEF TruthInv, StartInv
<1>3. \A t \in Tasks : At(t)'
  BY DEF TruthInv, At, StatusAt, DriveAt, CallAt, CurrentAt, OuterAt, Awaiting, Direct,
         Drives, Permitted, Covered, Asks, Same
<1> QED BY <1>1, <1>2, <1>3 DEF TruthInv

-----------------------------------------------------------------------------
(* A new turn of the model.                                                 *)

(* Its number is that of no earlier turn, so no book mentions it.           *)
LEMMA NewTurn ==
  ASSUME IInv, AskedInv, RanInv, Len(calls) < MaxCalls, NEW turn, calls' = Append(calls, turn),
         NEW n, n = Len(calls) + 1
  PROVE  /\ n \in Calls /\ n \notin DOMAIN calls /\ n \in DOMAIN calls' /\ calls'[n] = turn
         /\ \A c \in DOMAIN calls : c \in DOMAIN calls' /\ calls'[c] = calls[c]
         /\ DOMAIN calls' = DOMAIN calls \cup {n}
         /\ approvals[n] = "none" /\ effects[n] = <<>> /\ ledger[n].state # "completed"
<1>1. calls \in Seq(Turns) /\ Len(calls) \in Nat /\ DOMAIN calls = 1..Len(calls)
  BY DEF IInv, WorldTypeOK
<1>2. n \in Calls /\ n \notin DOMAIN calls
  BY <1>1, RunEngineAssumption DEF Calls
<1>3. /\ n \in DOMAIN calls' /\ calls'[n] = turn
      /\ \A c \in DOMAIN calls : c \in DOMAIN calls' /\ calls'[c] = calls[c]
      /\ DOMAIN calls' = DOMAIN calls \cup {n}
  BY <1>1
<1>4. approvals[n] = "none"
  BY <1>2 DEF AskedInv, Asks
<1>5. effects[n] = <<>>
  BY <1>2 DEF RanInv, Justified
<1>6. ledger[n].state # "completed"
  BY <1>2, <1>5 DEF RanInv
<1> QED BY <1>2, <1>3, <1>4, <1>5, <1>6

(* A task writes s after the provider numbered a turn.                      *)
TurnTaken(t, s, turn) ==
    /\ Len(calls) < MaxCalls /\ calls' = Append(calls, turn)
    /\ s.call \in {0, Len(calls) + 1} /\ snap' = [snap EXCEPT ![t] = s] /\ run' = run
    /\ UNCHANGED <<ledger, approvals, effects>>

(* The books about earlier calls are kept when a task takes up a new one.   *)
LEMMA GrowInv ==
  ASSUME IInv, IInv', AskedInv, SameGrants, RanInv,
         NEW t \in Tasks, NEW s, NEW turn, TurnTaken(t, s, turn)
  PROVE  AskedInv' /\ SameGrants' /\ RanInv' /\ CallsKept /\ AskedKept /\ GroundsKept
<1> USE DEF TurnTaken
<1>0. PICK n : n = Len(calls) + 1
  OBVIOUS
<1>1. /\ n \in Calls /\ n \notin DOMAIN calls /\ n \in DOMAIN calls' /\ calls'[n] = turn
      /\ \A c \in DOMAIN calls : c \in DOMAIN calls' /\ calls'[c] = calls[c]
      /\ DOMAIN calls' = DOMAIN calls \cup {n}
      /\ approvals[n] = "none" /\ effects[n] = <<>> /\ ledger[n].state # "completed"
  BY <1>0, NewTurn
<1>2. CallsKept /\ AskedKept
  BY <1>1 DEF CallsKept, AskedKept
<1>3. /\ \A x \in Copies' : x = s \/ x \in Copies
      /\ \A x \in Copies : x.call # 0 => x.call \in DOMAIN calls
  <2>1. \A u \in Tasks : snap'[u] = IF u = t THEN s ELSE snap[u]
    BY DEF IInv, TaskInv, TaskTypeOK
  <2>2. ASSUME NEW x \in Copies' PROVE x = s \/ x \in Copies
    <3>1. CASE x = run'
      BY <3>1, CopyTypes
    <3>2. ASSUME NEW u \in Tasks, x = snap'[u] PROVE x = s \/ x \in Copies
      BY <2>1, <3>2, CopyTypes
    <3> QED BY <3>1, <3>2, NextCopyTypes
  <2> QED BY <2>2, CopyTypes
<1> s.call \in {0, n} /\ run' = run /\ UNCHANGED <<ledger, approvals, effects>>
  BY <1>0
<1> HIDE DEF TurnTaken
<1>4. \A c : c \in DOMAIN calls => (Asks(c)' <=> Asks(c))
  BY <1>1 DEF Asks
<1>5. 0 \notin DOMAIN calls
  BY CopyTypes
<1>6. \A x \in Copies' : x.call \in DOMAIN calls => x \in Copies
  BY <1>1, <1>3, <1>5
<1>7. \A x \in Copies : x.call \in DOMAIN calls =>
         /\ Covered(x, "allow")' <=> Covered(x, "allow")
         /\ Covered(x, "deny")' <=> Covered(x, "deny")
  BY <1>1 DEF Covered
<1>8. AskedInv'
  <2>1. ASSUME NEW c \in Calls, approvals'[c] # "none" PROVE Asks(c)'
    BY <1>4, <2>1 DEF AskedInv, Asks
  <2>2. ASSUME NEW x \in Copies', x.call # 0, approvals'[x.call] # "none"
        PROVE  /\ Covered(x, "allow")' => approvals'[x.call] = "approve_run"
               /\ Covered(x, "deny")' => approvals'[x.call] = "reject_run"
    <3>1. x \in Copies /\ x.call \in DOMAIN calls
      BY <1>1, <1>3, <2>2
    <3> QED BY <1>7, <2>2, <3>1 DEF AskedInv
  <2> QED BY <2>1, <2>2 DEF AskedInv
<1>9. SameGrants'
  BY <1>1, <1>3 DEF SameGrants
<1>10. GroundsKept
  <2> SUFFICES ASSUME NEW c \in DOMAIN calls, NEW o \in Outcomes, Grounds(c, o)
               PROVE  Grounds(c, o)'
    BY DEF GroundsKept
  <2>1. ASSUME Barred(c) PROVE Barred(c)'
    <3>1. ASSUME NEW x \in Copies', x.call = c
          PROVE  Covered(x, "deny")' /\ ~Covered(x, "allow")'
      BY <1>6, <1>7, <2>1, <3>1 DEF Barred
    <3> QED BY <1>4, <2>1, <3>1 DEF Barred
  <2>2. Refused(c) => Refused(c)'
    BY <1>1, <2>1 DEF Refused
  <2> QED BY <1>1, <2>2 DEF Grounds
<1>11. RanInv'
  <2> SUFFICES ASSUME NEW c \in Calls
               PROVE  /\ ledger'[c].state = "completed" => effects'[c] # <<>>
                      /\ effects'[c] # <<>> => Justified(c)'
    BY DEF RanInv
  <2>1. ASSUME effects[c] # <<>> PROVE Justified(c)'
    <3>1. Justified(c) /\ c \in DOMAIN calls
      BY <2>1 DEF RanInv, Justified
    <3>2. ASSUME \A x \in Copies : x.call = c => Covered(x, "allow")
          PROVE  \A x \in Copies' : x.call = c => Covered(x, "allow")'
      BY <1>6, <1>7, <3>1, <3>2
    <3>3. calls'[c] = calls[c] /\ c \in DOMAIN calls' /\ (Asks(c)' <=> Asks(c))
      BY <1>1, <1>4, <3>1
    <3> QED BY <3>1, <3>2, <3>3 DEF Justified
  <2> QED BY <2>1 DEF RanInv
<1> QED BY <1>2, <1>8, <1>9, <1>10, <1>11

(* What a copy says stays true when it takes up a new question or call.     *)
LEMMA SameResults ==
  ASSUME NEW y \in Snapshots, NEW s, s.results = y.results, ResultsOf(y),
         CallsKept, GroundsKept,
         \A i \in DOMAIN y.results :
           y.results[i].id # s.call /\ y.results[i].id # s.question
  PROVE  ResultsOf(s)'
<1>1. y.results \in Seq([id: Calls, outcome: Outcomes])
  BY DEF Snapshots
<1>2. \A i \in DOMAIN y.results : y.results[i] \in [id: Calls, outcome: Outcomes]
  BY <1>1, EntryType
<1>3. ASSUME NEW i \in DOMAIN s.results
      PROVE  /\ s.results[i].id \in DOMAIN calls'
             /\ Grounds(s.results[i].id, s.results[i].outcome)'
  <2>1. /\ y.results[i].id \in DOMAIN calls
        /\ Grounds(y.results[i].id, y.results[i].outcome)
    BY DEF ResultsOf
  <2>2. y.results[i].outcome \in Outcomes
    BY <1>2
  <2>3. Grounds(y.results[i].id, y.results[i].outcome)'
    BY <2>1, <2>2 DEF GroundsKept
  <2> QED BY <2>1, <2>3 DEF CallsKept
<1> QED BY <1>3 DEF ResultsOf

(* The ledgers and the world grow by a turn.                                *)
LEMMA GrownWorld ==
  ASSUME CallsKept, run' = run, UNCHANGED <<approvals, effects>>
  PROVE  WorldStep
BY DEF WorldStep, DecisionsKept, EffectsKept

(* What a task knows when the model answers.                                *)
LEMMA AtModel ==
  ASSUME IInv, TruthInv, NEW t \in Tasks, pc[t] = "model"
  PROVE  /\ At(t) /\ Awaiting(t) = "model" /\ snap[t] \in Snapshots /\ snap[t] \in Copies
         /\ snap[t].status = "running" /\ snap[t].call = 0 /\ Drives(t)
         /\ ResultsOf(snap[t]) /\ WaitOf(snap[t])
         /\ t \in current => snap[t] = run
         /\ t \in outer /\ kind[t] # "recover" => run.status = "running"
         /\ inDrive[t] /\ ~Direct(t) /\ snap[t].grants \subseteq run.grants
<1>1. /\ At(t) /\ Awaiting(t) = "model" /\ snap[t] \in Snapshots /\ snap[t] \in Copies
      /\ t \in current => snap[t] = run
  BY HoldingFacts DEF Holding, Points, Writing
<1>2. snap[t].status = "running" /\ snap[t].call = 0
  BY <1>1 DEF At, StatusAt
<1>3. inDrive[t] /\ ~Direct(t) /\ Drives(t)
  BY <1>1 DEF At, DriveAt, InLoop
<1>4. /\ snap[t].grants \subseteq run.grants
      /\ t \in outer /\ kind[t] # "recover" => run.status = "running"
  BY <1>1 DEF At, CallAt, OuterAt, InLoop
<1> QED BY <1>1, <1>2, <1>3, <1>4 DEF TruthInv, Books, CopyInv
(* The model asks the user.                                                 *)
LEMMA modelAsksUserTruth ==
  ASSUME IInv, IInv', TruthInv, NEW t \in Tasks, modelAsksUser(t) PROVE TruthInv'
<1>0. PICK n : n = Len(calls) + 1
  OBVIOUS
<1>1. PICK s : s = [With(t, "waiting_user") EXCEPT !.question = n]
  OBVIOUS
<1>2. PICK turn : turn = [tool |-> "question"]
  OBVIOUS
<1>3. /\ pc[t] = "model" /\ run' = run /\ slot' = slot /\ Len(calls) < MaxCalls
      /\ calls' = Append(calls, turn) /\ Persist(t, s, "release")
      /\ UNCHANGED <<kind, inDrive, current, outer, ledger, approvals, effects>>
  BY <1>0, <1>1, <1>2 DEF modelAsksUser
<1>4. /\ At(t) /\ snap[t] \in Snapshots /\ snap[t].status = "running" /\ snap[t].call = 0
      /\ ResultsOf(snap[t]) /\ (t \in current => snap[t] = run)
  BY <1>3, AtModel
<1>5. /\ s.call = 0 /\ s.question = n /\ s.status = "waiting_user"
      /\ s.results = snap[t].results /\ s.grants = snap[t].grants
  BY <1>1, <1>4 DEF With, Snapshots
<1>6. /\ PersistOr(t, s, "release", "release") /\ snap' = [snap EXCEPT ![t] = s]
      /\ pc'[t] = "renew" /\ snap'[t] = s /\ next'[t] = "release" /\ fail'[t] = "release"
  BY <1>3, PersistWrites DEF Persist, PersistOr
<1>7. AskedInv' /\ SameGrants' /\ RanInv' /\ CallsKept /\ AskedKept /\ GroundsKept
  <2>1. AskedInv /\ SameGrants /\ RanInv
    BY DEF TruthInv, Books
  <2>2. TurnTaken(t, s, turn)
    BY <1>0, <1>3, <1>5, <1>6 DEF TurnTaken
  <2> QED BY <2>1, <2>2, GrowInv
<1>8. /\ n \in Calls /\ n \notin DOMAIN calls /\ n \in DOMAIN calls' /\ calls'[n] = turn
  BY <1>0, <1>3, NewTurn DEF TruthInv, Books
<1>9. ResultsOf(s)'
  <2>1. \A i \in DOMAIN snap[t].results :
          snap[t].results[i].id # s.call /\ snap[t].results[i].id # s.question
    BY <1>4, <1>5, <1>8 DEF ResultsOf
  <2> QED BY <1>4, <1>5, <1>7, <2>1, SameResults
<1>10. WaitOf(s)'
  BY <1>2, <1>5, <1>8 DEF WaitOf, Calls
<1>11. Books'
  BY <1>3, <1>6, <1>7, <1>9, <1>10, OneNew DEF TruthInv, Books
<1>12. Change(snap[t], s)
  BY <1>4, <1>5 DEF Change, Moved, Lifecycle!Moves
<1>13. At(t)'
  BY <1>3, <1>4, <1>6, <1>12, WriteReleaseAt
<1>14. Others(t)
  BY <1>3, <1>6 DEF PersistOr, Others, IInv, TaskInv, TaskTypeOK
<1>15. WorldStep
  BY <1>3, <1>7, GrownWorld
<1> QED BY <1>3, <1>11, <1>13, <1>14, <1>15, TaskStep

(* The model calls a tool with a secret in the arguments.                   *)
LEMMA modelCallsWithSecretTruth ==
  ASSUME IInv, IInv', TruthInv, NEW t \in Tasks, modelCallsWithSecret(t) PROVE TruthInv'
<1>0. PICK n : n = Len(calls) + 1
  OBVIOUS
<1>1. PICK s : s = [snap[t] EXCEPT !.results = Append(@, [id |-> n, outcome |-> "denied"])]
  OBVIOUS
<1>2. PICK turn : turn = [tool |-> "exec", policy |-> "deny"]
  OBVIOUS
<1>3. /\ pc[t] = "model" /\ run' = run /\ slot' = slot /\ Len(calls) < MaxCalls
      /\ calls' = Append(calls, turn) /\ Persist(t, s, "loop")
      /\ UNCHANGED <<kind, inDrive, current, outer, ledger, approvals, effects>>
  BY <1>0, <1>1, <1>2 DEF modelCallsWithSecret
<1>4. /\ At(t) /\ snap[t] \in Snapshots /\ snap[t].status = "running" /\ snap[t].call = 0
      /\ ResultsOf(snap[t]) /\ WaitOf(snap[t]) /\ (t \in current => snap[t] = run)
      /\ inDrive[t] /\ Drives(t) /\ snap[t] \in Copies
  BY <1>3, AtModel
<1>5. /\ s.call = 0 /\ s.question = snap[t].question /\ s.status = "running"
      /\ s.results = Append(snap[t].results, [id |-> n, outcome |-> "denied"])
      /\ s.grants = snap[t].grants
  BY <1>1, <1>4 DEF Snapshots
<1>6. /\ PersistOr(t, s, "loop", "release") /\ snap' = [snap EXCEPT ![t] = s]
      /\ pc'[t] = "renew" /\ snap'[t] = s /\ next'[t] = "loop" /\ fail'[t] = "release"
  BY <1>3, PersistWrites DEF Persist, PersistOr
<1>7. AskedInv' /\ SameGrants' /\ RanInv' /\ CallsKept /\ AskedKept /\ GroundsKept
  <2>1. AskedInv /\ SameGrants /\ RanInv
    BY DEF TruthInv, Books
  <2>2. TurnTaken(t, s, turn)
    BY <1>0, <1>3, <1>5, <1>6 DEF TurnTaken
  <2> QED BY <2>1, <2>2, GrowInv
<1>8. /\ n \in Calls /\ n \notin DOMAIN calls /\ n \in DOMAIN calls' /\ calls'[n] = turn
  BY <1>0, <1>3, NewTurn DEF TruthInv, Books
<1>9. ResultsOf(s)' /\ WaitOf(s)'
  <2>1. \A i \in DOMAIN snap[t].results : snap[t].results[i].id # n
    BY <1>4, <1>8 DEF ResultsOf
  <2>2. s.call # n /\ s.question # n /\ n # 0
    BY <1>4, <1>5, <1>8 DEF WaitOf, Calls
  <2>3. Grounds(n, "denied")'
    BY <1>2, <1>8 DEF Grounds, Refused, Tools
  <2>4. s \in Snapshots
    BY <1>6 DEF IInv, TaskInv, TaskTypeOK
  <2>5. /\ s.call \in {0, snap[t].call} /\ s.question \in {0, snap[t].question}
        /\ s.status \notin Waiting /\ "denied" \in Outcomes
    BY <1>5 DEF Waiting, Outcomes
  <2> QED BY <1>4, <1>5, <1>7, <1>8, <2>1, <2>2, <2>3, <2>4, <2>5, Pushed
<1>10. Books'
  BY <1>3, <1>6, <1>7, <1>9, OneNew DEF TruthInv, Books
<1>11. Change(snap[t], s)
  <2>1. Reported(snap[t], s)
    BY <1>4, <1>5, <1>8 DEF Reported, Outcomes
  <2> QED BY <1>5, <2>1 DEF Change
<1>12. At(t)'
  BY <1>3, <1>4, <1>5, <1>6, <1>11, WriteLoopAt
<1>13. Others(t)
  BY <1>3, <1>6 DEF PersistOr, Others, IInv, TaskInv, TaskTypeOK
<1>14. WorldStep
  BY <1>3, <1>7, GrownWorld
<1> QED BY <1>3, <1>10, <1>12, <1>13, <1>14, TaskStep

(* The model calls a tool.                                                  *)
LEMMA modelCallsToolTruth ==
  ASSUME IInv, IInv', TruthInv, NEW t \in Tasks, modelCallsTool(t) PROVE TruthInv'
<1>0. PICK n : n = Len(calls) + 1
  OBVIOUS
<1>1. PICK s : s = [snap[t] EXCEPT !.call = n]
  OBVIOUS
<1>2. PICK turn \in ToolCalls : calls' = Append(calls, turn)
  BY DEF modelCallsTool
<1>3. /\ pc[t] = "model" /\ run' = run /\ slot' = slot /\ Len(calls) < MaxCalls
      /\ UNCHANGED <<kind, inDrive, current, outer, ledger, approvals, effects>>
      /\ pc' = [pc EXCEPT ![t] = "save"] /\ next' = [next EXCEPT ![t] = "authorize"]
      /\ fail' = [fail EXCEPT ![t] = "release"] /\ snap' = [snap EXCEPT ![t].call = n]
  BY <1>0 DEF modelCallsTool
<1>4. /\ At(t) /\ snap[t] \in Snapshots /\ snap[t].status = "running" /\ snap[t].call = 0
      /\ ResultsOf(snap[t]) /\ WaitOf(snap[t]) /\ (t \in current => snap[t] = run)
      /\ inDrive[t] /\ Drives(t) /\ ~Direct(t) /\ snap[t].grants \subseteq run.grants
      /\ t \in outer /\ kind[t] # "recover" => run.status = "running"
  BY <1>3, AtModel
<1>5. /\ s.call = n /\ s.question = snap[t].question /\ s.status = "running"
      /\ s.results = snap[t].results /\ s.grants = snap[t].grants
  BY <1>1, <1>4 DEF Snapshots
<1>6. /\ snap' = [snap EXCEPT ![t] = s] /\ snap'[t] = s
      /\ pc'[t] = "save" /\ next'[t] = "authorize" /\ fail'[t] = "release"
      /\ Awaiting(t)' = "authorize"
  BY <1>1, <1>3 DEF IInv, TaskInv, TaskTypeOK, Awaiting
<1>7. AskedInv' /\ SameGrants' /\ RanInv' /\ CallsKept /\ AskedKept /\ GroundsKept
  <2>1. AskedInv /\ SameGrants /\ RanInv
    BY DEF TruthInv, Books
  <2>2. TurnTaken(t, s, turn)
    BY <1>0, <1>2, <1>3, <1>5, <1>6 DEF TurnTaken
  <2> QED BY <2>1, <2>2, GrowInv
<1>8. /\ n \in Calls /\ n \notin DOMAIN calls /\ n \in DOMAIN calls' /\ calls'[n] = turn
  BY <1>0, <1>2, <1>3, NewTurn DEF TruthInv, Books
<1>9. ResultsOf(s)'
  <2>1. \A i \in DOMAIN snap[t].results :
          snap[t].results[i].id # s.call /\ snap[t].results[i].id # s.question
    BY <1>4, <1>5, <1>8 DEF ResultsOf
  <2> QED BY <1>4, <1>5, <1>7, <2>1, SameResults
<1>10. WaitOf(s)'
  BY <1>4, <1>5, <1>7 DEF WaitOf, CallsKept
<1>11. Books'
  BY <1>3, <1>6, <1>7, <1>9, <1>10, OneNew DEF TruthInv, Books
<1>12. Change(snap[t], s)
  BY <1>4, <1>5 DEF Change, Moved
<1>13. At(t)'
  <2>1. StatusAt(t)' /\ OuterAt(t)'
    BY <1>3, <1>4, <1>5, <1>6 DEF StatusAt, OuterAt, OnCall, InLoop, Authorized, Writing
  <2>2. DriveAt(t)'
    BY <1>3, <1>4, <1>6 DEF DriveAt, InLoop, Authorized, Direct, Drives, Writing
  <2>3. CallAt(t)' /\ CurrentAt(t)'
    BY <1>3, <1>4, <1>5, <1>6, <1>12 DEF CallAt, CurrentAt, Authorized, Writing
  <2> QED BY <2>1, <2>2, <2>3 DEF At
<1>14. Others(t)
  BY <1>3, <1>6 DEF Others, IInv, TaskInv, TaskTypeOK
<1>15. WorldStep
  BY <1>3, <1>7, GrownWorld
<1> QED BY <1>3, <1>11, <1>13, <1>14, <1>15, TaskStep

-----------------------------------------------------------------------------
(* Steps that change the approval ledger.                                   *)

(* A task writes s while the ledger entry of its call changes to v.         *)
Decides(t, s, c, v) ==
    /\ c = snap[t].call /\ c # 0 /\ Asks(c)
    /\ approvals' = [approvals EXCEPT ![c] = v] /\ v # "none"
    /\ approvals[c] \in {"none", "pending", v}
    /\ s.call = c /\ s.results = snap[t].results /\ s.question = snap[t].question
    /\ s.status # "waiting_user" /\ (s.status = "waiting_approval" => s.approval)
    /\ snap' = [snap EXCEPT ![t] = s] /\ run' = run
    /\ UNCHANGED <<ledger, calls, effects>>

(* A copy with the call may have a grant only for the decision that is      *)
(* recorded, and the call did not run under a grant.                        *)
Uncovered(c, s, v) ==
    /\ approvals[c] = "none" => \A x \in Copies : x.call = c =>
         ~Covered(x, "allow") /\ ~Covered(x, "deny")
    /\ Covered(s, "allow") => v = "approve_run"
    /\ Covered(s, "deny") => v = "reject_run"

(* The books are kept by a request for a decision and by a decision.        *)
LEMMA DecideBooks ==
  ASSUME IInv, IInv', Books, NEW t \in Tasks, NEW s, NEW c, NEW v,
         Decides(t, s, c, v), Uncovered(c, s, v)
  PROVE  Books' /\ CallsKept
<1>1. /\ c = snap[t].call /\ c # 0 /\ Asks(c) /\ v # "none"
      /\ approvals[c] \in {"none", "pending", v} /\ s.call = c /\ run' = run
      /\ UNCHANGED <<ledger, calls, effects>> /\ snap' = [snap EXCEPT ![t] = s]
      /\ s.results = snap[t].results /\ s.question = snap[t].question
      /\ s.status # "waiting_user" /\ (s.status = "waiting_approval" => s.approval)
  BY DEF Decides
<1>2. c \in Calls /\ snap[t] \in Copies /\ snap[t] \in Snapshots
  BY <1>1, CopyTypes DEF Asks
<1>3. /\ approvals'[c] = v
      /\ \A d \in Calls : d # c => approvals'[d] = approvals[d]
  BY <1>1, <1>2 DEF Decides, IInv, RowTypeOK
<1>4. /\ \A x \in Copies' : x = s \/ x \in Copies
      /\ \A x \in Copies : x.call # 0 => x.call \in Calls
  <2>1. \A u \in Tasks : snap'[u] = IF u = t THEN s ELSE snap[u]
    BY <1>1 DEF IInv, TaskInv, TaskTypeOK
  <2>2. ASSUME NEW x \in Copies' PROVE x = s \/ x \in Copies
    <3>1. CASE x = run'
      BY <1>1, <3>1, CopyTypes
    <3>2. ASSUME NEW u \in Tasks, x = snap'[u] PROVE x = s \/ x \in Copies
      BY <2>1, <3>2, CopyTypes
    <3> QED BY <3>1, <3>2, NextCopyTypes
  <2> QED BY <2>2, CopyTypes
<1>5. CallsKept
  BY <1>1 DEF CallsKept
<1>6. AskedKept
  BY <1>1, <1>3 DEF AskedKept
<1>7. \A d : Asks(d)' <=> Asks(d)
  BY <1>1 DEF Asks
<1>8. \A x : (Covered(x, "allow")' <=> Covered(x, "allow"))
          /\ (Covered(x, "deny")' <=> Covered(x, "deny"))
  BY <1>1 DEF Covered
<1>9. AskedInv'
  <2>1. ASSUME NEW d \in Calls, approvals'[d] # "none" PROVE Asks(d)'
    BY <1>1, <1>3, <1>7, <2>1 DEF Books, AskedInv
  <2>2. ASSUME NEW x \in Copies', x.call # 0, approvals'[x.call] # "none"
        PROVE  /\ Covered(x, "allow") => approvals'[x.call] = "approve_run"
               /\ Covered(x, "deny") => approvals'[x.call] = "reject_run"
    <3>1. CASE x = s
      BY <1>1, <1>3, <3>1 DEF Uncovered
    <3>2. CASE x \in Copies /\ x.call = c /\ approvals[c] = "none"
      BY <3>2 DEF Uncovered
    <3>3. CASE x \in Copies /\ x.call = c /\ approvals[c] # "none"
      <4>1. /\ Covered(x, "allow") => approvals[c] = "approve_run"
            /\ Covered(x, "deny") => approvals[c] = "reject_run"
        BY <1>1, <3>3 DEF Books, AskedInv
      <4> QED BY <1>1, <1>3, <3>3, <4>1
    <3>4. CASE x \in Copies /\ x.call # c
      BY <1>3, <1>4, <2>2, <3>4 DEF Books, AskedInv
    <3> QED BY <1>4, <3>1, <3>2, <3>3, <3>4
  <2> QED BY <1>8, <2>1, <2>2 DEF AskedInv
<1>10. SameGrants'
  <2> SUFFICES ASSUME NEW x \in Copies', NEW z \in Copies', x.call # 0,
                      x.call = z.call, approvals'[x.call] = "none"
               PROVE  x.grants = z.grants
    BY DEF SameGrants
  <2>1. x.call # c
    BY <1>1, <1>3
  <2>2. x \in Copies /\ z \in Copies
    BY <1>1, <1>4, <2>1
  <2>3. approvals[x.call] = "none"
    BY <1>3, <1>4, <2>1, <2>2
  <2> QED BY <2>2, <2>3 DEF Books, SameGrants
<1>11. \A d : d # c => \A x \in Copies' : x.call = d => x \in Copies
  BY <1>1, <1>4
<1>12. GroundsKept
  <2> SUFFICES ASSUME NEW d \in DOMAIN calls, NEW o \in Outcomes, Grounds(d, o)
               PROVE  Grounds(d, o)'
    BY DEF GroundsKept
  <2>0. d \in Calls
    BY CopyTypes
  <2>1. ASSUME Barred(d) PROVE Barred(d)'
    <3>1. d # c
      BY <1>2, <1>1, <2>1 DEF Barred, Uncovered
    <3>2. ASSUME NEW x \in Copies', x.call = d
          PROVE  Covered(x, "deny")' /\ ~Covered(x, "allow")'
      BY <1>8, <1>11, <2>1, <3>1, <3>2 DEF Barred
    <3>3. Asks(d)' /\ approvals'[d] = "none" /\ effects'[d] = <<>>
      BY <1>1, <1>3, <1>7, <2>0, <2>1, <3>1 DEF Barred
    <3> QED BY <3>2, <3>3 DEF Barred
  <2>2. approvals[d] \in Deny => approvals'[d] \in Deny
    BY <1>1, <1>3, <2>0 DEF Deny
  <2>3. Refused(d) => Refused(d)'
    BY <1>1, <2>1, <2>2 DEF Refused
  <2> QED BY <1>1, <2>3 DEF Grounds
<1>13. RanInv'
  <2> SUFFICES ASSUME NEW d \in Calls
               PROVE  /\ ledger'[d].state = "completed" => effects'[d] # <<>>
                      /\ effects'[d] # <<>> => Justified(d)'
    BY DEF RanInv
  <2>1. ASSUME effects[d] # <<>> PROVE Justified(d)'
    <3>1. Justified(d)
      BY <2>1 DEF Books, RanInv
    <3>2. CASE d = c
      <4>1. ~(approvals[c] = "none" /\ \A x \in Copies : x.call = c => Covered(x, "allow"))
        BY <1>1, <1>2 DEF Uncovered
      <4>2. calls[c].policy # "allow"
        BY <1>1 DEF Asks
      <4>3. approvals[c] \in Allow \cup {"edit_approve"}
        BY <3>1, <3>2, <4>1, <4>2 DEF Justified
      <4>4. approvals'[c] = approvals[c]
        BY <1>1, <1>3, <4>3 DEF Allow
      <4> QED BY <1>1, <1>7, <3>1, <3>2, <4>1, <4>2, <4>4 DEF Justified
    <3>3. CASE d # c
      <4>1. ASSUME \A x \in Copies : x.call = d => Covered(x, "allow")
            PROVE  \A x \in Copies' : x.call = d => Covered(x, "allow")'
        BY <1>8, <1>11, <3>3, <4>1
      <4>2. approvals'[d] = approvals[d]
        BY <1>3, <3>3
      <4> QED BY <1>1, <1>7, <3>1, <4>1, <4>2 DEF Justified
    <3> QED BY <3>2, <3>3
  <2> QED BY <1>1, <2>1 DEF Books, RanInv
<1>14. ResultsOf(s)'
  <2>1. ResultsOf(snap[t])
    BY <1>2 DEF Books, CopyInv
  <2>2. \A i \in DOMAIN snap[t].results :
          snap[t].results[i].id # s.call /\ snap[t].results[i].id # s.question
    BY <1>1, <2>1 DEF ResultsOf
  <2> QED BY <1>1, <1>2, <1>5, <1>12, <2>1, <2>2, SameResults
<1>15. WaitOf(s)'
  <2>1. s.question # 0 => s.question \in DOMAIN calls /\ calls[s.question].tool = "question"
    BY <1>1, <1>2 DEF Books, CopyInv, WaitOf
  <2> QED BY <1>1, <1>3, <2>1 DEF WaitOf
<1>16. CopyInv'
  BY <1>1, <1>5, <1>6, <1>12, <1>14, <1>15, OneNew DEF Books
<1> QED BY <1>5, <1>9, <1>10, <1>13, <1>16 DEF Books
(* approvals.decide records the decision, once.                             *)
LEMMA decideTruth ==
  ASSUME IInv, IInv', TruthInv, NEW t \in Tasks, decide(t) PROVE TruthInv'
<1>1. /\ pc[t] = "decide" /\ run' = run /\ slot' = slot
      /\ UNCHANGED <<kind, inDrive, current, outer, ledger, calls, effects>>
  BY DEF decide
<1>2. /\ At(t) /\ Awaiting(t) = pc[t] /\ snap[t] \in Copies /\ snap[t] \in Snapshots
      /\ pc[t] # "idle" /\ t \in current => snap[t] = run
  BY <1>1, HoldingFacts DEF Holding, Points, Writing
<1>3. kind[t] \in ApprovalKinds /\ snap[t].status = "waiting_approval"
  BY <1>1, <1>2 DEF IInv, TaskInv, CallInv, Direct, At, StatusAt
<1>4. CASE /\ UNCHANGED <<approvals, snap, next, fail>>
           /\ pc' = [pc EXCEPT ![t] = "release"]
  <2>1. pc'[t] = "release" /\ Others(t) /\ Same
    BY <1>1, <1>4 DEF Others, IInv, TaskInv, TaskTypeOK, Same
  <2> QED BY <1>1, <1>2, <1>4, <2>1, ReleaseAt, PlaceTruth
<1>5. ASSUME NEW c, c = snap[t].call, NEW v, v = kind[t], NEW n,
             n = (IF v \in Deny THEN "rejected" ELSE "approved"), NEW s,
             s = [snap[t] EXCEPT !.status = "running", !.approval = FALSE,
                                 !.grants = @ \cup Grant(t)],
             approvals[c] \in {"pending", v}, approvals' = [approvals EXCEPT ![c] = v],
             Persist(t, s, n)
      PROVE  TruthInv'
  <2>1. /\ s.call = c /\ s.question = snap[t].question /\ s.status = "running"
        /\ s.results = snap[t].results /\ s.grants = snap[t].grants \cup Grant(t)
    BY <1>2, <1>5 DEF Snapshots
  <2>2. /\ PersistOr(t, s, n, "release") /\ snap' = [snap EXCEPT ![t] = s]
        /\ pc'[t] = "renew" /\ snap'[t] = s /\ next'[t] = n /\ fail'[t] = "release"
    <3>1. PersistOr(t, s, n, "release")
      BY <1>5 DEF Persist
    <3>2. snap' = [snap EXCEPT ![t] = s]
      BY <3>1 DEF PersistOr
    <3> QED BY <3>1, <3>2, PersistWrites
  <2>3. c # 0 /\ c \in Calls /\ v # "none" /\ approvals[c] # "none"
    BY <1>1, <1>2, <1>3, <1>5, CopyTypes
       DEF IInv, TaskInv, CallInv, OnCall, ApprovalKinds, Allow, Deny
  <2>4. Asks(c)
    BY <2>3 DEF TruthInv, Books, AskedInv
  <2>5. Decides(t, s, c, v)
    BY <1>1, <1>5, <2>1, <2>2, <2>3, <2>4 DEF Decides
  <2>6. Uncovered(c, s, v)
    <3>1. /\ Covered(snap[t], "allow") => approvals[c] = "approve_run"
          /\ Covered(snap[t], "deny") => approvals[c] = "reject_run"
      BY <1>2, <1>5, <2>3 DEF TruthInv, Books, AskedInv
    <3>2. /\ <<"allow", calls[c].tool>> \in Grant(t) => v = "approve_run"
          /\ <<"deny", calls[c].tool>> \in Grant(t) => v = "reject_run"
      BY <1>5 DEF Grant, Turn
    <3>3. /\ Covered(s, "allow") => v = "approve_run"
          /\ Covered(s, "deny") => v = "reject_run"
      BY <1>5, <2>1, <3>1, <3>2 DEF Covered
    <3> QED BY <2>3, <3>3 DEF Uncovered
  <2>7. Books' /\ CallsKept
    BY <2>5, <2>6, DecideBooks DEF TruthInv
  <2>8. approvals'[c] = v /\ \A d \in Calls : d # c => approvals'[d] = approvals[d]
    BY <1>5, <2>3 DEF IInv, RowTypeOK
  <2>9. WorldStep
    <3>1. DecisionsKept
      BY <1>5, <2>8 DEF DecisionsKept, ApprovalKinds, Allow, Deny
    <3> QED BY <1>1, <2>7, <3>1 DEF WorldStep, EffectsKept
  <2>10. Change(snap[t], s)
    BY <1>3, <2>1, <1>5 DEF Change, Moved, Lifecycle!Moves
  <2>11. At(t)'
    <3>1. Awaiting(t)' = n /\ n \in {"rejected", "approved"}
      BY <1>5, <2>2 DEF Awaiting
    <3>2. StatusAt(t)' /\ OuterAt(t)'
      BY <2>1, <2>2, <3>1 DEF StatusAt, OuterAt, OnCall, InLoop, Authorized, Writing
    <3>3. DriveAt(t)'
      BY <1>1, <1>2, <2>2, <3>1 DEF At, DriveAt, InLoop, Authorized, Direct, Drives, Writing
    <3>4. CallAt(t)'
      BY <1>1, <1>3, <1>5, <2>1, <2>2, <2>8, <3>1 DEF CallAt, Authorized, ApprovalKinds
    <3>5. CurrentAt(t)'
      BY <1>1, <1>2, <2>2, <2>10, <3>1 DEF CurrentAt, Writing
    <3> QED BY <3>2, <3>3, <3>4, <3>5 DEF At
  <2>12. Others(t)
    BY <1>1, <2>2 DEF PersistOr, Others, IInv, TaskInv, TaskTypeOK
  <2> QED BY <1>1, <1>2, <2>7, <2>9, <2>11, <2>12, TaskStep
<1> QED BY <1>4, <1>5 DEF decide

(* The policy asks: the call is refused by a run-scoped rejection, or a     *)
(* decision is requested.                                                   *)
LEMMA authorizeAskTruth ==
  ASSUME IInv, IInv', TruthInv, NEW t \in Tasks, authorizeAsk(t) PROVE TruthInv'
<1>0. PICK c : c = snap[t].call
  OBVIOUS
<1>1. /\ pc[t] = "authorize" /\ run' = run /\ slot' = slot
      /\ UNCHANGED <<kind, inDrive, current, outer, ledger, calls, effects>>
      /\ Decision(t) = "ask"
  BY DEF authorizeAsk, AuthorizeFrame
<1>2. /\ At(t) /\ Awaiting(t) = pc[t] /\ snap[t] \in Copies /\ snap[t] \in Snapshots
      /\ pc[t] # "idle" /\ t \in current => snap[t] = run
  BY <1>1, HoldingFacts DEF Holding, Points, Writing
<1>3. c # 0 /\ c \in DOMAIN calls /\ c \in Calls /\ calls[c].tool \in Tools
  BY <1>0, <1>1, <1>2, CopyTypes DEF IInv, TaskInv, CallInv, OnCall
<1>4. Asks(c) /\ ~Covered(snap[t], "allow") /\ snap[t].status = "running"
  BY <1>0, <1>1, <1>2, <1>3 DEF Decision, Turn, Asks, Covered, At, StatusAt, OnCall
<1>5. ASSUME NEW x \in Copies, x.call = c, approvals[c] = "none"
      PROVE  x.grants = snap[t].grants
  BY <1>0, <1>2, <1>3, <1>5 DEF TruthInv, Books, SameGrants
<1>6. CASE /\ Covered(snap[t], "deny") /\ UNCHANGED approvals
           /\ Persist(t, Result(t, "denied"), "loop")
  <2>1. ASSUME approvals[c] # "none" PROVE Refused(c)
    <3>1. approvals[c] = "reject_run"
      BY <1>0, <1>2, <1>3, <1>6, <2>1 DEF TruthInv, Books, AskedInv
    <3> QED BY <1>3, <3>1 DEF Refused, Deny
  <2>2. ASSUME approvals[c] = "none" PROVE Refused(c)
    <3>1. effects[c] = <<>>
      <4> SUFFICES ASSUME effects[c] # <<>> PROVE FALSE
        OBVIOUS
      <4>1. Justified(c)
        BY <1>3 DEF TruthInv, Books, RanInv
      <4> QED BY <1>0, <1>2, <1>4, <2>2, <4>1 DEF Justified, Asks, Allow
    <3>2. ASSUME NEW x \in Copies, x.call = c
          PROVE  Covered(x, "deny") /\ ~Covered(x, "allow")
      BY <1>0, <1>4, <1>5, <1>6, <2>2, <3>2 DEF Covered
    <3> QED BY <1>3, <1>4, <2>2, <3>1, <3>2 DEF Refused, Barred
  <2>3. Grounds(c, "denied")
    BY <2>1, <2>2 DEF Grounds
  <2>4. LedgerKept
    BY <1>1 DEF LedgerKept, TruthInv, Books, RanInv
  <2>5. "denied" \in Outcomes \ {"answered"}
    BY DEF Outcomes
  <2> QED BY <1>0, <1>1, <1>6, <2>3, <2>4, <2>5, ReportTruth DEF OnCall
<1>7. ASSUME ~Covered(snap[t], "deny"), NEW s,
             s = [With(t, "waiting_approval") EXCEPT !.approval = TRUE], NEW v,
             v = (IF approvals[c] = "none" THEN "pending" ELSE approvals[c]),
             approvals' = [approvals EXCEPT ![c] = v], Persist(t, s, "release")
      PROVE  TruthInv'
  <2>1. /\ s.call = c /\ s.question = snap[t].question /\ s.status = "waiting_approval"
        /\ s.results = snap[t].results /\ s.grants = snap[t].grants /\ s.approval
    BY <1>0, <1>2, <1>7 DEF Snapshots, With
  <2>2. /\ PersistOr(t, s, "release", "release") /\ snap' = [snap EXCEPT ![t] = s]
        /\ pc'[t] = "renew" /\ snap'[t] = s /\ next'[t] = "release" /\ fail'[t] = "release"
    BY <1>7, PersistWrites DEF Persist, PersistOr
  <2>3. Decides(t, s, c, v)
    BY <1>0, <1>1, <1>3, <1>4, <1>7, <2>1, <2>2 DEF Decides
  <2>4. Uncovered(c, s, v)
    <3>1. ~Covered(s, "allow") /\ ~Covered(s, "deny")
      BY <1>0, <1>4, <1>7, <2>1 DEF Covered
    <3>2. ASSUME approvals[c] = "none", NEW x \in Copies, x.call = c
          PROVE  ~Covered(x, "allow") /\ ~Covered(x, "deny")
      BY <1>0, <1>4, <1>5, <1>7, <3>2 DEF Covered
    <3> QED BY <3>1, <3>2 DEF Uncovered
  <2>5. Books' /\ CallsKept
    BY <2>3, <2>4, DecideBooks DEF TruthInv
  <2>6. WorldStep
    <3>1. \A d \in Calls : d # c => approvals'[d] = approvals[d]
      BY <1>7 DEF IInv, RowTypeOK
    <3>2. approvals'[c] = v
      BY <1>3, <1>7 DEF IInv, RowTypeOK
    <3>3. DecisionsKept
      BY <1>7, <3>1, <3>2 DEF DecisionsKept, ApprovalKinds, Allow, Deny
    <3> QED BY <1>1, <2>5, <3>3 DEF WorldStep, EffectsKept
  <2>7. Change(snap[t], s)
    BY <1>0, <1>4, <2>1 DEF Change, Moved, Lifecycle!Moves
  <2>8. At(t)'
    BY <1>1, <1>2, <2>2, <2>7, WriteReleaseAt
  <2>9. Others(t)
    BY <1>1, <2>2 DEF PersistOr, Others, IInv, TaskInv, TaskTypeOK
  <2> QED BY <1>1, <1>2, <2>5, <2>6, <2>8, <2>9, TaskStep
<1> QED BY <1>0, <1>6, <1>7 DEF authorizeAsk, Turn, Covered

-----------------------------------------------------------------------------
(* The initial state.                                                       *)
LEMMA InitTruth == Init => TruthInv
<1> SUFFICES ASSUME Init PROVE TruthInv
  OBVIOUS
<1>1. /\ run = NoRun /\ snap = [t \in Tasks |-> NoRun] /\ current = {} /\ outer = {}
      /\ approvals = [c \in Calls |-> "none"] /\ effects = [c \in Calls |-> <<>>]
      /\ ledger = [c \in Calls |-> [state |-> "none", action |-> "original"]]
      /\ pc = [t \in Tasks |-> "idle"] /\ kind = [t \in Tasks |-> "none"]
      /\ next = [t \in Tasks |-> "idle"] /\ fail = [t \in Tasks |-> "idle"]
      /\ inDrive = [t \in Tasks |-> FALSE]
  BY DEF Init
<1>2. \A x \in Copies : x = NoRun
  BY <1>1 DEF Copies
<1>3. AskedInv /\ SameGrants /\ RanInv
  BY <1>1, <1>2 DEF AskedInv, SameGrants, RanInv, NoRun
<1>4. CopyInv
  BY <1>2 DEF CopyInv, ResultsOf, WaitOf, NoRun
<1>5. StartInv
  BY <1>1 DEF StartInv
<1>6. ASSUME NEW t \in Tasks PROVE At(t)
  <2>1. /\ pc[t] = "idle" /\ kind[t] = "none" /\ inDrive[t] = FALSE /\ fail[t] = "idle"
        /\ Awaiting(t) = "idle"
    BY <1>1 DEF Awaiting
  <2>2. StatusAt(t) /\ OuterAt(t)
    BY <1>1, <2>1 DEF StatusAt, OuterAt, OnCall
  <2>3. DriveAt(t)
    BY <2>1 DEF DriveAt, InLoop, Authorized
  <2>4. CallAt(t) /\ CurrentAt(t)
    BY <1>1, <2>1 DEF CallAt, CurrentAt, Authorized
  <2> QED BY <2>2, <2>3, <2>4 DEF At
<1> QED BY <1>3, <1>4, <1>5, <1>6 DEF TruthInv, Books

(* What a task does by itself.                                              *)
LEMMA WorkTruth ==
  ASSUME IInv, IInv', TruthInv, NEW t \in Tasks, Work(t) PROVE TruthInv'
BY leaseTruth, renewTruth, saveTruth, saveConflictTruth, closeBudgetTruth, resumeTruth,
   recoverEnvironmentTruth, cancelTruth, answerTruth, approvalTruth, decideTruth,
   rejectedTruth, approvedTruth, preparedTruth, waitLostTruth, loopTruth, reloadTruth,
   withinBudgetTruth, modelCompletedTruth, modelAsksUserTruth, modelCallsWithSecretTruth,
   modelCallsToolTruth, authorizeAskTruth, authorizeDenyTruth, authorizeAllowTruth,
   prerenewTruth, performWithTruth, claimTruth, performTruth, performedTruth,
   performEndsTruth, completeTruth, disposeTruth, cancelDisposeTruth, borrowTruth,
   verifiedTruth, cleanupTruth DEF Work

(* What goes wrong around it.                                               *)
LEMMA FaultTruth ==
  ASSUME IInv, IInv', TruthInv, NEW t \in Tasks, Fault(t) PROVE TruthInv'
<1>1. CASE startFails(t)
  BY <1>1, ResetTruth DEF startFails, Same
<1> QED BY <1>1, prepareFailsTruth, failBudgetTruth, driveFailsTruth, verifyFailsTruth
        DEF Fault

(* TruthInv is kept by every step.                                          *)
LEMMA NextTruth == IInv /\ IInv' /\ TruthInv /\ [Next]_vars => TruthInv'
<1> SUFFICES ASSUME IInv, IInv', TruthInv, [Next]_vars PROVE TruthInv'
  OBVIOUS
<1>1. ASSUME NEW t \in Tasks, Work(t) PROVE TruthInv'
  BY <1>1, WorkTruth
<1>2. ASSUME NEW t \in Tasks, Fault(t) PROVE TruthInv'
  BY <1>2, FaultTruth
<1>3. ASSUME NEW t \in Tasks, Call(t) PROVE TruthInv'
  BY <1>3, callTruth
<1>4. ASSUME NEW t \in Tasks, heartbeat(t) PROVE TruthInv'
  BY <1>4, AroundTruth DEF heartbeat, Same
<1>5. ASSUME NEW w \in Workers, notify(w) \/ notifyLost(w) PROVE TruthInv'
  BY <1>5, AroundTruth DEF notify, notifyLost, Same
<1>6. ASSUME NEW w \in Workers, crash(w) PROVE TruthInv'
  BY <1>6, ResetTruth DEF crash, Same
<1>7. CASE expire
  BY <1>7, AroundTruth DEF expire, Same
<1>8. CASE UNCHANGED vars
  BY <1>8, AroundTruth DEF vars, Same
<1> QED BY <1>1, <1>2, <1>3, <1>4, <1>5, <1>6, <1>7, <1>8 DEF Next

(* TruthInv holds in every reachable state.                                 *)
LEMMA TruthInvariance == Spec => [](IInv /\ TruthInv)
<1>1. Init => IInv /\ TruthInv
  BY InitIInv, InitTruth
<1>2. IInv /\ TruthInv /\ [Next]_vars => (IInv /\ TruthInv)'
  BY NextIInv, NextTruth
<1> QED BY <1>1, <1>2, PTL DEF Spec

-----------------------------------------------------------------------------
(* What follows from the books.                                             *)

(* What ran was allowed by the policy, by the decision about exactly that   *)
(* action, or by a run-scoped grant: PerformedAsApproved.                   *)
LEMMA BooksAllow == IInv /\ TruthInv => PerformedAsApproved
<1> SUFFICES ASSUME IInv, TruthInv, NEW c \in DOMAIN calls, effects[c] # <<>>
             PROVE  CASE calls[c].policy = "allow" -> effects[c][1] = "original"
                      [] calls[c].policy = "deny" -> FALSE
                      [] calls[c].policy = "ask" ->
                           \/ approvals[c] \in Allow /\ effects[c][1] = "original"
                           \/ approvals[c] = "edit_approve" /\ effects[c][1] = "edited"
                           \/ approvals[c] = "none" /\ <<"allow", calls[c].tool>> \in run.grants
  BY DEF PerformedAsApproved
<1>1. c \in Calls /\ calls[c] \in Turns
  BY CopyTypes
<1>2. Justified(c)
  BY <1>1 DEF TruthInv, Books, RanInv
<1>3. calls[c].policy \in Policies
  BY <1>1, <1>2 DEF Turns, Justified
<1>4. calls[c].policy # "deny"
  BY <1>2 DEF Justified, Asks
<1>5. CASE calls[c].policy = "allow"
  BY <1>2, <1>5 DEF Justified, Asks
<1>6. CASE calls[c].policy = "ask"
  BY <1>2, <1>6 DEF Justified, Asks
<1> QED BY <1>3, <1>4, <1>5, <1>6 DEF Policies

(* What the row says about its calls is so: ResultsTruthful.                *)
LEMMA BooksTruthful == IInv /\ TruthInv => ResultsTruthful
<1> SUFFICES ASSUME IInv, TruthInv PROVE ResultsTruthful
  OBVIOUS
<1>1. ResultsOf(run) /\ run \in Snapshots
  BY CopyTypes DEF TruthInv, Books, CopyInv
<1>2. ASSUME NEW i \in DOMAIN run.results
      PROVE  LET c == run.results[i].id
             IN  IF run.results[i].outcome = "executed"
                 THEN Len(effects[c]) = 1 /\ ledger[c].state = "completed"
                 ELSE effects[c] = <<>>
  <2>1. PICK c, o : c = run.results[i].id /\ o = run.results[i].outcome
    OBVIOUS
  <2>2. Grounds(c, o) /\ c \in DOMAIN calls /\ c \in Calls
    BY <1>1, <2>1, CopyTypes DEF ResultsOf
  <2>3. /\ effects[c] \in Seq(Actions) /\ Len(effects[c]) <= 1
        /\ ledger[c].state = "completed" => effects[c] # <<>>
        /\ effects[c] # <<>> => Justified(c)
        /\ approvals[c] # "none" => Asks(c)
    BY <2>2 DEF IInv, WorldTypeOK, TaskInv, EffectInv, TruthInv, Books, RanInv, AskedInv
  <2>4. CASE o = "executed"
    <3>1. effects[c] # <<>> /\ ledger[c].state = "completed"
      BY <2>2, <2>3, <2>4 DEF Grounds
    <3>2. effects[c] \in Seq(Actions) /\ Len(effects[c]) <= 1
      BY <2>3
    <3>3. Len(effects[c]) = 1
      <4>1. PICK n : n = Len(effects[c])
        OBVIOUS
      <4>2. n \in Nat \ {0} /\ n <= 1
        BY <3>1, <3>2, <4>1, EmptySeq
      <4>3. n = 1
        BY ONLY <4>2
      <4> QED BY <4>1, <4>3
    <3> QED BY <2>1, <2>4, <3>1, <3>3
  <2>5. CASE o # "executed"
    <3>1. calls[c].tool \in {"question", "network"} \/ Refused(c)
      BY <2>2, <2>5 DEF Grounds
    <3>2. Refused(c) => ~Justified(c) \/ effects[c] = <<>>
      BY <2>3 DEF Refused, Justified, Barred, Asks, Allow, Deny
    <3>3. calls[c].tool \in {"question", "network"} => ~Justified(c)
      BY DEF Justified
    <3> QED BY <2>1, <2>3, <2>5, <3>1, <3>2, <3>3
  <2> QED BY <2>4, <2>5
<1> QED BY <1>1, <1>2 DEF ResultsTruthful, ResultsOf

(* A waiting row names what it waits for: WaitIsAnswerable.                 *)
LEMMA BooksWait == IInv /\ TruthInv => WaitIsAnswerable
BY CopyTypes DEF TruthInv, Books, CopyInv, WaitOf, WaitIsAnswerable

(* In every reachable state a side effect that happened was allowed: never  *)
(* for a denied call, for an asked call only as the decision said.          *)
THEOREM EffectsAreApproved == Spec => []PerformedAsApproved
BY BooksAllow, TruthInvariance, PTL

(* In every reachable state the results the model reads are true: one per   *)
(* call, "executed" only for a completed effect, and otherwise for a call   *)
(* that never ran.                                                          *)
THEOREM ResultsAreTrue == Spec => []ResultsTruthful
BY BooksTruthful, TruthInvariance, PTL

(* In every reachable state a waiting Run can be released by the answer it  *)
(* waits for.                                                               *)
THEOREM WaitsAreAnswerable == Spec => []WaitIsAnswerable
BY BooksWait, TruthInvariance, PTL

-----------------------------------------------------------------------------
(* The row and the effects change by one thing at a time: a compare-and-    *)
(* swap of a task, or a side effect it starts.                              *)
LEMMA RowOrEffect ==
  ASSUME [Next]_vars
  PROVE  \/ \E t \in Tasks : save(t)
         \/ \E t \in Tasks : perform(t)
         \/ UNCHANGED <<run, effects>>
<1>1. ASSUME NEW t \in Tasks,
             \/ acquireLease(t) \/ leaseHeld(t) \/ releaseLease(t)
             \/ renew(t) \/ saveConflict(t) \/ closeBudget(t)
             \/ resume(t) \/ recoverEnvironment(t) \/ cancel(t) \/ answer(t)
             \/ approval(t) \/ decide(t) \/ rejected(t) \/ approved(t)
      PROVE  UNCHANGED <<run, effects>>
  BY <1>1 DEF acquireLease, leaseHeld, releaseLease, renew, saveConflict, closeBudget,
     resume, recoverEnvironment, cancel, answer, approval, decide, rejected, approved,
     LoadFrame, storeVars, worldVars
<1>2. ASSUME NEW t \in Tasks,
             \/ prepared(t) \/ waitLost(t)
             \/ loop(t) \/ reload(t) \/ withinBudget(t)
             \/ modelCompleted(t) \/ modelAsksUser(t) \/ modelCallsWithSecret(t)
             \/ modelCallsTool(t)
             \/ authorizeAsk(t) \/ authorizeDeny(t) \/ authorizeAllow(t)
      PROVE  UNCHANGED <<run, effects>>
  BY <1>2 DEF prepared, waitLost, loop, reload, withinBudget, modelCompleted,
     modelAsksUser, modelCallsWithSecret, modelCallsTool, authorizeAsk, authorizeDeny,
     authorizeAllow, AuthorizeFrame, storeVars, worldVars
<1>3. ASSUME NEW t \in Tasks,
             \/ prerenew(t) \/ performWith(t) \/ claim(t) \/ performed(t)
             \/ performEnds(t) \/ complete(t) \/ dispose(t) \/ cancelDispose(t)
             \/ borrow(t) \/ verified(t) \/ cleanup(t)
      PROVE  UNCHANGED <<run, effects>>
  BY <1>3 DEF prerenew, performWith, claim, performed, performEnds, complete, dispose,
     cancelDispose, borrow, verified, cleanup, storeVars, worldVars
<1>4. ASSUME NEW t \in Tasks, Fault(t) \/ Call(t) \/ heartbeat(t)
      PROVE  UNCHANGED <<run, effects>>
  BY <1>4 DEF Fault, Call, startFails, prepareFails, failBudget, driveFails, verifyFails,
     start, recoverExpired, command, heartbeat, storeVars, worldVars
<1>5. ASSUME NEW w \in Workers, notify(w) \/ notifyLost(w) \/ crash(w)
      PROVE  UNCHANGED <<run, effects>>
  BY <1>5 DEF notify, notifyLost, crash, storeVars, worldVars
<1>6. expire \/ UNCHANGED vars => UNCHANGED <<run, effects>>
  BY DEF expire, vars, storeVars, worldVars
<1>7. ASSUME NEW t \in Tasks, Work(t)
      PROVE  save(t) \/ perform(t) \/ UNCHANGED <<run, effects>>
  BY <1>1, <1>2, <1>3, <1>7 DEF Work
<1> QED BY <1>4, <1>5, <1>6, <1>7 DEF Next

(* Whatever a step does to the row is one of the changes a task may hold.   *)
LEMMA SaveChanges ==
  ASSUME IInv, TruthInv, NEW t \in Tasks, save(t)
  PROVE  Change(run, run') /\ UNCHANGED effects
BY DEF save, TruthInv, At, CurrentAt, Writing, worldVars

(* A step leaves the row alone or changes it so.                            *)
LEMMA RowChanges ==
  ASSUME IInv, TruthInv, [Next]_vars
  PROVE  run' = run \/ Change(run, run')
BY RowOrEffect, SaveChanges DEF perform, storeVars

(* No step of a stale driver, a recovery or a late approval brings a        *)
(* finished or cancelling Run back: NoRevival.                              *)
THEOREM FinishedStaysFinished == Spec => NoRevival
<1>1. ASSUME IInv, TruthInv, [Next]_vars
      PROVE  run.status \in Terminal \cup {"cancelling"} =>
               run'.status \in {run.status, "cancelling", "cancelled"}
  BY <1>1, RowChanges DEF Change, Moved, Reported, Terminal, Lifecycle!Moves,
     Lifecycle!Live, Lifecycle!Finished
<1> QED BY <1>1, TruthInvariance, PTL DEF Spec, NoRevival

(* A stored pending call is given up by a cancellation or answered, in the  *)
(* same write, by a result of its own: PendingCallConsumedOnce.             *)
THEOREM PendingCallIsAnswered == Spec => PendingCallConsumedOnce
<1>1. ASSUME IInv, TruthInv, [Next]_vars, run.call # 0, run'.call # run.call
      PROVE  /\ run'.call = 0
             /\ \/ run'.status = "cancelled"
                \/ /\ Len(run'.results) = Len(run.results) + 1
                   /\ run'.results[Len(run'.results)].id = run.call
  <2>1. Change(run, run')
    BY <1>1, RowChanges
  <2>2. CASE Moved(run, run')
    BY <1>1, <2>2 DEF Moved
  <2>3. CASE Reported(run, run')
    <3>1. PICK c \in Calls, o \in Outcomes :
             /\ run'.results = Append(run.results, [id |-> c, outcome |-> o])
             /\ \/ run'.call = 0 /\ run.call \in {0, c}
                \/ run'.call = run.call
      BY <2>3 DEF Reported
    <3>2. c = run.call /\ run'.call = 0
      BY <1>1, <3>1
    <3>3. run.results \in Seq([id: Calls, outcome: Outcomes])
      BY <1>1 DEF IInv, RowTypeOK, Snapshots
    <3>4. /\ Len(run'.results) = Len(run.results) + 1
          /\ run'.results[Len(run.results) + 1] = [id |-> c, outcome |-> o]
      BY <3>1, <3>3, AppendProperties
    <3> QED BY <3>2, <3>4
  <2> QED BY <2>1, <2>2, <2>3 DEF Change
<1> QED BY <1>1, TruthInvariance, PTL DEF Spec, PendingCallConsumedOnce

-----------------------------------------------------------------------------
(* The engine as its clients see it.                                        *)
Heard(rs, c) == \E i \in DOMAIN rs : rs[i].id = c
ToldIn(rs) ==
    [c \in Calls |->
       IF Heard(rs, c) THEN rs[CHOOSE i \in DOMAIN rs : rs[i].id = c].outcome ELSE "none"]

Distinct(rs) == \A i, j \in DOMAIN rs : rs[i].id = rs[j].id => i = j

(* Of a call with one result the model was told what that result says.      *)
LEMMA ToldOfOne ==
  ASSUME NEW rs, Distinct(rs), NEW i \in DOMAIN rs, rs[i].id \in Calls
  PROVE  ToldIn(rs)[rs[i].id] = rs[i].outcome
<1>1. PICK j : j = CHOOSE k \in DOMAIN rs : rs[k].id = rs[i].id
  OBVIOUS
<1>2. j \in DOMAIN rs /\ rs[j].id = rs[i].id
  BY <1>1
<1>3. j = i
  BY <1>2 DEF Distinct
<1> QED BY <1>1, <1>3 DEF ToldIn, Heard

(* One more result tells of one more call.                                  *)
LEMMA ToldGrows ==
  ASSUME NEW rs \in Seq([id: Calls, outcome: Outcomes]), NEW c \in Calls, NEW o \in Outcomes,
         Distinct(Append(rs, [id |-> c, outcome |-> o]))
  PROVE  /\ ToldIn(rs)[c] = "none"
         /\ ToldIn(Append(rs, [id |-> c, outcome |-> o])) = [ToldIn(rs) EXCEPT ![c] = o]
<1>1. PICK r, rt : r = [id |-> c, outcome |-> o] /\ rt = Append(rs, r)
  OBVIOUS
<1>2. /\ Len(rs) \in Nat /\ DOMAIN rs = 1..Len(rs) /\ DOMAIN rt = 1..(Len(rs) + 1)
      /\ rt[Len(rs) + 1] = r /\ \A i \in DOMAIN rs : rt[i] = rs[i]
  BY <1>1, AppendProperties, LenProperties
<1>3. Distinct(rt) /\ r.id = c /\ r.outcome = o
  BY <1>1
<1>4. ~Heard(rs, c)
  <2> SUFFICES ASSUME NEW i \in DOMAIN rs, rs[i].id = c PROVE FALSE
    BY DEF Heard
  <2>1. i \in DOMAIN rt /\ Len(rs) + 1 \in DOMAIN rt /\ i # Len(rs) + 1
    BY <1>2
  <2> QED BY <1>2, <1>3, <2>1 DEF Distinct
<1>5. Distinct(rs)
  <2>1. DOMAIN rs \subseteq DOMAIN rt
    BY <1>2
  <2> QED BY <1>2, <1>3, <2>1 DEF Distinct
<1>6. \A i \in DOMAIN rs : rs[i].id \in Calls
  <2>1. \A i \in DOMAIN rs : rs[i] \in [id: Calls, outcome: Outcomes]
    BY EntryType
  <2> QED BY <2>1
<1>7. ASSUME NEW d \in Calls
      PROVE  ToldIn(rt)[d] = IF d = c THEN o ELSE ToldIn(rs)[d]
  <2>1. CASE d = c
    <3>1. Len(rs) + 1 \in DOMAIN rt
      BY <1>2
    <3> QED BY <1>2, <1>3, <2>1, <3>1, ToldOfOne
  <2>2. CASE d # c /\ Heard(rs, d)
    <3>1. PICK i \in DOMAIN rs : rs[i].id = d
      BY <2>2 DEF Heard
    <3>2. i \in DOMAIN rt /\ rt[i] = rs[i]
      BY <1>2
    <3>3. ToldIn(rs)[d] = rs[i].outcome /\ ToldIn(rt)[d] = rs[i].outcome
      BY <1>3, <1>5, <3>1, <3>2, ToldOfOne
    <3> QED BY <2>2, <3>3
  <2>3. CASE d # c /\ ~Heard(rs, d)
    <3>1. ~Heard(rt, d)
      <4> SUFFICES ASSUME NEW i \in DOMAIN rt, rt[i].id = d PROVE FALSE
        BY DEF Heard
      <4>1. i \in DOMAIN rs \/ i = Len(rs) + 1
        BY <1>2
      <4> QED BY <1>2, <1>3, <2>3, <4>1 DEF Heard
    <3> QED BY <2>3, <3>1 DEF ToldIn
  <2> QED BY <2>1, <2>2, <2>3
<1>8. ToldIn(rs)[c] = "none"
  BY <1>4 DEF ToldIn
<1>9. ToldIn(rt) = [ToldIn(rs) EXCEPT ![c] = o]
  <2>1. PICK f, g : f = ToldIn(rs) /\ g = ToldIn(rt)
    OBVIOUS
  <2>2. f = [d \in Calls |-> f[d]] /\ g = [d \in Calls |-> g[d]]
    BY <2>1 DEF ToldIn
  <2>3. \A d \in Calls : g[d] = IF d = c THEN o ELSE f[d]
    BY <1>7, <2>1
  <2>4. g = [f EXCEPT ![c] = o]
    BY ONLY <2>2, <2>3
  <2> QED BY <2>1, <2>4
<1> QED BY <1>1, <1>8, <1>9

(* What clients see of a call is read from the results of the row.          *)
LEMMA ToldInRow ==
  /\ Told = ToldIn(run.results)
  /\ Told' = ToldIn(run'.results)
BY DEF Told, ToldIn, Heard

(* A truthful row has one result per call.                                  *)
LEMMA DistinctResults ==
  /\ ResultsTruthful => Distinct(run.results)
  /\ ResultsTruthful' => Distinct(run'.results)
BY DEF ResultsTruthful, Distinct

(* A save is one move of the status, or one report, or invisible.           *)
LEMMA SaveRefines ==
  ASSUME IInv, IInv', TruthInv, ResultsTruthful', NEW t \in Tasks, save(t)
  PROVE  [Lifecycle!LifecycleNext]_(Lifecycle!lifecycleVars)
<1>1. Change(run, run') /\ effects' = effects /\ ledger' = ledger
  BY SaveChanges DEF save, ledgerVars
<1>2. {c \in Calls : effects[c] # <<>>}' = {c \in Calls : effects[c] # <<>>}
  BY <1>1
<1>3. CASE Moved(run, run')
  <2>1. Told' = Told
    BY <1>3, ToldInRow DEF Moved
  <2>2. run'.status = run.status \/ <<run.status, run'.status>> \in Lifecycle!Moves
    BY <1>3 DEF Moved
  <2> QED BY <1>2, <2>1, <2>2
          DEF Lifecycle!LifecycleNext, Lifecycle!Move, Lifecycle!lifecycleVars
<1>4. CASE Reported(run, run')
  <2>1. PICK c \in Calls, o \in Outcomes :
           /\ run'.results = Append(run.results, [id |-> c, outcome |-> o])
           /\ \/ run.status = "running" /\ run'.status = "running" /\ o # "answered"
              \/ /\ run.status = "waiting_user" /\ run'.status \in {"running", "preparing"}
                 /\ o = "answered"
    BY <1>4 DEF Reported
  <2>2. run.results \in Seq([id: Calls, outcome: Outcomes])
    BY DEF IInv, RowTypeOK, Snapshots
  <2>3. Distinct(Append(run.results, [id |-> c, outcome |-> o]))
    BY <2>1, DistinctResults
  <2>4. Told[c] = "none" /\ Told' = [Told EXCEPT ![c] = o]
    <3>1. /\ ToldIn(run.results)[c] = "none"
          /\ ToldIn(Append(run.results, [id |-> c, outcome |-> o]))
               = [ToldIn(run.results) EXCEPT ![c] = o]
      BY <2>2, <2>3, ToldGrows
    <3>2. ToldIn(run'.results) = [ToldIn(run.results) EXCEPT ![c] = o]
      BY <2>1, <3>1
    <3>3. PICK f, g : f = ToldIn(run.results) /\ g = ToldIn(run'.results)
      OBVIOUS
    <3>4. Told = f /\ Told' = g
      BY <3>3, ToldInRow
    <3> QED BY <3>1, <3>2, <3>3, <3>4
  <2>5. o = "executed" <=> effects[c] # <<>>
    <3>1. PICK i : i = Len(run.results) + 1
      OBVIOUS
    <3>2. i \in DOMAIN run'.results /\ run'.results[i] = [id |-> c, outcome |-> o]
      BY <2>1, <2>2, <3>1, AppendProperties
    <3>3. IF o = "executed" THEN Len(effects[c]) = 1 ELSE effects[c] = <<>>
      BY <1>1, <3>2 DEF ResultsTruthful
    <3>4. Len(<<>>) # 1
      OBVIOUS
    <3>5. Len(effects[c]) = 1 => effects[c] # <<>>
      BY <3>4
    <3> QED BY <3>3, <3>5
  <2>6. Lifecycle!Tell(c, o)
    BY <1>2, <2>1, <2>4, <2>5 DEF Lifecycle!Tell
  <2> QED BY <2>6 DEF Lifecycle!LifecycleNext, Outcomes
<1> QED BY <1>1, <1>3, <1>4 DEF Change

(* A side effect starts while nothing was said about its call.              *)
LEMMA PerformRefines ==
  ASSUME IInv, IInv', TruthInv, ResultsTruthful, ResultsTruthful', NEW t \in Tasks, perform(t)
  PROVE  [Lifecycle!LifecycleNext]_(Lifecycle!lifecycleVars)
<1>1. PICK c : c = snap[t].call
  OBVIOUS
<1>2. /\ pc[t] = "perform" /\ run' = run
      /\ \E a : effects' = [effects EXCEPT ![c] = Append(@, a)]
  BY <1>1 DEF perform, storeVars
<1>3. c \in Calls
  <2>1. c # 0
    BY <1>1, <1>2 DEF IInv, TaskInv, CallInv, Awaiting, OnCall
  <2> QED BY <1>1, <2>1, CopyTypes
<1>4. effects[c] = <<>>
  BY <1>1, <1>2 DEF IInv, TaskInv, EffectInv
<1>5. effects'[c] # <<>> /\ \A d \in Calls \ {c} : effects'[d] = effects[d]
  <2>1. PICK a : effects' = [effects EXCEPT ![c] = Append(@, a)]
    BY <1>2
  <2>2. effects'[c] = Append(<<>>, a)
    BY <1>3, <1>4, <2>1 DEF IInv, WorldTypeOK
  <2>3. \A d \in Calls \ {c} : effects'[d] = effects[d]
    BY <2>1 DEF IInv, WorldTypeOK
  <2>4. Append(<<>>, a) = <<a>> /\ <<a>> # <<>>
    OBVIOUS
  <2> QED BY <2>2, <2>3, <2>4
<1>6. Told[c] = "none"
  <2>1. ~Heard(run.results, c)
    <3> SUFFICES ASSUME NEW i \in DOMAIN run.results, run.results[i].id = c PROVE FALSE
      BY DEF Heard
    <3>1. run.results[i].outcome # "executed"
      BY <1>4, EmptySeq DEF ResultsTruthful
    <3>2. effects'[c] = <<>>
      BY <1>2, <3>1 DEF ResultsTruthful
    <3> QED BY <1>5, <3>2
  <2> QED BY <1>3, <2>1, ToldInRow DEF ToldIn
<1>7. Told' = Told
  BY <1>2, ToldInRow
<1>8. {d \in Calls : effects[d] # <<>>}' = {d \in Calls : effects[d] # <<>>} \cup {c}
  BY <1>3, <1>5
<1>9. Lifecycle!Perform(c)
  BY <1>2, <1>3, <1>4, <1>6, <1>7, <1>8 DEF Lifecycle!Perform
<1> QED BY <1>3, <1>9 DEF Lifecycle!LifecycleNext

(* Before a Run is started, nothing ran and nothing was reported.           *)
LEMMA LifecycleStarts == Init => Lifecycle!LifecycleInit
<1> SUFFICES ASSUME Init PROVE Lifecycle!LifecycleInit
  OBVIOUS
<1>1. run.status = "absent" /\ run.results = <<>>
  BY DEF Init, NoRun
<1>2. \A c \in Calls : effects[c] = <<>>
  BY DEF Init
<1>3. ToldIn(<<>>) = [c \in Calls |-> "none"]
  BY DEF ToldIn, Heard
<1>4. Told = [c \in Calls |-> "none"]
  BY <1>1, <1>3, ToldInRow
<1> QED BY <1>1, <1>2, <1>4 DEF Lifecycle!LifecycleInit

(* A save, a side effect, and a step without either is one of its moves.    *)
LEMMA LifecycleMoves ==
  ASSUME IInv, TruthInv, IInv', TruthInv',
         \/ \E t \in Tasks : save(t)
         \/ \E t \in Tasks : perform(t)
         \/ UNCHANGED <<run, effects>>
  PROVE  [Lifecycle!LifecycleNext]_(Lifecycle!lifecycleVars)
<1>1. ResultsTruthful /\ ResultsTruthful'
  <2>1. ResultsTruthful
    BY BooksTruthful
  <2>2. (IInv /\ TruthInv => ResultsTruthful)'
    BY BooksTruthful, PTL
  <2> QED BY <2>1, <2>2
<1>2. CASE UNCHANGED <<run, effects>>
  <2>1. Told' = Told
    BY <1>2, ToldInRow
  <2> QED BY <1>2, <2>1 DEF Lifecycle!lifecycleVars
<1> QED BY <1>1, <1>2, SaveRefines, PerformRefines

(* The workers, their leases, crashes and retries implement the life cycle  *)
(* a client relies on: every step is one of its moves, one side effect that *)
(* starts before anything was reported, one report that agrees with it, or  *)
(* invisible.                                                               *)
THEOREM EngineImplementsLifecycle == Spec => ImplementsLifecycle
<1>1. ASSUME IInv, TruthInv, IInv', TruthInv', [Next]_vars
      PROVE  [Lifecycle!LifecycleNext]_(Lifecycle!lifecycleVars)
  BY <1>1, RowOrEffect, LifecycleMoves
<1> QED BY <1>1, LifecycleStarts, TruthInvariance, PTL
        DEF Spec, ImplementsLifecycle, Lifecycle!LifecycleSpec

-----------------------------------------------------------------------------
(* The recovery of WorkerRecovery.  Something that leads to a scan, once    *)
(* there, goes only when a scan job is given up, and comes back with the    *)
(* next process; it is there as soon as a process is up or a task runs, so  *)
(* before a Run can be stored.                                              *)
ScanToCome ==
    \/ scanQueued \/ scanOrphans > 0 \/ \E w \in Workers : scanning[w] # "idle"
    \/ givenUp

Begun ==
    \/ run.status # "absent"
    \/ \E w \in Workers : host[w] # "down"
    \/ \E t \in Tasks : pc[t] # "idle"

RecInv ==
    /\ DOMAIN scanning = Workers /\ DOMAIN host = Workers
    /\ scanOrphans \in Nat
    /\ Begun => ScanToCome

\* Every step of a task leaves an await it was suspended at.
LEMMA WorkIsAwaited ==
    ASSUME NEW t \in Tasks, Work(t)
    PROVE  pc[t] # "idle"
<1>1. CASE acquireLease(t) \/ leaseHeld(t) \/ releaseLease(t) \/ renew(t) \/ save(t)
           \/ saveConflict(t) \/ closeBudget(t)
  BY <1>1 DEF acquireLease, leaseHeld, releaseLease, renew, save, saveConflict, closeBudget
<1>2. CASE resume(t) \/ recoverEnvironment(t) \/ cancel(t) \/ answer(t) \/ approval(t)
  BY <1>2 DEF resume, recoverEnvironment, cancel, answer, approval, Load
<1>3. CASE decide(t) \/ rejected(t) \/ approved(t) \/ prepared(t) \/ waitLost(t)
           \/ loop(t) \/ reload(t) \/ withinBudget(t)
  BY <1>3 DEF decide, rejected, approved, prepared, waitLost, loop, reload, withinBudget
<1>4. CASE modelCompleted(t) \/ modelAsksUser(t) \/ modelCallsWithSecret(t)
           \/ modelCallsTool(t) \/ authorizeAsk(t) \/ authorizeDeny(t) \/ authorizeAllow(t)
  BY <1>4 DEF modelCompleted, modelAsksUser, modelCallsWithSecret, modelCallsTool,
              authorizeAsk, authorizeDeny, authorizeAllow
<1>5. CASE prerenew(t) \/ performWith(t) \/ claim(t) \/ perform(t) \/ performed(t)
           \/ performEnds(t)
  BY <1>5 DEF prerenew, performWith, claim, perform, performed, performEnds
<1>6. CASE complete(t) \/ dispose(t) \/ cancelDispose(t) \/ borrow(t) \/ verified(t)
           \/ cleanup(t)
  BY <1>6 DEF complete, dispose, cancelDispose, borrow, verified, cleanup
<1> QED BY <1>1, <1>2, <1>3, <1>4, <1>5, <1>6 DEF Work

\* A step that begins nothing new keeps the invariant when it keeps what leads to
\* a scan.
LEMMA ScanKept ==
    ASSUME RecInv, ScanToCome, UNCHANGED scanVars,
           DOMAIN host' = Workers
    PROVE  RecInv'
BY DEF RecInv, ScanToCome, scanVars

\* A scan that comes to nothing is retried or given up.
LEMMA retryStep ==
    ASSUME RecInv, NEW w \in Workers, retry(w)
    PROVE  ScanToCome' /\ scanOrphans' \in Nat /\ DOMAIN scanning' = Workers
<1>1. scanOrphans \in Nat /\ DOMAIN scanning = Workers
  BY DEF RecInv
<1>2. DOMAIN scanning' = Workers
  BY <1>1 DEF retry
<1>3. CASE scanOrphans' = scanOrphans + 1
  BY <1>1, <1>2, <1>3 DEF ScanToCome
<1>4. CASE givenUp' = TRUE /\ UNCHANGED scanOrphans
  BY <1>1, <1>2, <1>4 DEF ScanToCome
<1> QED BY <1>3, <1>4 DEF retry

\* The death of a process leaves its scan to be retried.
LEMMA endsStep ==
    ASSUME RecInv, NEW w \in Workers, ends(w), host[w] # "down"
    PROVE  RecInv'
<1>1. ScanToCome
  BY DEF RecInv, Begun
<1>2. DOMAIN host' = Workers
  BY DEF ends, RecInv
<1>3. CASE scanning[w] # "idle"
  BY <1>2, <1>3, retryStep DEF ends, RecInv
<1>4. CASE scanning[w] = "idle"
  BY <1>1, <1>2, <1>4 DEF ends, RecInv, ScanToCome
<1> QED BY <1>3, <1>4

\* The steps of the scan hand it on: the job becomes the handler, the handler that
\* fails a retry or one that was given up, the handler that completes the next job.
LEMMA scanStep ==
    ASSUME RecInv, NEW w \in Workers, scan(w) \/ sendRun(w) \/ scanFails(w) \/ chain(w)
    PROVE  RecInv'
<1>1. DOMAIN scanning = Workers /\ scanOrphans \in Nat
  BY DEF RecInv
<1>2. UNCHANGED host
  BY DEF scan, sendRun, scanFails, chain
<1>3. CASE scan(w)
  <2>1. scanning' = [scanning EXCEPT ![w] = IF recoverable THEN "found" ELSE "sent"]
    BY <1>3 DEF scan
  <2>2. scanning'[w] # "idle" /\ DOMAIN scanning' = Workers
    BY <1>1, <2>1
  <2>3. scanOrphans' \in Nat
    BY <1>1, <1>3 DEF scan
  <2> QED BY <1>2, <2>2, <2>3 DEF RecInv, ScanToCome
<1>4. CASE sendRun(w)
  <2>1. scanning' = [scanning EXCEPT ![w] = "sent"] /\ UNCHANGED scanOrphans
    BY <1>4 DEF sendRun
  <2>2. scanning'[w] # "idle" /\ DOMAIN scanning' = Workers
    BY <1>1, <2>1
  <2> QED BY <1>1, <1>2, <2>1, <2>2 DEF RecInv, ScanToCome
<1>5. CASE scanFails(w)
  BY <1>2, <1>5, retryStep DEF scanFails, RecInv
<1>6. CASE chain(w)
  <2>1. DOMAIN scanning' = Workers /\ scanOrphans' = scanOrphans /\ scanQueued' = TRUE
    BY <1>1, <1>6 DEF chain
  <2> QED BY <1>1, <1>2, <2>1 DEF RecInv, ScanToCome
<1> QED BY <1>3, <1>4, <1>5, <1>6

\* The processes and the tasks in them.
LEMMA hostStep ==
    ASSUME RecInv, NEW w \in Workers,
           boot(w) \/ stop(w) \/ stopped(w) \/ die(w) \/ jobEnds(w)
    PROVE  RecInv'
<1>1. CASE boot(w)
  BY <1>1 DEF boot, RecInv, ScanToCome
<1>2. CASE stop(w)
  <2>1. ScanToCome
    BY <1>2 DEF stop, open, RecInv, Begun
  <2>2. UNCHANGED scanVars /\ DOMAIN host' = Workers
    BY <1>2 DEF stop, queueVars, scanVars, RecInv
  <2> QED BY <2>1, <2>2, ScanKept
<1>3. CASE stopped(w)
  BY <1>3, endsStep DEF stopped
<1>4. CASE die(w)
  BY <1>4, endsStep DEF die
<1>5. CASE jobEnds(w)
  <2>1. UNCHANGED <<run, pc, host, scanVars>>
    BY <1>5 DEF jobEnds, engineVars, storeVars, taskVars, queueVars
  <2> QED BY <2>1 DEF RecInv, Begun, ScanToCome, scanVars
<1> QED BY <1>1, <1>2, <1>3, <1>4, <1>5

LEMMA taskStep ==
    ASSUME RecInv, NEW t \in Tasks, serve(t) \/ work(t) \/ beat(t) \/ takeJob(t)
    PROVE  RecInv'
<1>1. W(t) \in Workers
  BY LeaseFenceAssumption DEF W
<1>2. ScanToCome
  <2>1. CASE serve(t) \/ takeJob(t)
    BY <1>1, <2>1 DEF serve, takeJob, open, RecInv, Begun
  <2>2. CASE work(t)
    BY <2>2, WorkIsAwaited DEF work, RecInv, Begun
  <2>3. CASE beat(t)
    BY <2>3 DEF beat, heartbeat, Waits, RecInv, Begun
  <2> QED BY <2>1, <2>2, <2>3
<1>3. UNCHANGED <<scanVars, host>>
  BY DEF serve, work, beat, takeJob, recoveryVars, queueVars
<1>4. DOMAIN host' = Workers
  BY <1>3 DEF RecInv
<1> QED BY <1>2, <1>3, <1>4, ScanKept

\* The clock, and steps that are not of the recovery.
LEMMA timeStep ==
    ASSUME RecInv, slotPasses \/ jobExpires \/ timePasses \/ UNCHANGED allVars
    PROVE  RecInv'
<1>1. UNCHANGED <<run, pc, host, scanVars>>
  BY DEF slotPasses, jobExpires, timePasses, expire, engineVars, storeVars, taskVars,
         recoveryVars, queueVars, allVars, vars
<1> QED BY <1>1 DEF RecInv, Begun, ScanToCome, scanVars

\* While no process was ever up there is nothing to scan for.
LEMMA RecoveryStarts == RecoveryInit => RecInv
BY DEF RecoveryInit, Init, NoRun, RecInv, Begun

\* Every step of the recovery keeps what leads to a scan.
LEMMA RecStep == RecInv /\ [RecoveryNext]_allVars => RecInv'
BY scanStep, hostStep, taskStep, timeStep DEF RecoveryNext

(* Once a Run exists there is always a scan to come: no death, shutdown,    *)
(* failed scan or overlapping chain of scans leaves the Workers without a   *)
(* created, a retried or a running one, until a scan job is given up after  *)
(* its last retry.                                                          *)
THEOREM ScansSurvive == RecoverySpec => []ScanGoesOn
<1>1. RecInv => ScanGoesOn
  BY DEF RecInv, Begun, ScanToCome, ScanGoesOn
<1> QED BY <1>1, RecoveryStarts, RecStep, PTL DEF RecoverySpec

-----------------------------------------------------------------------------
(* The engine in the processes of WorkerRecovery.  What its steps add to    *)
(* Next: a process that is stopped or dies while nothing runs in it, a job  *)
(* that resumes the Run, and a stop or a failed scan that is counted.       *)
Ended(w) == ends(w) /\ crashes' \in {crashes, crashes + 1}

Counted ==
    /\ UNCHANGED <<leaseVars, storeVars, ledgerVars, worldVars, handleVars, taskVars,
                   expiries, failures>>
    /\ crashes' = crashes + 1

Beside == (\E w \in Workers : Ended(w)) \/ (\E t \in Tasks : takeJob(t)) \/ Counted

\* Every step of the recovery is a step of the engine or one of these.
LEMMA EngineOrBeside ==
    ASSUME [RecoveryNext]_allVars
    PROVE  [Next]_vars \/ Beside
<1>1. ASSUME NEW t \in Tasks, serve(t) \/ work(t) \/ beat(t) PROVE Next
  BY <1>1 DEF serve, work, beat, Next, Call
<1>2. ASSUME NEW w \in Workers,
             boot(w) \/ scan(w) \/ sendRun(w) \/ chain(w) \/ jobEnds(w)
      PROVE  UNCHANGED vars
  BY <1>2 DEF boot, scan, sendRun, chain, jobEnds, engineVars, vars
<1>3. ASSUME NEW w \in Workers, stop(w) \/ scanFails(w) PROVE Counted
  BY <1>3 DEF stop, scanFails, Counted
<1>4. ASSUME NEW w \in Workers, stopped(w) \/ die(w) PROVE Ended(w)
  BY <1>4 DEF stopped, die, Ended
<1>5. CASE slotPasses \/ jobExpires \/ UNCHANGED allVars
  BY <1>5 DEF slotPasses, jobExpires, engineVars, vars, allVars
<1>6. CASE timePasses
  BY <1>6 DEF timePasses, Next
<1> QED BY <1>1, <1>2, <1>3, <1>4, <1>5, <1>6 DEF RecoveryNext, Beside

\* The invariants of the engine survive them.
LEMMA BesideIInv == IInv /\ Beside => IInv'
<1> SUFFICES ASSUME IInv, Beside PROVE IInv'
  OBVIOUS
<1>1. ASSUME NEW w \in Workers, Ended(w) PROVE IInv'
  <2>1. PICK ts : ts = {t \in Tasks : W(t) = w}
    OBVIOUS
  <2>2. /\ Drop(ts) /\ Reset(ts)
        /\ registry' = [registry EXCEPT ![w] = 0]
        /\ notices' = notices \ {w}
        /\ UNCHANGED <<run, ledgerVars, worldVars, aborted, expiries, failures>>
        /\ crashes' \in {crashes, crashes + 1}
    BY <1>1, <2>1 DEF Ended, ends
  <2>3. FenceTypeOK'
    BY <2>2, LeaseFenceAssumption DEF IInv, FenceTypeOK, Drop, Forget
  <2>4. RowTypeOK'
    BY <2>2, ResetRows DEF IInv
  <2>5. WorldTypeOK'
    <3>1. 0 \in 0..MaxEntries
      BY RunEngineAssumption
    <3> QED BY <2>2, <3>1 DEF IInv, WorldTypeOK
  <2>6. TaskInv'
    BY <2>2, ResetInv DEF IInv, Frozen
  <2> QED BY <2>3, <2>4, <2>5, <2>6 DEF IInv
<1>2. ASSUME NEW t \in Tasks, takeJob(t) PROVE IInv'
  <2>1. FenceTypeOK' /\ RowTypeOK' /\ WorldTypeOK'
    BY <1>2, FenceStays, RowStays, WorldStays DEF IInv, takeJob
  <2>2. TaskInv'
    BY <1>2, BeginInv DEF IInv, takeJob, Frozen, Kinds
  <2> QED BY <2>1, <2>2 DEF IInv
<1>3. CASE Counted
  <2>1. FenceTypeOK' /\ RowTypeOK' /\ TaskInv'
    BY <1>3, FenceStays, RowStays, TaskStays DEF IInv, Counted
  <2>2. WorldTypeOK'
    BY <1>3 DEF IInv, WorldTypeOK, Counted
  <2> QED BY <2>1, <2>2 DEF IInv
<1> QED BY <1>1, <1>2, <1>3 DEF Beside

\* A job is sent only for a Run that exists.
Found ==
    \/ jobQueued \/ jobOrphaned
    \/ \E w \in Workers : scanning[w] = "found" \/ resuming[w] # NoTask

JobInv == Found => run.status # "absent"

QueueTypesOK ==
    /\ host \in [Workers -> {"down", "up", "draining"}]
    /\ scanning \in [Workers -> {"idle", "found", "sent"}]
    /\ {scanQueued, jobQueued, jobOrphaned, slotUsed, givenUp} \subseteq BOOLEAN
    /\ resuming \in [Workers -> Tasks \cup {NoTask}]

\* The books and the places of the tasks survive them, as a job is one of a Run
\* that exists.
LEMMA BesideTruth == IInv /\ IInv' /\ TruthInv /\ JobInv /\ Beside => TruthInv'
<1> SUFFICES ASSUME IInv, IInv', TruthInv, JobInv, Beside PROVE TruthInv'
  OBVIOUS
<1>1. ASSUME NEW w \in Workers, Ended(w) PROVE TruthInv'
  BY <1>1, ResetTruth DEF Ended, ends, Same
<1>2. ASSUME NEW t \in Tasks, takeJob(t) PROVE TruthInv'
  <2>1. run.status # "absent"
    BY <1>2 DEF takeJob, JobInv, Found
  <2> QED BY <1>2, <2>1, BeginTruth DEF takeJob, Same
<1>3. CASE Counted
  BY <1>3, AroundTruth DEF Counted, Same
<1> QED BY <1>1, <1>2, <1>3 DEF Beside

\* None of them touches the row or runs a call.
LEMMA BesideRow == Beside => UNCHANGED <<run, effects>>
BY DEF Beside, Ended, ends, takeJob, Counted, storeVars, worldVars

\* The end of a process forgets its tokens; nothing else of them moves the lease.
LEMMA BesideFence == Beside => [FenceNext]_fenceVars
<1> USE DEF fenceVars
<1>1. ASSUME NEW w \in Workers, Ended(w) PROVE FenceNext
  <2>1. PICK ts \in SUBSET Tasks : Drop(ts)
    BY <1>1 DEF Ended, ends
  <2> QED BY <2>1 DEF FenceNext
<1>2. (\E t \in Tasks : takeJob(t)) \/ Counted => UNCHANGED fenceVars
  BY DEF takeJob, Counted
<1> QED BY <1>1, <1>2 DEF Beside

\* The processes, the queues and their handlers keep their types.
LEMMA QueueTypes ==
    ASSUME QueueTypesOK, [RecoveryNext]_allVars
    PROVE  QueueTypesOK'
<1> USE DEF QueueTypesOK
<1>1. ASSUME NEW t \in Tasks, serve(t) \/ work(t) \/ beat(t) \/ takeJob(t)
      PROVE  QueueTypesOK'
  BY <1>1, LeaseFenceAssumption
     DEF serve, work, beat, takeJob, recoveryVars, queueVars, scanVars, jobVars, W
<1>2. ASSUME NEW w \in Workers, boot(w) \/ stop(w) \/ jobEnds(w) PROVE QueueTypesOK'
  BY <1>2 DEF boot, stop, jobEnds, queueVars, scanVars, jobVars
<1>3. ASSUME NEW w \in Workers, stopped(w) \/ die(w) PROVE QueueTypesOK'
  BY <1>3 DEF stopped, die, ends, retry
<1>4. ASSUME NEW w \in Workers, scan(w) \/ sendRun(w) \/ scanFails(w) \/ chain(w)
      PROVE  QueueTypesOK'
  BY <1>4 DEF scan, sendRun, scanFails, chain, retry, scanVars, jobVars
<1>5. CASE slotPasses \/ jobExpires \/ timePasses \/ UNCHANGED allVars
  BY <1>5 DEF slotPasses, jobExpires, timePasses, recoveryVars, queueVars, scanVars, jobVars, allVars
<1> QED BY <1>1, <1>2, <1>3, <1>4, <1>5 DEF RecoveryNext

\* A job comes from a scan that found the Run, and goes from hand to hand.
LEMMA FoundOnce ==
    ASSUME QueueTypesOK, [RecoveryNext]_allVars, Found'
    PROVE  Found \/ run.status # "absent"
<1> USE DEF QueueTypesOK, Found
<1>1. ASSUME NEW t \in Tasks, serve(t) \/ work(t) \/ beat(t) \/ takeJob(t)
      PROVE  Found
  BY <1>1, LeaseFenceAssumption
     DEF serve, work, beat, takeJob, recoveryVars, queueVars, scanVars, jobVars, W
<1>2. ASSUME NEW w \in Workers, boot(w) \/ stop(w) \/ jobEnds(w) PROVE Found
  BY <1>2 DEF boot, stop, jobEnds, queueVars, scanVars, jobVars
<1>3. ASSUME NEW w \in Workers, stopped(w) \/ die(w) PROVE Found
  BY <1>3 DEF stopped, die, ends, retry
<1>4. ASSUME NEW w \in Workers, scan(w) \/ sendRun(w) \/ scanFails(w) \/ chain(w)
      PROVE  Found \/ run.status # "absent"
  BY <1>4 DEF scan, sendRun, scanFails, chain, retry, scanVars, jobVars, recoverable
<1>5. CASE slotPasses \/ jobExpires \/ timePasses \/ UNCHANGED allVars
  BY <1>5 DEF slotPasses, jobExpires, timePasses, recoveryVars, queueVars, scanVars, jobVars, allVars
<1> QED BY <1>1, <1>2, <1>3, <1>4, <1>5 DEF RecoveryNext

\* What holds of the engine and its processes together.
WholeInv == IInv /\ TruthInv /\ HolderOwns /\ RecInv /\ QueueTypesOK /\ JobInv

\* The row of a Run is never taken away.
LEMMA RowStaysThere ==
    ASSUME IInv, TruthInv, [Next]_vars \/ Beside, run.status # "absent"
    PROVE  run'.status # "absent"
BY RowChanges, BesideRow DEF Change, Moved, Reported, Lifecycle!Moves, Lifecycle!Live,
   Lifecycle!Finished

\* A step of the recovery keeps all of it, is one of LeaseFence, and changes the
\* row by one save or the effects by one perform.
LEMMA WholeStep ==
    ASSUME WholeInv, [RecoveryNext]_allVars
    PROVE  /\ WholeInv'
           /\ [FenceNext]_fenceVars
           /\ \/ \E t \in Tasks : save(t)
              \/ \E t \in Tasks : perform(t)
              \/ UNCHANGED <<run, effects>>
<1> USE DEF WholeInv
<1>1. [Next]_vars \/ Beside
  BY EngineOrBeside
<1>2. IInv'
  BY <1>1, NextIInv, BesideIInv
<1>3. TruthInv'
  BY <1>1, <1>2, NextTruth, BesideTruth
<1>4. FenceTypeOK
  BY DEF IInv
<1>5. [FenceNext]_fenceVars
  BY <1>1, <1>4, EngineFenceStep, BesideFence
<1>6. HolderOwns'
  BY <1>4, <1>5, FenceHolderOwns
<1>7. QueueTypesOK' /\ RecInv'
  BY QueueTypes, RecStep
<1>8. JobInv'
  BY <1>1, FoundOnce, RowStaysThere DEF JobInv
<1>9. \/ \E t \in Tasks : save(t)
      \/ \E t \in Tasks : perform(t)
      \/ UNCHANGED <<run, effects>>
  BY <1>1, RowOrEffect, BesideRow
<1> QED BY <1>2, <1>3, <1>5, <1>6, <1>7, <1>8, <1>9

\* So it holds throughout every behaviour of the recovery.
LEMMA WholeInvariance == RecoverySpec => []WholeInv
<1>1. RecoveryInit => WholeInv
  <2> SUFFICES ASSUME RecoveryInit PROVE WholeInv
    OBVIOUS
  <2>1. IInv /\ TruthInv
    BY InitIInv, InitTruth DEF RecoveryInit
  <2>2. HolderOwns
    BY DEF RecoveryInit, Init, FenceInit, HolderOwns
  <2>3. RecInv /\ QueueTypesOK /\ JobInv
    BY RecoveryStarts DEF RecoveryInit, QueueTypesOK, JobInv, Found
  <2> QED BY <2>1, <2>2, <2>3 DEF WholeInv
<1>2. WholeInv /\ [RecoveryNext]_allVars => WholeInv'
  BY WholeStep
<1> QED BY <1>1, <1>2, PTL DEF RecoverySpec

(* The processes, the queues and the engine keep their types.               *)
THEOREM RecoveryTypeCorrect == RecoverySpec => []RecoveryTypeOK
<1>1. WholeInv => RecoveryTypeOK
  BY DEF WholeInv, IInv, TaskInv, TypeOK, QueueTypesOK, RecInv, RecoveryTypeOK
<1> QED BY <1>1, WholeInvariance, PTL

(* Nothing the engine promises of a Run depends on how its processes start, *)
(* drain, die and come back, nor on which of them the scan hands the Run to.*)
THEOREM SafeThroughRestarts ==
    RecoverySpec => [](AtMostOnce /\ PerformedAsApproved /\ ResultsTruthful /\ WaitIsAnswerable)
<1>1. WholeInv => AtMostOnce
  BY DEF WholeInv, IInv, TaskInv, EffectInv, AtMostOnce
<1>2. WholeInv => PerformedAsApproved /\ ResultsTruthful /\ WaitIsAnswerable
  BY BooksAllow, BooksTruthful, BooksWait DEF WholeInv
<1> QED BY <1>1, <1>2, WholeInvariance, PTL

(* The Workers with their recovery use the lease as LeaseFence allows, and  *)
(* implement the life cycle a client relies on.                             *)
THEOREM RecoveryImplements == RecoverySpec => LeaseContract /\ ImplementsLifecycle
<1>1. RecoveryInit => FenceInit /\ Lifecycle!LifecycleInit
  BY LifecycleStarts DEF RecoveryInit, Init
<1>2. ASSUME WholeInv, WholeInv', [RecoveryNext]_allVars
      PROVE  /\ [FenceNext]_fenceVars
             /\ [Lifecycle!LifecycleNext]_(Lifecycle!lifecycleVars)
  BY <1>2, WholeStep, LifecycleMoves DEF WholeInv
<1> QED BY <1>1, <1>2, WholeInvariance, PTL
        DEF RecoverySpec, LeaseContract, FenceSpec, ImplementsLifecycle, Lifecycle!LifecycleSpec

=============================================================================
