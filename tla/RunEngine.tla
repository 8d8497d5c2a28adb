------------------------------ MODULE RunEngine ------------------------------
(***************************************************************************)
(* DefaultRunEngine (packages/run-engine/src/index.ts) driving one Run.    *)
(*                                                                         *)
(* A task is one asynchronous call of start/resume, recoverEnvironment or  *)
(* command in some Worker process; pc[t] is the await it is suspended at,  *)
(* so one action is the code between two awaits.  Tasks of one process     *)
(* interleave (JavaScript promises), processes interleave and crash.       *)
(*                                                                         *)
(* The Run row's version column is abstracted to the set "current" of the  *)
(* tasks whose snapshot carries the row's version: a save succeeds exactly *)
(* for them and leaves only the writer current.  The lease row is          *)
(* LeaseFence, which RunLease implements with generations.  Steering, the  *)
(* amounts of the budget and the text of requests and results are left     *)
(* out.                                                                    *)
(***************************************************************************)
EXTENDS LeaseFence, Naturals, Sequences

CONSTANTS MaxCalls,      \* bound: turns the provider numbers (calls, questions)
          MaxEntries,    \* bound: environment handles referenced at one time
          MaxCrashes,    \* bound: process crashes
          MaxExpiries,   \* bound: leases that lapse under a living holder
          MaxFailures,   \* bound: errors of model, environment, verifier, bus
          Commands,      \* the command kinds users send
          ToolCalls      \* the tool calls the model makes

ASSUME RunEngineAssumption ==
    /\ {MaxCalls, MaxEntries, MaxCrashes, MaxExpiries, MaxFailures} \subseteq Nat
    /\ Commands \subseteq {"recover", "cancel", "answer", "approve_once",
          "approve_run", "reject_once", "reject_run", "edit_approve"}
    /\ ToolCalls \subseteq [tool: {"exec", "network"},
                            policy: {"allow", "ask", "deny"}]

VARIABLES run,        \* the persisted StoredRun (run_engine_runs)
          current,    \* tasks whose working snapshot has the row's version
          outer,      \* tasks whose caller's snapshot has the row's version
          ledger,     \* run_engine_tool_calls
          approvals,  \* run_engine_approvals
          slot,       \* the admission row of the budget manager
          calls,      \* turns the provider has numbered
          effects,    \* actions the environment was told to perform, per call
          registry,   \* RunHandleRegistry of each process; 0 = no handle
          aborted,    \* entries whose AbortController fired
          notices,    \* processes a cancel NOTIFY is on its way to
          pc,         \* the await a task is suspended at
          kind,       \* the call it executes
          snap,       \* its working copy of the StoredRun
          next, fail, \* where the write in progress continues, or gives up
          inDrive,    \* drive() has replaced its parameter by a fresh read
          entry,      \* the registry entry it borrowed
          lost,       \* withHeartbeat saw a renewal fail
          crashes, expiries, failures

leaseVars == <<owner, holder, live>>
storeVars == <<run, current, outer>>
ledgerVars == <<ledger, approvals, slot>>
worldVars == <<calls, effects>>
handleVars == <<registry, aborted, notices>>
taskVars == <<pc, kind, snap, next, fail, inDrive, entry, lost>>
countVars == <<crashes, expiries, failures>>
vars == <<leaseVars, storeVars, ledgerVars, worldVars, handleVars, taskVars,
          countVars>>

-----------------------------------------------------------------------------
Calls == 1..MaxCalls
Entries == 1..MaxEntries

Terminal == {"succeeded", "failed", "cancelled"}
Waiting == {"waiting_approval", "waiting_user"}
(* isDriverStartable *)
Startable == {"queued", "preparing", "running", "environment_offline"} \cup Waiting
Statuses == Startable \cup Terminal \cup {"verifying", "cancelling"}

Allow == {"approve_once", "approve_run"}
Deny == {"reject_once", "reject_run"}
ApprovalKinds == Allow \cup Deny \cup {"edit_approve"}
Kinds == {"none", "start", "resume", "recover", "cancel", "answer", "approved"}
           \cup ApprovalKinds

Tools == {"exec", "network"}
Actions == {"original", "edited"}
(* One capability per tool: every call of a tool carries the same hash.     *)
Grants == {"allow", "deny"} \X Tools
Outcomes == {"executed", "denied", "authorized", "answered"}

Policies == {"allow", "ask", "deny"}
Turns == [tool: Tools, policy: Policies] \cup [tool: {"question"}]

Snapshots == [status: Statuses \cup {"absent"},
              call: 0..MaxCalls,        \* pendingToolCall
              approval: BOOLEAN,        \* pendingApproval, id approval-<call>
              question: 0..MaxCalls,    \* pendingUserRequest
              started: SUBSET Calls,    \* startedToolCallIds
              results: Seq([id: Calls, outcome: Outcomes]),
              grants: SUBSET Grants]    \* run-scoped capability hashes

NoRun == [status |-> "absent", call |-> 0, approval |-> FALSE, question |-> 0,
          started |-> {}, results |-> <<>>, grants |-> {}]

Waits == {"prepare", "performing", "verify", "cleanup"}  \* under withHeartbeat
Points == Waits \cup
    {"idle", "acquire", "load", "renew", "save", "close", "release",
     "loop", "reload", "budget", "model", "authorize", "prerenew", "claim", "perform",
     "perform_with", "complete", "borrow", "decide", "rejected", "approved", "dispose",
     "canceldispose"}

(* Where a write that succeeded, or was given up, goes on.                  *)
Continuations == {"idle", "acquire", "prepare", "loop", "authorize", "claim",
                  "borrow", "rejected", "approved", "dispose", "canceldispose",
                  "release"}
Retreats == {"idle", "dispose", "release"}

RowTypeOK ==
    /\ run \in Snapshots
    /\ current \subseteq Tasks
    /\ outer \subseteq Tasks
    /\ ledger \in [Calls -> [state: {"none", "executing", "completed"},
                             action: Actions]]
    /\ approvals \in [Calls -> {"none", "pending"} \cup ApprovalKinds]
    /\ slot \in {"none", "open", "closed"}

WorldTypeOK ==
    /\ calls \in Seq(Turns)
    /\ Len(calls) <= MaxCalls
    /\ effects \in [Calls -> Seq(Actions)]
    /\ registry \in [Workers -> 0..MaxEntries]
    /\ aborted \subseteq Entries
    /\ notices \subseteq Workers
    /\ {crashes, expiries, failures} \subseteq Nat

TaskTypeOK ==
    /\ pc \in [Tasks -> Points]
    /\ kind \in [Tasks -> Kinds]
    /\ snap \in [Tasks -> Snapshots]
    /\ next \in [Tasks -> Continuations]
    /\ fail \in [Tasks -> Retreats]
    /\ inDrive \in [Tasks -> BOOLEAN]
    /\ entry \in [Tasks -> 0..MaxEntries]
    /\ lost \in [Tasks -> BOOLEAN]

TypeOK == FenceTypeOK /\ RowTypeOK /\ WorldTypeOK /\ TaskTypeOK

Init ==
    /\ FenceInit
    /\ run = NoRun
    /\ current = {} /\ outer = {}
    /\ ledger = [c \in Calls |-> [state |-> "none", action |-> "original"]]
    /\ approvals = [c \in Calls |-> "none"]
    /\ slot = "none"
    /\ calls = <<>>
    /\ effects = [c \in Calls |-> <<>>]
    /\ registry = [w \in Workers |-> 0]
    /\ aborted = {} /\ notices = {}
    /\ pc = [t \in Tasks |-> "idle"]
    /\ kind = [t \in Tasks |-> "none"]
    /\ snap = [t \in Tasks |-> NoRun]
    /\ next = [t \in Tasks |-> "idle"]
    /\ fail = [t \in Tasks |-> "idle"]
    /\ inDrive = [t \in Tasks |-> FALSE]
    /\ entry = [t \in Tasks |-> 0]
    /\ lost = [t \in Tasks |-> FALSE]
    /\ crashes = 0 /\ expiries = 0 /\ failures = 0

-----------------------------------------------------------------------------
(* Control: where a task goes next.  taskVars are framed by these.          *)
W(t) == WorkerOf[t]
Handle(t) == registry[W(t)]
Direct(t) == kind[t] \in ApprovalKinds   \* performWith called by the command
ActionOfOriginal(t) == "original"        \* slip: the edit is forgotten
ActionOf(t) == IF kind[t] = "edit_approve" THEN "edited" ELSE "original"
MayFail == failures < MaxFailures /\ failures' = failures + 1

Goto(t, p) ==
    /\ pc' = [pc EXCEPT ![t] = p]
    /\ UNCHANGED <<kind, snap, next, fail, inDrive, entry, lost>>

(* transition / persistEvents: renew the lease, then compare-and-swap the   *)
(* snapshot s; continue at n, or at f after LeaseLostError or               *)
(* RunConflictError.                                                        *)
PersistOr(t, s, n, f) ==
    /\ pc' = [pc EXCEPT ![t] = "renew"]
    /\ snap' = [snap EXCEPT ![t] = s]
    /\ next' = [next EXCEPT ![t] = n]
    /\ fail' = [fail EXCEPT ![t] = f]

Persist(t, s, n) == PersistOr(t, s, n, "release")

With(t, status) == [snap[t] EXCEPT !.status = status]

Result(t, outcome) ==   \* push the result and consume the pending call
    [snap[t] EXCEPT !.results = Append(@, [id |-> snap[t].call, outcome |-> outcome]),
                    !.call = 0]

Executed(t) == [Result(t, "executed") EXCEPT !.started = @ \ {snap[t].call}]

(* The call is over: its promise settles and its token is dropped.          *)
Reset(ts) ==
    /\ pc' = [t \in Tasks |-> IF t \in ts THEN "idle" ELSE pc[t]]
    /\ kind' = [t \in Tasks |-> IF t \in ts THEN "none" ELSE kind[t]]
    /\ snap' = [t \in Tasks |-> IF t \in ts THEN NoRun ELSE snap[t]]
    /\ next' = [t \in Tasks |-> IF t \in ts THEN "idle" ELSE next[t]]
    /\ fail' = [t \in Tasks |-> IF t \in ts THEN "idle" ELSE fail[t]]
    /\ inDrive' = [t \in Tasks |-> IF t \in ts THEN FALSE ELSE inDrive[t]]
    /\ entry' = [t \in Tasks |-> IF t \in ts THEN 0 ELSE entry[t]]
    /\ lost' = [t \in Tasks |-> IF t \in ts THEN FALSE ELSE lost[t]]
    /\ current' = current \ ts
    /\ outer' = outer \ ts

Begin(t, k, p) ==
    /\ pc[t] = "idle"
    /\ pc' = [pc EXCEPT ![t] = p]
    /\ kind' = [kind EXCEPT ![t] = k]

(* An error leaves drive().  resume and the approval commands record it as  *)
(* agent_loop_failed, writing from the snapshot THEIR frame holds - drive   *)
(* replaced only its own parameter; answer lets it escape.                  *)
DriveError(t) ==
    IF kind[t] = "answer"
    THEN Goto(t, "release") /\ UNCHANGED <<current, outer>>
    ELSE /\ Persist(t, [run EXCEPT !.status = "failed"], "release")
         /\ current' = IF t \in outer THEN current \cup {t} ELSE current \ {t}
         /\ inDrive' = [inDrive EXCEPT ![t] = FALSE]
         /\ UNCHANGED <<outer, kind, entry, lost>>

(* performWith failed for a reason that is neither lease loss nor abort.    *)
PerformError(t) ==
    IF Direct(t) THEN Goto(t, "release")
    ELSE /\ PersistOr(t, With(t, "environment_offline"), "dispose", "dispose")
         /\ UNCHANGED <<kind, inDrive, entry, lost>>

ReleaseHandle(t) == registry' = [registry EXCEPT ![W(t)] = 0]

-----------------------------------------------------------------------------
(* start, resume, command: entry points.                                    *)

(* start: admission, then the queued snapshot (no lease); the API handler   *)
(* goes on with resume in the same process.                                 *)
start(t) ==
    /\ slot = "none"
    /\ slot' = "open"
    /\ Begin(t, "start", "save")
    /\ snap' = [snap EXCEPT ![t] = [NoRun EXCEPT !.status = "queued"]]
    /\ next' = [next EXCEPT ![t] = "acquire"]
    /\ current' = current \cup {t}
    /\ UNCHANGED <<fail, inDrive, entry, lost, leaseVars, run, outer, ledger,
                   approvals, worldVars, handleVars, countVars>>

(* The queued snapshot cannot be stored: the admission is closed again.     *)
startFails(t) ==
    /\ kind[t] = "start" /\ pc[t] = "save" /\ run.status = "absent"
    /\ MayFail
    /\ slot' = "closed"
    /\ Reset({t})
    /\ UNCHANGED <<leaseVars, run, ledger, approvals, worldVars, handleVars,
                   crashes, expiries>>

(* The recovery scan finds a lapsed lease of a Run that is not terminal and *)
(* this process takes the job; a process runs one recovery job at a time.   *)
recoverExpired(t) ==
    /\ owner # NoWorker /\ ~live
    /\ run.status \notin Terminal \cup {"absent"}
    /\ \A u \in Tasks : W(u) = W(t) => kind[u] # "resume"
    /\ Begin(t, "resume", "acquire")
    /\ UNCHANGED <<snap, next, fail, inDrive, entry, lost, leaseVars, storeVars,
                   ledgerVars, worldVars, handleVars, countVars>>

command(t, k) ==
    /\ run.status # "absent"
    /\ Begin(t, k, "acquire")
    /\ UNCHANGED <<snap, next, fail, inDrive, entry, lost, leaseVars, storeVars,
                   ledgerVars, worldVars, handleVars, countVars>>

(* Slip: whether the lease is held is not asked.                            *)
acquireHeldLease(t) ==
    /\ pc[t] = "acquire"
    /\ owner' = W(t) /\ holder' = t /\ live' = TRUE
    /\ Goto(t, "load")
    /\ UNCHANGED <<storeVars, ledgerVars, worldVars, handleVars, countVars>>

acquireLease(t) ==
    /\ pc[t] = "acquire"
    /\ Acquire(t) /\ live' = TRUE
    /\ Goto(t, "load")
    /\ UNCHANGED <<storeVars, ledgerVars, worldVars, handleVars, countVars>>

(* The lease is held: a command is rejected, resume gives up its retries.   *)
leaseHeld(t) ==
    /\ pc[t] = "acquire"
    /\ ~Acquirable(W(t))
    /\ Reset({t})
    /\ UNCHANGED <<leaseVars, run, ledgerVars, worldVars, handleVars, countVars>>

(* finally { lease.release }                                                *)
releaseLease(t) ==
    /\ pc[t] = "release"
    /\ Release(t)
    /\ Reset({t})
    /\ UNCHANGED <<run, ledgerVars, worldVars, handleVars, countVars>>

-----------------------------------------------------------------------------
(* Writes: renewLease, then the compare-and-swap of store and transition    *)
(* writer, then the budget row of a terminal Run.                           *)

renewLease(t, ok, ko) ==
    IF TokenAccepted(t)
    THEN Goto(t, ok) /\ live' = TRUE /\ UNCHANGED <<owner, holder>>
    ELSE Goto(t, ko) /\ UNCHANGED leaseVars

renew(t) ==
    /\ pc[t] = "renew"
    /\ renewLease(t, "save", fail[t])
    /\ UNCHANGED <<storeVars, ledgerVars, worldVars, handleVars, countVars>>

(* Slip: UPDATE without WHERE version = $expected.                          *)
saveUnchecked(t) ==
    /\ pc[t] = "save"
    /\ run' = snap[t]
    /\ current' = {t}
    /\ outer' = IF inDrive[t] THEN {} ELSE {t}
    /\ Goto(t, IF snap[t].status \in Terminal THEN "close" ELSE next[t])
    /\ UNCHANGED <<leaseVars, ledgerVars, worldVars, handleVars, countVars>>

save(t) ==
    /\ pc[t] = "save"
    /\ t \in current
    /\ run' = snap[t]
    /\ current' = {t}
    /\ outer' = IF inDrive[t] THEN {} ELSE {t}
    /\ Goto(t, IF snap[t].status \in Terminal THEN "close" ELSE next[t])
    /\ UNCHANGED <<leaseVars, ledgerVars, worldVars, handleVars, countVars>>

saveConflict(t) ==
    /\ pc[t] = "save"
    /\ t \notin current
    /\ Goto(t, fail[t])
    /\ UNCHANGED <<leaseVars, storeVars, ledgerVars, worldVars, handleVars,
                   countVars>>

closeBudget(t) ==
    /\ pc[t] = "close"
    /\ slot' = "closed"
    /\ Goto(t, next[t])
    /\ UNCHANGED <<leaseVars, storeVars, ledger, approvals, worldVars,
                   handleVars, countVars>>

-----------------------------------------------------------------------------
(* requireRun, and what each call does with the snapshot it reads.          *)

Load(t) ==
    /\ pc[t] = "load"
    /\ current' = current \cup {t}
    /\ outer' = outer \cup {t}

LoadFrame(t) ==
    UNCHANGED <<run, kind, inDrive, entry, lost, leaseVars, ledgerVars,
                worldVars, countVars>>

Enter(t, p) ==
    /\ pc' = [pc EXCEPT ![t] = p]
    /\ snap' = [snap EXCEPT ![t] = run]
    /\ UNCHANGED <<next, fail>>

(* Slip: a Run that lost its environment is not prepared again.             *)
resumeOnlyFresh(t) ==
    /\ kind[t] \in {"start", "resume"}
    /\ Load(t)
    /\ CASE run.status \notin {"queued", "running"} -> Enter(t, "release")
         [] run.status \in {"queued", "running"} /\ Handle(t) # 0 ->
                Enter(t, IF run.status = "running" THEN "loop" ELSE "release")
         [] OTHER -> Persist(t, [run EXCEPT !.status = "preparing"], "prepare")
    /\ UNCHANGED handleVars
    /\ LoadFrame(t)

(* resume: durable waits and states owned by another flow are left alone; a *)
(* registered handle goes straight to drive, which only moves running Runs. *)
resume(t) ==
    /\ kind[t] \in {"start", "resume"}
    /\ Load(t)
    /\ CASE run.status \notin Startable \ Waiting -> Enter(t, "release")
         [] run.status \in Startable \ Waiting /\ Handle(t) # 0 ->
                Enter(t, IF run.status = "running" THEN "loop" ELSE "release")
         [] OTHER -> Persist(t, [run EXCEPT !.status = "preparing"], "prepare")
    /\ UNCHANGED handleVars
    /\ LoadFrame(t)

(* Slip: the gate against reviving a finished Run is missing.               *)
recoverAnything(t) ==
    /\ kind[t] = "recover"
    /\ Load(t)
    /\ Persist(t, [run EXCEPT !.status = "environment_offline"],
               IF Handle(t) # 0 THEN "dispose" ELSE "release")
    /\ UNCHANGED handleVars
    /\ LoadFrame(t)

(* recoverEnvironment / recover_environment                                 *)
recoverEnvironment(t) ==
    /\ kind[t] = "recover"
    /\ Load(t)
    /\ IF run.status \in Startable
       THEN Persist(t, [run EXCEPT !.status = "environment_offline"],
                    IF Handle(t) # 0 THEN "dispose" ELSE "release")
       ELSE Enter(t, "release")
    /\ UNCHANGED handleVars
    /\ LoadFrame(t)

(* cancel: abort the local entry, NOTIFY the other processes (pg_notify can *)
(* fail), write cancelling - from whatever status the Run is in.            *)
cancel(t) ==
    /\ kind[t] = "cancel"
    /\ Load(t)
    /\ aborted' = aborted \cup ({Handle(t)} \ {0})
    /\ \/ /\ notices' = Workers
          /\ Persist(t, [run EXCEPT !.status = "cancelling"], "canceldispose")
          /\ UNCHANGED failures
       \/ /\ MayFail
          /\ Enter(t, "release")
          /\ UNCHANGED notices
    /\ UNCHANGED <<registry, run, kind, inDrive, entry, lost, leaseVars,
                   ledgerVars, worldVars, crashes, expiries>>

(* answer: the pending question becomes a result; without a handle the      *)
(* environment is prepared first.                                           *)
answer(t) ==
    /\ kind[t] = "answer"
    /\ Load(t)
    /\ IF run.status = "waiting_user" /\ run.question # 0
       THEN Persist(t, [run EXCEPT
                !.status = IF Handle(t) # 0 THEN "running" ELSE "preparing",
                !.results = Append(@, [id |-> run.question, outcome |-> "answered"]),
                !.question = 0],
              IF Handle(t) # 0 THEN "loop" ELSE "prepare")
       ELSE Enter(t, "release")
    /\ UNCHANGED handleVars
    /\ LoadFrame(t)

(* approve / reject / edit_approve: only for the pending approval.  An edit *)
(* is authorized anew and may be refused.                                   *)
approval(t) ==
    /\ kind[t] \in ApprovalKinds
    /\ Load(t)
    /\ \/ /\ run.status = "waiting_approval" /\ run.approval /\ run.call # 0
          /\ Enter(t, "decide")
       \/ /\ \/ run.status # "waiting_approval" \/ ~run.approval \/ run.call = 0
             \/ kind[t] = "edit_approve"
          /\ Enter(t, "release")
    /\ UNCHANGED handleVars
    /\ LoadFrame(t)

(* approvals.decide: one decision per approval; only its exact repetition   *)
(* is accepted afterwards.                                                  *)
Turn(t) == calls[snap[t].call]

Grant(t) == CASE kind[t] = "approve_run" -> {<<"allow", Turn(t).tool>>}
              [] kind[t] = "reject_run" -> {<<"deny", Turn(t).tool>>}
              [] OTHER -> {}

decide(t) ==
    /\ pc[t] = "decide"
    /\ IF approvals[snap[t].call] \in {"pending", kind[t]}
       THEN /\ approvals' = [approvals EXCEPT ![snap[t].call] = kind[t]]
            /\ Persist(t, [snap[t] EXCEPT !.status = "running", !.approval = FALSE,
                                          !.grants = @ \cup Grant(t)],
                       IF kind[t] \in Deny THEN "rejected" ELSE "approved")
       ELSE UNCHANGED <<approvals, snap, next, fail>> /\ pc' = [pc EXCEPT ![t] = "release"]
    /\ UNCHANGED <<kind, inDrive, entry, lost, leaseVars, storeVars, ledger, slot,
                   worldVars, handleVars, countVars>>

(* Slip: the pending call is dropped, its result is not recorded.           *)
rejectedSilently(t) ==
    /\ pc[t] = "rejected"
    /\ Persist(t, [snap[t] EXCEPT !.call = 0], "loop")
    /\ UNCHANGED <<kind, inDrive, entry, lost, leaseVars, storeVars, ledgerVars,
                   worldVars, handleVars, countVars>>

rejected(t) ==
    /\ pc[t] = "rejected"
    /\ Persist(t, Result(t, "denied"), "loop")
    /\ UNCHANGED <<kind, inDrive, entry, lost, leaseVars, storeVars, ledgerVars,
                   worldVars, handleVars, countVars>>

-----------------------------------------------------------------------------
(* prepareAndRun                                                            *)

FreeEntries == Entries \ ({registry[w] : w \in Workers} \cup {entry[u] : u \in Tasks})

(* prepare returned: register the handle, then write running.               *)
prepared(t) ==
    /\ pc[t] = "prepare" /\ ~lost[t]
    /\ \E e \in FreeEntries :
         /\ \A f \in FreeEntries : e <= f
         /\ registry' = [registry EXCEPT ![W(t)] = e]
         /\ aborted' = aborted \ {e}
    /\ Persist(t, With(t, "running"), "loop")
    /\ UNCHANGED <<notices, kind, inDrive, entry, lost, leaseVars, storeVars,
                   ledgerVars, worldVars, countVars>>

(* prepare or inspect/verify returned after a heartbeat found the lease     *)
(* gone: LeaseLostError, nothing is registered or written.                  *)
waitLost(t) ==
    /\ pc[t] \in {"prepare", "verify"} /\ lost[t]
    /\ Goto(t, "release")
    /\ UNCHANGED <<leaseVars, storeVars, ledgerVars, worldVars, handleVars,
                   countVars>>

prepareFails(t) ==
    /\ pc[t] = "prepare"
    /\ MayFail
    /\ IF kind[t] = "answer"
       THEN Goto(t, "release")
       ELSE /\ Persist(t, With(t, "environment_offline"), "release")
            /\ UNCHANGED <<kind, inDrive, entry, lost>>
    /\ UNCHANGED <<leaseVars, storeVars, ledgerVars, worldVars, handleVars,
                   crashes, expiries>>

-----------------------------------------------------------------------------
(* drive: the model loop.                                                   *)

loop(t) ==
    /\ pc[t] = "loop"
    /\ pc' = [pc EXCEPT ![t] = IF TokenAccepted(t) THEN "reload" ELSE "release"]
    /\ live' = (live \/ TokenAccepted(t))
    /\ kind' = [kind EXCEPT ![t] = IF @ \in ApprovalKinds THEN "approved" ELSE @]
    /\ entry' = [entry EXCEPT ![t] = 0]
    /\ UNCHANGED <<owner, holder, snap, next, fail, inDrive, lost, storeVars,
                   ledgerVars, worldVars, handleVars, countVars>>

reload(t) ==
    /\ pc[t] = "reload"
    /\ current' = current \cup {t}
    /\ snap' = [snap EXCEPT ![t] = run]
    /\ inDrive' = [inDrive EXCEPT ![t] = TRUE]
    /\ pc' = [pc EXCEPT ![t] = IF run.status = "running" THEN "budget" ELSE "release"]
    /\ UNCHANGED <<run, outer, kind, next, fail, entry, lost, leaseVars,
                   ledgerVars, worldVars, handleVars, countVars>>

(* A persisted pending call is taken up again; otherwise the model is asked.*)
withinBudget(t) ==
    /\ pc[t] = "budget"
    /\ Goto(t, IF snap[t].call # 0 THEN "authorize" ELSE "model")
    /\ UNCHANGED <<leaseVars, storeVars, ledgerVars, worldVars, handleVars,
                   countVars>>

(* reconcileModelRequests, enforceBudget or recordToolCall says no.         *)
failBudget(t) ==
    /\ \/ pc[t] \in {"budget", "model"}
       \/ pc[t] = "loop" /\ ~inDrive[t]
    /\ MayFail
    /\ Persist(t, With(t, "failed"), "release")
    /\ UNCHANGED <<kind, inDrive, entry, lost, leaseVars, storeVars, ledgerVars,
                   worldVars, handleVars, crashes, expiries>>

modelCompleted(t) ==
    /\ pc[t] = "model"
    /\ Persist(t, With(t, "verifying"), "borrow")
    /\ UNCHANGED <<kind, inDrive, entry, lost, leaseVars, storeVars, ledgerVars,
                   worldVars, handleVars, countVars>>

modelAsksUser(t) ==
    /\ pc[t] = "model"
    /\ Len(calls) < MaxCalls
    /\ calls' = Append(calls, [tool |-> "question"])
    /\ Persist(t, [With(t, "waiting_user") EXCEPT !.question = Len(calls) + 1],
               "release")
    /\ UNCHANGED <<kind, inDrive, entry, lost, leaseVars, storeVars, ledgerVars,
                   effects, handleVars, countVars>>

(* A tool call whose arguments carry a deployment secret is answered with a *)
(* denial and never persisted.                                              *)
modelCallsWithSecret(t) ==
    /\ pc[t] = "model"
    /\ Len(calls) < MaxCalls
    /\ calls' = Append(calls, [tool |-> "exec", policy |-> "deny"])
    /\ Persist(t, [snap[t] EXCEPT
           !.results = Append(@, [id |-> Len(calls) + 1, outcome |-> "denied"])],
         "loop")
    /\ UNCHANGED <<kind, inDrive, entry, lost, leaseVars, storeVars, ledgerVars,
                   effects, handleVars, countVars>>

(* Any other tool call is stored as pending before policy sees it; this     *)
(* save alone does not renew the lease.                                     *)
modelCallsTool(t) ==
    /\ pc[t] = "model"
    /\ Len(calls) < MaxCalls
    /\ \E turn \in ToolCalls : calls' = Append(calls, turn)
    /\ pc' = [pc EXCEPT ![t] = "save"]
    /\ snap' = [snap EXCEPT ![t].call = Len(calls) + 1]
    /\ next' = [next EXCEPT ![t] = "authorize"]
    /\ fail' = [fail EXCEPT ![t] = "release"]
    /\ UNCHANGED <<kind, inDrive, entry, lost, leaseVars, storeVars, ledgerVars,
                   effects, handleVars, countVars>>

driveFails(t) ==
    /\ pc[t] \in {"model", "authorize"}
    /\ MayFail
    /\ DriveError(t)
    /\ UNCHANGED <<run, leaseVars, ledgerVars, worldVars, handleVars, crashes,
                   expiries>>

-----------------------------------------------------------------------------
(* Authorization of the pending call.                                       *)

(* A run-scoped grant replaces an ask, never a deny.                        *)
Decision(t) ==
    IF Turn(t).policy = "ask" /\ <<"allow", Turn(t).tool>> \in snap[t].grants
    THEN "allow" ELSE Turn(t).policy

AuthorizeFrame == UNCHANGED <<run, leaseVars, ledger, slot, worldVars, handleVars,
                              countVars>>

(* Slip: the approval is not requested from the ledger.                     *)
authorizeAskUnrecorded(t) ==
    /\ pc[t] = "authorize" /\ Decision(t) = "ask"
    /\ Persist(t, [With(t, "waiting_approval") EXCEPT !.approval = TRUE], "release")
    /\ UNCHANGED <<approvals, kind, inDrive, entry, lost, current, outer>>
    /\ AuthorizeFrame

authorizeAsk(t) ==
    /\ pc[t] = "authorize" /\ Decision(t) = "ask"
    /\ IF <<"deny", Turn(t).tool>> \in snap[t].grants
       THEN Persist(t, Result(t, "denied"), "loop") /\ UNCHANGED approvals
       ELSE /\ approvals' = [approvals EXCEPT ![snap[t].call] =
                               IF @ = "none" THEN "pending" ELSE @]
            /\ Persist(t, [With(t, "waiting_approval") EXCEPT !.approval = TRUE],
                       "release")
    /\ UNCHANGED <<kind, inDrive, entry, lost, current, outer>>
    /\ AuthorizeFrame

authorizeDeny(t) ==
    /\ pc[t] = "authorize" /\ Decision(t) = "deny"
    /\ Persist(t, With(t, "failed"), "release")
    /\ UNCHANGED <<approvals, kind, inDrive, entry, lost, current, outer>>
    /\ AuthorizeFrame

authorizeAllow(t) ==
    /\ pc[t] = "authorize" /\ Decision(t) = "allow"
    /\ CASE Turn(t).tool = "network" ->
              /\ Persist(t, Result(t, "authorized"), "loop")
              /\ UNCHANGED <<kind, inDrive, entry, lost, current, outer>>
         [] Turn(t).tool # "network" /\ Handle(t) = 0 -> DriveError(t)
         [] OTHER ->
              /\ pc' = [pc EXCEPT ![t] = "prerenew"]
              /\ entry' = [entry EXCEPT ![t] = Handle(t)]
              /\ UNCHANGED <<kind, snap, next, fail, inDrive, lost, current, outer>>
    /\ UNCHANGED approvals
    /\ AuthorizeFrame

(* The decision of an approval command is stored: go on with its call.      *)
approved(t) ==
    /\ pc[t] = "approved"
    /\ CASE Turn(t).tool = "network" ->
              Persist(t, Result(t, "authorized"), "loop") /\ UNCHANGED entry
         [] Turn(t).tool # "network" /\ Handle(t) = 0 ->
              /\ pc' = [pc EXCEPT ![t] = "release"]
              /\ UNCHANGED <<snap, next, fail, entry>>
         [] OTHER ->
              /\ pc' = [pc EXCEPT ![t] = "perform_with"]
              /\ entry' = [entry EXCEPT ![t] = Handle(t)]
              /\ UNCHANGED <<snap, next, fail>>
    /\ UNCHANGED <<kind, inDrive, lost, leaseVars, storeVars, ledgerVars,
                   worldVars, handleVars, countVars>>

(* The lease is renewed once more before a tool may run.                    *)
prerenew(t) ==
    /\ pc[t] = "prerenew"
    /\ renewLease(t, "perform_with", "release")
    /\ UNCHANGED <<storeVars, ledgerVars, worldVars, handleVars, countVars>>

-----------------------------------------------------------------------------
(* performWith: marker, claim, side effect, completion, result.             *)

performWith(t) ==
    /\ pc[t] = "perform_with"
    /\ IF snap[t].call \in snap[t].started
       THEN Goto(t, "claim")
       ELSE /\ Persist(t, [snap[t] EXCEPT !.started = @ \cup {snap[t].call}], "claim")
            /\ UNCHANGED <<kind, inDrive, entry, lost>>
    /\ UNCHANGED <<leaseVars, storeVars, ledgerVars, worldVars, handleVars,
                   countVars>>

(* Slip: an executing row left by a dead Worker is claimed again.           *)
claimAgain(t) ==
    LET c == snap[t].call
    IN  /\ pc[t] = "claim"
        /\ ledger' = [ledger EXCEPT ![c] = [state |-> "executing",
                                            action |-> ActionOf(t)]]
        /\ Goto(t, "perform")
        /\ UNCHANGED <<leaseVars, storeVars, approvals, slot, worldVars,
                       handleVars, countVars>>

(* Slip: any earlier row counts as completed.                               *)
claimBelieves(t) ==
    LET c == snap[t].call
    IN  /\ pc[t] = "claim"
        /\ IF ledger[c].state = "none"
           THEN /\ ledger' = [ledger EXCEPT ![c] = [state |-> "executing",
                                                    action |-> ActionOf(t)]]
                /\ Goto(t, "perform")
           ELSE /\ Persist(t, Executed(t), "loop")
                /\ UNCHANGED <<ledger, kind, inDrive, entry, lost>>
        /\ UNCHANGED <<leaseVars, storeVars, approvals, slot, worldVars,
                       handleVars, countVars>>

(* toolCalls.claim inserts the row, or reads what an earlier claim left.    *)
claim(t) ==
    LET c == snap[t].call
        row == ledger[c]
    IN  /\ pc[t] = "claim"
        /\ CASE row.state = "none" ->
                  /\ ledger' = [ledger EXCEPT ![c] = [state |-> "executing",
                                                      action |-> ActionOf(t)]]
                  /\ Goto(t, "perform")
             [] row.state # "none" /\ row.action # ActionOf(t) ->
                  UNCHANGED ledger /\ PerformError(t)
             [] row.state = "completed" /\ row.action = ActionOf(t) ->
                  /\ Persist(t, Executed(t), "loop")
                  /\ UNCHANGED <<ledger, kind, inDrive, entry, lost>>
             [] OTHER ->   \* outcome_unknown
                  /\ Persist(t, With(t, "failed"), IF Direct(t) THEN "release" ELSE "loop")
                  /\ UNCHANGED <<ledger, kind, inDrive, entry, lost>>
        /\ UNCHANGED <<leaseVars, storeVars, approvals, slot, worldVars,
                       handleVars, countVars>>

perform(t) ==
    /\ pc[t] = "perform"
    /\ effects' = [effects EXCEPT ![snap[t].call] = Append(@, ActionOf(t))]
    /\ Goto(t, "performing")
    /\ UNCHANGED <<leaseVars, storeVars, ledgerVars, calls, handleVars, countVars>>

performed(t) ==
    /\ pc[t] = "performing" /\ ~lost[t]
    /\ Goto(t, "complete")
    /\ UNCHANGED <<leaseVars, storeVars, ledgerVars, worldVars, handleVars,
                   countVars>>

(* perform was rejected, or returned after the lease was found lost.  A     *)
(* fired AbortController makes it a cancellation, whatever the error was.   *)
performEnds(t) ==
    /\ pc[t] = "performing"
    /\ \/ /\ entry[t] \in aborted
          /\ IF Direct(t) THEN Goto(t, "release")
             ELSE /\ PersistOr(t, With(t, "cancelled"), "dispose", "dispose")
                  /\ UNCHANGED <<kind, inDrive, entry, lost>>
          /\ UNCHANGED failures
       \/ /\ entry[t] \notin aborted /\ lost[t]
          /\ Goto(t, "release")
          /\ UNCHANGED failures
       \/ /\ entry[t] \notin aborted
          /\ MayFail /\ PerformError(t)
    /\ UNCHANGED <<leaseVars, storeVars, ledgerVars, worldVars, handleVars,
                   crashes, expiries>>

complete(t) ==
    /\ pc[t] = "complete"
    /\ ledger' = [ledger EXCEPT ![snap[t].call].state = "completed"]
    /\ Persist(t, Executed(t), "loop")
    /\ UNCHANGED <<kind, inDrive, entry, lost, leaseVars, storeVars, approvals,
                   slot, worldVars, handleVars, countVars>>

(* dispose("discard") and handles.release after the status was written (or  *)
(* could not be); a failing dispose surfaces as an error of drive.          *)
dispose(t) ==
    /\ pc[t] = "dispose"
    /\ ReleaseHandle(t)
    /\ \/ Goto(t, "release") /\ UNCHANGED <<current, outer, failures>>
       \/ /\ MayFail
          /\ IF kind[t] = "recover"
             THEN Goto(t, "release") /\ UNCHANGED <<current, outer>>
             ELSE DriveError(t)
    /\ UNCHANGED <<run, aborted, notices, leaseVars, ledgerVars, worldVars,
                   crashes, expiries>>

cancelDispose(t) ==
    /\ pc[t] = "canceldispose"
    /\ ReleaseHandle(t)
    /\ \/ /\ Persist(t, [With(t, "cancelled") EXCEPT !.call = 0, !.question = 0,
                                                     !.approval = FALSE], "release")
          /\ UNCHANGED <<kind, inDrive, entry, lost, failures>>
       \/ /\ Handle(t) # 0 /\ MayFail
          /\ Goto(t, "release")
    /\ UNCHANGED <<aborted, notices, leaseVars, storeVars, ledgerVars, worldVars,
                   crashes, expiries>>

-----------------------------------------------------------------------------
(* The verification phase of drive.                                         *)

borrow(t) ==
    /\ pc[t] = "borrow"
    /\ IF Handle(t) = 0 THEN DriveError(t)
       ELSE /\ pc' = [pc EXCEPT ![t] = "verify"]
            /\ entry' = [entry EXCEPT ![t] = Handle(t)]
            /\ UNCHANGED <<kind, snap, next, fail, inDrive, lost, current, outer>>
    /\ UNCHANGED <<run, leaseVars, ledgerVars, worldVars, handleVars, countVars>>

(* verify reported: the outcome waits in the snapshot for the cleanup.      *)
verified(t) ==
    /\ pc[t] = "verify" /\ ~lost[t]
    /\ \E s \in {"succeeded", "failed"} : snap' = [snap EXCEPT ![t].status = s]
    /\ pc' = [pc EXCEPT ![t] = "cleanup"]
    /\ UNCHANGED <<kind, next, fail, inDrive, entry, lost, leaseVars, storeVars,
                   ledgerVars, worldVars, handleVars, countVars>>

verifyFails(t) ==
    /\ pc[t] = "verify"
    /\ MayFail
    /\ DriveError(t)
    /\ UNCHANGED <<run, leaseVars, ledgerVars, worldVars, handleVars, crashes,
                   expiries>>

(* dispose("keep"): a failure, lease loss included, makes the outcome       *)
(* inconclusive; the handle is given up in every case.                      *)
cleanup(t) ==
    /\ pc[t] = "cleanup"
    /\ ReleaseHandle(t)
    /\ \/ ~lost[t] /\ Persist(t, snap[t], "release") /\ UNCHANGED failures
       \/ /\ IF lost[t] THEN UNCHANGED failures ELSE MayFail
          /\ Persist(t, With(t, "failed"), "release")
    /\ UNCHANGED <<kind, inDrive, entry, lost, aborted, notices, leaseVars,
                   storeVars, ledgerVars, worldVars, crashes, expiries>>

-----------------------------------------------------------------------------
(* Concurrent activity around the tasks.                                    *)

(* A heartbeat tick renews by owner, without the generation; when it fails  *)
(* no later tick does anything.  During perform it also looks for a Run     *)
(* cancelled behind the process's back.                                     *)
heartbeat(t) ==
    /\ pc[t] \in Waits /\ ~lost[t]
    /\ IF owner = W(t)
       THEN /\ live' = TRUE
            /\ aborted' = IF pc[t] = "performing" /\ run.status = "cancelled"
                          THEN aborted \cup ({Handle(t)} \ {0}) ELSE aborted
            /\ UNCHANGED lost
       ELSE lost' = [lost EXCEPT ![t] = TRUE] /\ UNCHANGED <<live, aborted>>
    /\ UNCHANGED <<owner, holder, pc, kind, snap, next, fail, inDrive, entry,
                   storeVars, ledgerVars, worldVars, registry, notices, countVars>>

(* NOTIFY run_engine_cancel reaches the process of w, or its LISTEN         *)
(* session was down.                                                        *)
notify(w) ==
    /\ w \in notices
    /\ notices' = notices \ {w}
    /\ aborted' = aborted \cup ({registry[w]} \ {0})
    /\ UNCHANGED <<registry, leaseVars, storeVars, ledgerVars, worldVars,
                   taskVars, countVars>>

notifyLost(w) ==
    /\ w \in notices
    /\ notices' = notices \ {w}
    /\ MayFail
    /\ UNCHANGED <<registry, aborted, leaseVars, storeVars, ledgerVars, worldVars,
                   taskVars, crashes, expiries>>

(* Time passes.  A lease lapses when nobody is left to renew it, or when    *)
(* its holder is stalled for too long.                                      *)
expire ==
    /\ Expire
    /\ IF holder = NoTask THEN UNCHANGED expiries
       ELSE expiries < MaxExpiries /\ expiries' = expiries + 1
    /\ UNCHANGED <<storeVars, ledgerVars, worldVars, handleVars, taskVars,
                   crashes, failures>>

(* The process of w dies with its tasks, handles and LISTEN session, and is *)
(* started again under the same workerId.                                   *)
crash(w) ==
    LET dead == {t \in Tasks : W(t) = w}
    IN  /\ crashes < MaxCrashes
        /\ crashes' = crashes + 1
        /\ \E t \in dead : pc[t] # "idle"
        /\ Drop(dead)
        /\ Reset(dead)
        /\ registry' = [registry EXCEPT ![w] = 0]
        /\ notices' = notices \ {w}
        /\ UNCHANGED <<run, ledgerVars, worldVars, aborted, expiries, failures>>

-----------------------------------------------------------------------------
(* What a task does by itself once it was called.                           *)
Work(t) ==
    \/ acquireLease(t) \/ leaseHeld(t) \/ releaseLease(t)
    \/ renew(t) \/ save(t) \/ saveConflict(t) \/ closeBudget(t)
    \/ resume(t) \/ recoverEnvironment(t) \/ cancel(t) \/ answer(t)
    \/ approval(t) \/ decide(t) \/ rejected(t) \/ approved(t)
    \/ prepared(t) \/ waitLost(t)
    \/ loop(t) \/ reload(t) \/ withinBudget(t)
    \/ modelCompleted(t) \/ modelAsksUser(t) \/ modelCallsWithSecret(t)
    \/ modelCallsTool(t)
    \/ authorizeAsk(t) \/ authorizeDeny(t) \/ authorizeAllow(t)
    \/ prerenew(t) \/ performWith(t) \/ claim(t) \/ perform(t) \/ performed(t)
    \/ performEnds(t) \/ complete(t) \/ dispose(t) \/ cancelDispose(t)
    \/ borrow(t) \/ verified(t) \/ cleanup(t)

Fault(t) == \/ startFails(t) \/ prepareFails(t) \/ failBudget(t) \/ driveFails(t)
            \/ verifyFails(t)

Call(t) == \/ start(t) \/ recoverExpired(t) \/ \E k \in Commands : command(t, k)

Next ==
    \/ \E t \in Tasks : Work(t) \/ Fault(t) \/ Call(t) \/ heartbeat(t)
    \/ \E w \in Workers : notify(w) \/ notifyLost(w) \/ crash(w)
    \/ expire

Spec == Init /\ [][Next]_vars

-----------------------------------------------------------------------------
(* A tool call's side effect happens at most once, through every crash,     *)
(* takeover, retry and concurrent approval (the claim precedes perform).    *)
AtMostOnce == \A c \in Calls : Len(effects[c]) <= 1

(* What ran is what was allowed: a denied call never runs, a call that      *)
(* needed an answer runs only after an approval of exactly that action (the *)
(* edited one after edit_approve), or under a run-scoped grant.             *)
PerformedAsApproved ==
    \A c \in DOMAIN calls :
      effects[c] # <<>> =>
        CASE calls[c].policy = "allow" -> effects[c][1] = "original"
          [] calls[c].policy = "deny" -> FALSE
          [] calls[c].policy = "ask" ->
               \/ approvals[c] \in Allow /\ effects[c][1] = "original"
               \/ approvals[c] = "edit_approve" /\ effects[c][1] = "edited"
               \/ approvals[c] = "none" /\ <<"allow", calls[c].tool>> \in run.grants

(* What the model is told is true: at most one result per call, "executed"  *)
(* only for a completed side effect, "denied" only for a call that never    *)
(* ran.                                                                     *)
ResultsTruthful ==
    /\ \A i, j \in DOMAIN run.results :
         run.results[i].id = run.results[j].id => i = j
    /\ \A i \in DOMAIN run.results :
         LET c == run.results[i].id
         IN  IF run.results[i].outcome = "executed"
             THEN Len(effects[c]) = 1 /\ ledger[c].state = "completed"
             ELSE effects[c] = <<>>

(* A Run that waits can be released: the approval it waits for is in the    *)
(* ledger with its call, the question it waits for is stored.               *)
WaitIsAnswerable ==
    /\ run.status = "waiting_approval" =>
         run.approval /\ run.call # 0 /\ approvals[run.call] # "none"
    /\ run.status = "waiting_user" => run.question # 0

(* A finished or cancelling Run is never driven again: no late write of a   *)
(* superseded driver, recovery or approval revives it.  Only cancel itself  *)
(* still applies.                                                           *)
NoRevival ==
    [][run.status \in Terminal \cup {"cancelling"} =>
         run'.status \in {run.status, "cancelling", "cancelled"}]_vars

(* A stored pending call leaves the snapshot only together with its result, *)
(* unless the Run is being cancelled.                                       *)
PendingCallConsumedOnce ==
    [][run.call # 0 /\ run'.call # run.call =>
         /\ run'.call = 0
         /\ \/ run'.status = "cancelled"
            \/ /\ Len(run'.results) = Len(run.results) + 1
               /\ run'.results[Len(run'.results)].id = run.call]_vars

(* Nothing works on the Run, and it neither ended nor waits for a user.     *)
Interrupted == /\ \A t \in Tasks : pc[t] = "idle"
               /\ run.status \notin Terminal \cup Waiting \cup {"absent"}

(* The status of an interrupted Run is one resume() acts on.                *)
InterruptedRunIsStartable == Interrupted => run.status \in Startable

(* The recovery scan, which starts from the lease rows, finds an            *)
(* interrupted Run.                                                         *)
InterruptedRunIsFound == Interrupted => owner # NoWorker

(* The engine uses the lease only as LeaseFence allows.                     *)
LeaseContract == FenceSpec

(* The engine as its clients see it.                                        *)
Told == [c \in Calls |->
           IF \E i \in DOMAIN run.results : run.results[i].id = c
           THEN run.results[CHOOSE i \in DOMAIN run.results :
                              run.results[i].id = c].outcome
           ELSE "none"]

Lifecycle == INSTANCE RunLifecycle WITH
    CallIds <- Calls, status <- run.status, told <- Told,
    ran <- {c \in Calls : effects[c] # <<>>}

(* Every step of the workers is a step of RunLifecycle or invisible to it.  *)
ImplementsLifecycle == Lifecycle!LifecycleSpec
=============================================================================
