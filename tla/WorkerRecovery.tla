---------------------------- MODULE WorkerRecovery ----------------------------
(***************************************************************************)
(* The Worker processes around RunEngine: how a process starts and stops   *)
(* (apps/worker/src/worker-host.ts, createWorkerRuntime), and the recovery *)
(* scheduler that finds a Run whose lease has lapsed                       *)
(* (run-engine/src/recovery-worker.ts) over the pg-boss queues             *)
(* (apps/worker/src/pg-boss-recovery.ts).  RunEngine's recoverExpired is   *)
(* replaced by the chained scan job and the job of the Run; its crash by   *)
(* the death or the shutdown of a process, which starts again.             *)
(*                                                                         *)
(* pg-boss is external: a queue of policy "short" keeps one created job, a *)
(* job whose process died comes back when it expires, a send in the slot   *)
(* of time of an earlier one with its singletonKey creates nothing.  A job *)
(* that fails or expires is retried, or given up after the last retry of   *)
(* its queue (20 for scans, 5 for Runs); the retries are not counted: any  *)
(* failure may be the last.  A job of the Run that is given up is one that *)
(* never expires: nothing is assumed of jobExpires, since a later scan     *)
(* sends another.  A second pending job of the Run would do what the first *)
(* does: one is kept.                                                      *)
(***************************************************************************)
EXTENDS RunEngine

VARIABLES
    host,         \* the process of each Worker: "down", "up" or "draining"
    scanQueued,   \* the scan queue holds its one created job
    scanOrphans,  \* scan jobs that failed or whose process died, to be retried
    scanning,     \* the scan handler of each process: "idle", "found", "sent"
    jobQueued,    \* the run queue holds a job of the Run
    jobOrphaned,  \* such a job was active in a process that died
    slotUsed,     \* a job of the Run was sent in this slot of time
    resuming,     \* the task each process' job handler awaits, or NoTask
    givenUp       \* history: a scan job was given up and none was sent since

scanVars == <<scanQueued, scanOrphans, scanning, givenUp>>
jobVars == <<jobQueued, jobOrphaned, slotUsed>>
queueVars == <<scanVars, jobVars>>
engineVars == <<leaseVars, storeVars, ledgerVars, worldVars, handleVars, taskVars,
                countVars>>
recoveryVars == <<host, queueVars, resuming>>
allVars == <<vars, recoveryVars>>

RecoveryTypeOK ==
    /\ TypeOK
    /\ host \in [Workers -> {"down", "up", "draining"}]
    /\ scanOrphans \in Nat
    /\ scanning \in [Workers -> {"idle", "found", "sent"}]
    /\ {scanQueued, jobQueued, jobOrphaned, slotUsed, givenUp} \subseteq BOOLEAN
    /\ resuming \in [Workers -> Tasks \cup {NoTask}]

RecoveryInit ==
    /\ Init
    /\ host = [w \in Workers |-> "down"]
    /\ scanQueued = FALSE /\ scanOrphans = 0
    /\ scanning = [w \in Workers |-> "idle"]
    /\ givenUp = FALSE
    /\ jobQueued = FALSE /\ jobOrphaned = FALSE /\ slotUsed = FALSE
    /\ resuming = [w \in Workers |-> NoTask]

-----------------------------------------------------------------------------
(* The process and its runtime. *)

\* The control plane is opened after the queues, and closed by the first signal.
open(w) == host[w] = "up"

\* startQueue: the queues, their handlers and a first scan, which joins the one
\* that is queued already.
boot(w) ==
    /\ host[w] = "down"
    /\ host' = [host EXCEPT ![w] = "up"]
    /\ scanQueued' = TRUE /\ givenUp' = FALSE
    /\ UNCHANGED <<engineVars, scanOrphans, scanning, jobVars, resuming>>

\* A signal: the control plane is closed and the queue polled no more.
stop(w) ==
    /\ open(w) /\ crashes < MaxCrashes
    /\ host' = [host EXCEPT ![w] = "draining"]
    /\ crashes' = crashes + 1
    /\ UNCHANGED <<leaseVars, storeVars, ledgerVars, worldVars, handleVars, taskVars,
                   expiries, failures, queueVars, resuming>>

\* The scan of a process comes to nothing: its job is retried or given up.
retry(w) ==
    /\ scanning' = [scanning EXCEPT ![w] = "idle"]
    /\ \/ scanOrphans' = scanOrphans + 1 /\ UNCHANGED givenUp
       \/ givenUp' = TRUE /\ UNCHANGED scanOrphans

\* The process is gone, and with it what it was doing.
ends(w) ==
    LET dead == {t \in Tasks : W(t) = w}
    IN  /\ Drop(dead) /\ Reset(dead)
        /\ registry' = [registry EXCEPT ![w] = 0]
        /\ notices' = notices \ {w}
        /\ host' = [host EXCEPT ![w] = "down"]
        /\ IF scanning[w] # "idle" THEN retry(w)
           ELSE UNCHANGED <<scanOrphans, scanning, givenUp>>
        /\ resuming' = [resuming EXCEPT ![w] = NoTask]
        /\ jobOrphaned' = (jobOrphaned \/ resuming[w] # NoTask)
        /\ UNCHANGED <<run, ledgerVars, worldVars, aborted, expiries, failures,
                       scanQueued, jobQueued, slotUsed>>

\* runtime.stop: the jobs had their thirty seconds, whether they ended or not; the
\* engine stops listening, the pool is closed, the process exits.
stopped(w) == host[w] = "draining" /\ ends(w) /\ UNCHANGED crashes

die(w) ==
    /\ host[w] # "down" /\ crashes < MaxCrashes
    /\ crashes' = crashes + 1
    /\ ends(w)

-----------------------------------------------------------------------------
(* The scan. *)

\* findRecoverableExpiredLeases: a lease that lapsed, of a Run that has not ended.
recoverable == owner # NoWorker /\ ~live /\ run.status \notin Terminal \cup {"absent"}

\* A process takes a scan job and reads the leases.
scan(w) ==
    /\ host[w] = "up" /\ scanning[w] = "idle"
    /\ \/ scanQueued /\ scanQueued' = FALSE /\ UNCHANGED scanOrphans
       \/ scanOrphans > 0 /\ scanOrphans' = scanOrphans - 1 /\ UNCHANGED scanQueued
    /\ scanning' = [scanning EXCEPT ![w] = IF recoverable THEN "found" ELSE "sent"]
    /\ UNCHANGED <<engineVars, host, givenUp, jobVars, resuming>>

\* The job of the Run that was found, unless one was sent in the same slot.
sendRun(w) ==
    /\ scanning[w] = "found"
    /\ scanning' = [scanning EXCEPT ![w] = "sent"]
    /\ jobQueued' = (jobQueued \/ ~slotUsed)
    /\ slotUsed' = TRUE
    /\ UNCHANGED <<engineVars, host, scanQueued, scanOrphans, givenUp,
                   jobOrphaned, resuming>>

\* The next slot of scanIntervalSeconds begins.
slotPasses ==
    /\ slotUsed /\ slotUsed' = FALSE
    /\ UNCHANGED <<engineVars, host, scanVars, jobQueued, jobOrphaned, resuming>>

\* Reading or sending fails.
scanFails(w) ==
    /\ scanning[w] # "idle" /\ crashes < MaxCrashes
    /\ crashes' = crashes + 1
    /\ retry(w)
    /\ UNCHANGED <<leaseVars, storeVars, ledgerVars, worldVars, handleVars, taskVars,
                   expiries, failures, host, scanQueued, jobVars, resuming>>

\* Slip: the scan completes, and the next one is not sent.
chainNothing(w) ==
    /\ scanning[w] = "sent"
    /\ scanning' = [scanning EXCEPT ![w] = "idle"]
    /\ UNCHANGED <<engineVars, host, scanQueued, scanOrphans, givenUp, jobVars, resuming>>

\* The next scan is sent before this one completes; a created one is joined.
chain(w) ==
    /\ scanning[w] = "sent"
    /\ scanQueued' = TRUE /\ givenUp' = FALSE
    /\ scanning' = [scanning EXCEPT ![w] = "idle"]
    /\ UNCHANGED <<engineVars, host, scanOrphans, jobVars, resuming>>

-----------------------------------------------------------------------------
(* The job of the Run. *)

\* A process takes the job, one at a time, and resumes the Run.
takeJob(t) ==
    /\ host[W(t)] = "up" /\ resuming[W(t)] = NoTask
    /\ jobQueued /\ jobQueued' = FALSE
    /\ Begin(t, "resume", "acquire")
    /\ resuming' = [resuming EXCEPT ![W(t)] = t]
    /\ UNCHANGED <<snap, next, fail, inDrive, entry, lost, leaseVars, storeVars,
                   ledgerVars, worldVars, handleVars, countVars, host, scanVars,
                   jobOrphaned, slotUsed>>

\* resume returned, and so does the job (a resume that throws needs MaxFailures > 0).
jobEnds(w) ==
    /\ resuming[w] # NoTask /\ pc[resuming[w]] = "idle"
    /\ resuming' = [resuming EXCEPT ![w] = NoTask]
    /\ UNCHANGED <<engineVars, host, queueVars>>

\* The job of a process that died expires, and is to be taken again.
jobExpires ==
    /\ jobOrphaned /\ jobOrphaned' = FALSE
    /\ jobQueued' = TRUE
    /\ UNCHANGED <<engineVars, host, scanVars, slotUsed, resuming>>

-----------------------------------------------------------------------------
(* The engine in those processes. *)

\* A Run is created while the control plane is open; its commands, and failures of
\* the services, are RunEngine's.
serve(t) == open(W(t)) /\ start(t) /\ UNCHANGED recoveryVars

work(t) == Work(t) /\ UNCHANGED recoveryVars
beat(t) == heartbeat(t) /\ UNCHANGED recoveryVars
timePasses == expire /\ UNCHANGED recoveryVars

RecoveryNext ==
    \/ \E t \in Tasks :
         \/ serve(t) \/ work(t) \/ beat(t) \/ takeJob(t)
    \/ \E w \in Workers :
         \/ boot(w) \/ stop(w) \/ stopped(w) \/ die(w)
         \/ scan(w) \/ sendRun(w) \/ scanFails(w) \/ chain(w) \/ jobEnds(w)
    \/ slotPasses \/ jobExpires \/ timePasses

RecoverySpec == RecoveryInit /\ [][RecoveryNext]_allVars

\* A process that is down is started again, a job that can be taken is taken, and
\* time passes.
FairRecoverySpec ==
    /\ RecoverySpec
    /\ \A t \in Tasks : WF_allVars(work(t)) /\ WF_allVars(takeJob(t))
    /\ \A w \in Workers :
         /\ WF_allVars(boot(w) \/ stopped(w)) /\ WF_allVars(jobEnds(w))
         /\ WF_allVars(scan(w) \/ sendRun(w) \/ chain(w))
    /\ WF_allVars(slotPasses) /\ WF_allVars(timePasses)

-----------------------------------------------------------------------------
(* Properties. *)

\* Once a Run exists there is always a scan to come, through deaths, shutdowns and
\* overlapping chains (recovery-worker.ts:149, "surviving restarts"); only the give-up
\* of a scan job after its last retry ends it, until a process starts.
ScanGoesOn ==
    run.status # "absent" =>
        \/ scanQueued \/ scanOrphans > 0 \/ \E w \in Workers : scanning[w] # "idle"
        \/ givenUp

\* A Run whose driver died is taken over: whatever it was doing, it ends, reaches
\* verification or waits for a user (no user action needed), unless the queue gave
\* the scans up (recovery-worker.ts:99-175).
TakenOver ==
    run.status \in {"preparing", "running", "environment_offline"}
      ~> run.status \in Terminal \cup Waiting \cup {"verifying"} \/ givenUp
=============================================================================
