# Lecoding: TLA+ models, model checking and proofs

This directory holds the verification project of Lecoding, a platform that runs
coding agents for teams. A *Run* is one agent task: a Worker process drives a
language model in a loop, executes the tool calls the model makes in an
isolated environment (a container, or the user's own machine reached through a
desktop application), asks people for approvals and answers, verifies the
result and stores what happened. All durable state is in PostgreSQL; several
Worker processes share it and may die at any time.

Contents

1. Inventory of the system
2. Plan and what is left of it
3. Modules and how they correspond to the code
4. Runs: what TLC checks, with which bounds
5. Fairness
6. Proofs
7. Where the code and its documentation disagree
8. Observations
9. What is not modelled

To repeat a run: `tlc -workers 2 -config RunLease.cfg MCRunLease`. To repeat a
proof: `tlapm RunLeaseProofs.tla`.

## 1. Inventory of the system

Paths are relative to `src/`. The table of `PROJECT.json` lists every
component with its files; this is what each of them keeps and does.

### The Run engine and its tables (`packages/run-engine/src`)

| component | state it keeps | operations | correct when |
|---|---|---|---|
| Run lease, `postgres-run-lease.ts` | row `<owner_id, lease_until, generation>` per Run | acquire, renew (with or without a generation), release, invalidate | one task at a time holds a token the database accepts; a superseded token is refused for good |
| Run engine, `index.ts` | the StoredRun snapshot with its version, the in-process handle registry, AbortControllers | start, resume, recoverEnvironment, command (cancel, answer, four approvals, edit, recover, steer), drive loop, performWith, heartbeat | a tool call's side effect happens at most once; what ran is what was allowed; the model is told the truth; a finished or cancelling Run is not revived; a waiting Run can be answered; an interrupted Run is taken over |
| Snapshot store and transition writer | `run_engine_runs` with a version column; events and outbox rows written with it | compare-and-swap save | a writer that read an older version changes nothing |
| Tool-call ledger | one row per call: executing, completed | claim, complete | a claim succeeds once |
| Approval ledger | one row per approval: pending, decided | request, decide | a decision is final |
| Cancel bus | LISTEN/NOTIFY channel | publish, subscribe | a notification is only a hint: a lost one must not lose the cancellation |
| Recovery worker, `recovery-worker.ts` | a pg-boss queue with one scan job that sends its successor, and a queue of Run jobs | scan, recover one Run, start, stop | there is always a scan to come; every Run whose driver died is found and brought to an end |
| Run budget, `postgres-run-budget.ts` | `run_engine_budgets`, `run_engine_model_reservations` | open, reserve, settle, forfeit, reconcile, record, close | a request is charged once; limits hold with concurrent drivers and admissions |
| Steering mailbox, `run-steer-mailbox.ts` | messages with a sequence number | enqueue, readAfter | a command is one message; the model is told them in order, none dropped and none twice |
| Project policy rules, review audit | every version of a rule; one review per call | set, resolve, revoke, record | a rule that was replaced or revoked stays so; a review is not rewritten |
| Policy, `packages/policy` | none | authorize | what every mode or the Run denies is not performed, whatever rules and approvals say |
| Artifacts and retention | files and records | store, sweep | retention spares what is still referred to |

How they interact: an HTTP request calls `start` or `command`; `start` admits
the Run in the budget, stores a queued snapshot and is followed by `resume` in
the same process. `resume` and every command acquire the lease, work, and
release it. Each write of a snapshot first renews the lease and then
compares-and-swaps on the version. Between two awaits everything else may
happen: another command of the same process, another process that took the
lease over, the recovery scan, a cancellation. `drive` asks the budget before
each provider request, the policy before each tool call, and the tool-call
ledger before each side effect; it reads the mailbox before each model turn.

### Model providers (`packages/openai-model`, `packages/anthropic-model`)

`next()` of three protocols (Responses, Chat Completions, Messages). An answer is
a batch of calls that is handed out one by one; what is left of it travels in the
continuation stored with each call. A malformed answer is replayed once per turn.
Each HTTP request reserves budget before it is sent and is settled or forfeited
after. Correct when a request carries the whole conversation in order, a provider
is asked only when every call of its last answer has a result, and each request
is charged once.

### Events

Run events (`packages/run-events/src`): append with a per-Run sequence, an
outbox whose dispatcher leases rows, delivers them and acknowledges the batch
(at least once), replay after a cursor, server-sent events. The client side is
`packages/client-sdk` (stream with reconnection), `packages/presentation`
(`run-stream.ts`, the follower) and the desktop's `stream-broker.ts`. Correct when
a follower accepts events in order, none twice, and gets to the end of the log. Without
a gap only as long as the rounds of its own Worker bring what is behind its response
(section 7): a row that another Worker's round or a lost claim takes may be skipped.

Run controller (`packages/run-controller/src/controller.ts`): what the operator of
the Web page or the desktop window has selected and sees, the requests under way,
one event follower. Correct when late answers never put another Run's or an older
state on the screen, and never replace what the operator is typing.

### Runs on the user's machine

Runner link (`packages/runner-protocol/src`, `apps/worker/src/runner-gateway.ts`,
`apps/desktop/src/main/runner-broker.ts`): the desktop opens a WebSocket to a
Worker and says hello with its credential; the Worker looks the device up,
registers the session in its routing table, answers welcome with the position
to replay from. The Worker sends numbered commands; the device executes each
number once (`command-dedupe.ts`), answers with results that carry a cursor and
stay in a window until acknowledged (`event-window.ts`). `host-session.ts` is
the Worker's end, `runner-session.ts` the device's.

Desktop runner host (`apps/desktop/src/main/local-runner-*.ts`,
`packages/local-runner`, `packages/workspace`, `packages/host-sandbox`): serves the
four environment commands; journals each before and after (`run-journal.ts`),
asks the user for file access and stores the grant, runs in a managed Git worktree
behind a fence, and resolves a Run by keeping or discarding the worktree. The
next launch rebuilds its tables from the journal. Correct when no command is
executed twice, nothing is touched outside what the user agreed to as far as the host
enforces it, and what is on record has happened.

### Accounts and devices

Sign-in, sessions, memberships and the routes of `apps/worker/src/api.ts`; device
binding (`packages/device-binding`): codes minted under a limit, exchanged once
for a device credential, devices authenticated and revoked. On the desktop, the
client SDK's cached credential and the secure store (`packages/secure-store`) with
its two backends and the migration from the weaker one. Correct when one-time
secrets are redeemed once, a revoked or expired credential is nobody's, a Run is
sent only to a device of its creator, and a saved credential is not lost by a
migration that is interrupted.

### Other parts

Project instructions and globs, contracts and presentation are pure functions over
data. The verifier and the Docker environment talk to external programs. Golden
evaluations and the test harness are test infrastructure. The Web and desktop
applications are user interfaces over the controller.

### What is hard here

* Interleaving at every `await`: an engine call works on a snapshot it read
  several awaits ago, while other calls of the same process and of other
  processes change the row, the lease, the ledger and the handle registry. The
  same holds for the controller's operations and for handlers of the API.
* Crash and restart of a Worker, or of the desktop, between any two statements;
  the same identity comes back with none of its memory.
* Leases that lapse under a driver that is alive, and clocks that disagree.
* Side effects outside the database: a tool call cannot be rolled back, so its
  claim must precede it and its result must not be lost or told wrongly; a
  worktree that is removed cannot be brought back.
* READ COMMITTED statements that decide on what was committed when they began;
  sequence numbers that are drawn before their row commits.
* Sockets that die half-way, frames that are lost or replayed, ids that must
  stay fresh across sessions and restarts of two processes.
* Decisions that outlive what they were made for: grants, rules, reviews.
* Liveness that depends on a chain of jobs, each sent by the one before it.

`PROJECT.json` lists under "hazards" each concrete instance at its line, with
the properties that watch it, or the reason why none does.

## 2. Plan and what is left of it

| modules | state |
|---|---|
| `LeaseFence`, `RunLease` | modelled; all its properties proved |
| `RunLifecycle`, `RunEngine` | modelled; types, every safety and action property and the refinements proved; only the takeover's liveness is left to TLC |
| `RunBudget` | modelled; types, the limits on counted calls and `ChargedOnce` proved; the token limit model-checked under its hypotheses (section 4) |
| `SteeringMailbox` | modelled; its three properties proved |
| `ProjectPolicy` | modelled; its three properties proved |
| `LocalRunner` | modelled; types and all four properties proved |
| `WorkerRecovery` | modelled over `RunEngine`; types, `ScanGoesOn` and, through restarts, the engine's safety and refinements proved; `TakenOver` model-checked |
| `EventFeed`, `RunEvents` | modelled; types and the refinement proved for any number of Workers; liveness model-checked with one |
| `ModelTurn` | modelled over `RunBudget`, and proved to refine it; `ConversationKept`, `AskedWithEveryResult` and `ChargedOnce` proved |
| `RunConsole` | modelled; types and all three properties proved |
| `DeviceAccess`, `DesktopCredential` | modelled, the second over the first; types and all five properties proved |
| `RunnerLink` | modelled; types and both properties proved |

Left, in this order:

1. The retention sweep of artifacts against a Run that is still read.
2. Pure algorithms against a reference definition over bounded inputs: the
   command classification of `packages/policy`, the globs of
   `packages/project-policy-globs`, the replay codec of `run-events/src/sse-codec.ts`,
   the back-off of `runner-protocol/src/reconnect.ts`.
3. The composition of `RunnerLink` with `LocalRunner` (ids and the journal are in
   both, each with the other side reduced to what it may send).

The project keeps to twelve runs of one question each. Instances that show a
counterexample have a configuration of their own and are described in section 7.

## 3. Modules and how they correspond to the code

`map` in `PROJECT.json` gives the lines behind every definition. Properties are
defined at the end of the module whose state they are about. Definitions
marked "Slip" are single mistakes a programmer could make in the definition
that follows them; none of them is part of a specification, they serve to see
that a property can fail.

### LeaseFence

The promise of the lease: `owner` is the process that owns the row, `holder` the
task whose token the database still accepts, `live` whether it has not lapsed.
Actions `Acquire`, `Renew`, `Release`, `Invalidate`, `Expire`, `Drop`. Generations,
timestamps and SQL are absent. `Release` and `Renew` look at the owner only:
that is what the code does, and why a superseded task of the same process can
end or prolong its successor's lease.

### RunLease

The row and one action per statement of `postgres-run-lease.ts`. `lease_until`
is set from the Worker's clock plus a skew and compared with the database's
clock. `renew` passes the token's generation (`renewLease` of the engine),
`heartbeatRenew` does not. `release` sets `-infinity` and keeps the generation,
`invalidate` also increments it. A `crash` forgets a process's tokens.
`ImplementsFence` maps the row to `LeaseFence`.

### RunLifecycle

What a client may rely on for one Run: the status moves of the engine, and per
tool call "performed" and "reported". A call is performed at most once and only
while nothing was reported for it; the one report says "executed" exactly when
it was performed. Workers, leases, snapshots and crashes are absent.

### RunEngine

One Run, any number of processes and tasks. A task is one asynchronous call;
`pc[t]` is the await it is suspended at, so that one action is the code between
two awaits. `snap[t]` is the snapshot it works on.

| in the module | in the code |
|---|---|
| `run`, `current`, `outer` | the row of `run_engine_runs`; the version column is abstracted to the tasks whose snapshot carries the row's version. `outer` is the snapshot of the caller's frame: `drive` replaces only its own parameter |
| `ledger`, `approvals`, `slot` | the tool-call ledger, the approval ledger, the admission row |
| `owner`, `holder`, `live` | the lease, through `LeaseFence` |
| `registry`, `aborted`, `notices` | RunHandleRegistry of each process, AbortControllers that fired, NOTIFYs under way |
| `effects` | what the environment was really told to perform (history) |
| `start`, `recoverExpired`, `command` | the entry points |
| `acquireLease` .. `closeBudget` | lease acquisition and release, `persistEvents`/`transition` with renewal, compare-and-swap and budget closure |
| `resume`, `recoverEnvironment`, `cancel`, `answer`, `approval`, `decide`, `rejected`, `approved` | what each call does once it has read the snapshot |
| `prepared`, `waitLost`, `prepareFails` | `prepareAndRun` |
| `loop` .. `driveFails` | the iterations of `drive`: fresh read, budget, model turn, question, tool call |
| `authorize*`, `claim`, `perform`, `performed`, `performEnds`, `complete`, `dispose` | `performWith`: policy verdict, ledger claim, side effect, completion |
| `borrow`, `verified`, `verifyFails`, `cleanup` | the end of the loop: handle, verifier, terminal status |
| `heartbeat`, `notify`, `notifyLost`, `expire`, `crash` | the renewal timer, the cancel channel, time, and process death |

Abstracted: texts (a call is a number with a tool and a policy verdict), the
amounts of the budget (`withinBudget` or `failBudget`, chosen freely), artifacts and
run history. A tool has one capability hash, so a run-scoped grant covers every
call of the tool; capabilities of their own, rules and reviews are in
`ProjectPolicy`, steering in `SteeringMailbox`.

### WorkerRecovery

Extends `RunEngine` by the processes and the recovery scheduler, and restates its
`crash` and `recoverExpired`: a process boots, drains and stops
(`apps/worker/src/worker-host.ts`), or dies; the scan is a job that, when it has sent
a job for the Run it found, sends the next scan (`recovery-worker.ts:149`); a Run's
job calls `resume` in the process that took it. pg-boss is external and modelled as
the handlers use it: a queue of policy "short" keeps one created job, the job of a
process that died comes back after it expires, a send in the slot of an earlier one
with its singletonKey creates nothing.

A scan that comes to nothing (`scanFails`, a death, a stop) is retried or given up
(`retry`). The queues are created with a retry limit of 20 for scans and 5 for Runs
(`recovery-worker.ts:106,113`); the retries are not counted, so that any failure may be
the last. `givenUp` remembers that a scan was given up and none has been sent since: the
chain is then broken until a process boots. A Run's job that is given up is one that
never expires; a later scan sends another. `recoverable` and `scan` speak of one Run and
so leave out the page of 50 rows (section 8).

### RunBudget

The tables of `postgres-run-budget.ts`. The three statements that decide on what
they saw when they began (`open`, `reserveModelRequest`, `close`) are two steps,
begin and commit; the advisory lock is taken inside the statement and so does not
renew its view. Single-row UPDATEs re-check the row and are one step. `phase`,
`deciding` and `granted` belong to the callers: how far the driver got with a
request, and which counted calls it was allowed. Tokens and cost are one amount;
the wall-time limit, pricing and warnings are left out.

### ModelTurn

Extends `RunBudget` by the driver of each Run and the adapter of one protocol.
`talk[r]` is where the driver is, the continuation that is stored and the one it
works on, the queue of calls left of a batch; `past[r]` is what was really answered
and obtained, `sent[r]` what the last request carried. `onRequestStart`, `create`,
`onUsage`, `onRequestFailure`, `onBeforeModelRetry` are the hooks of
`requestValidatedTurn` in their order, `nextQueued` and `ask` the two ways of `next()`,
`storeCall` and `resultStored` the driver's saves. A crash forgets what was not saved.
A message is a batch of calls or a result; a call is a number with its kind and
whether its arguments are JSON.

### SteeringMailbox

The statement of `enqueue` is a sequence of steps: it looks for its command, draws a
number, is blocked by an uncommitted insert of the same command or commits with its
event; it may fail. A driver reads the mailbox after its copy's cursor, stages, asks the
model and stores the turn, each save a compare-and-swap (`fresh`). `told` is what
stored turns gave to the model.

### EventFeed and RunEvents

`EventFeed` is the promise to one follower: events are appended, and accepted in order,
none twice, until the follower stops. None is skipped either, but by a response that was
*bypassed*; the next response goes on where the follower stands. `RunEvents` has the log,
the outbox rows, each Worker's dispatcher with the batch it claimed, the SSE response
with its backlog and live part, and the follower with its cursor. `dispatchOnce` claims,
delivers a row, or acknowledges the batch. The faults are `claimLost` (the claim commits
and its answer is lost, or cannot be parsed: `postgres.ts:176-231`), `ackFails`, `lapse`,
`restart` and `disconnect`; `expire` ends the lease of rows that no round has in hand.

`feed.bypassed` is history and true when rows behind what the response has sent and read
were claimed by another Worker's round, or by a claim whose answer was lost. The
broadcaster of this Worker then may deliver later rows first, and `sse.ts:79-86` drops the
earlier ones when they come. `Feed` refines `EventFeed` by the identity on `log`, `seen` and
`stopped` and by `feed.bypassed`.

### RunConsole

The controller, with one variable per field of its state that the properties tell
apart. An operation (`op[i]`) is a click followed by requests; each answer is a step of
its own, between which other operations, events and answers come. Inspections of one
Run are merged as the code merges them: all who wait for an answer continue together.
A Run is its version; version v has v events, the last is terminal, version 1 waits for
an approval. The follower is given events as `EventFeed` promises.

### LocalRunner

| in the module | in the code |
|---|---|
| `journal`, `stored`, `tree` | run-journal.jsonl, grants.json, the managed worktrees: they survive a `Relaunch` |
| `entries` | the session's dedupe table, seeded from the journal at launch |
| `step`, `held` | where the handler of each id is, and the scope of the environment it was started with |
| `prepared`, `runs`, `decision` | environments of this launch, `runsById`, `firstDecision` |
| `Receive`, `ReceiveAgain`, `Answer` | a command that arrives, or arrives again, and the answer to it |
| `resolveGrant`, `issue`, `decline` | the stored grant, the dialog, and the user who declines |
| `buildEnvironment` .. `prepare` | the worktree, the record, the environment |
| `planSpawn`, `touch`, `runCommand`, `perform` | the fence, the process and what it touches, its end, the outcome on record |
| `inspect` | reading the changes of the worktree |
| `resolve`, `resolveRunOutcome`, `recordResolved`, `cleanupWorktree`, `dispose` | the check for a decision, keep or discard in Git, its record, the removal, the answer |
| `consents`, `ran`, `reached`, `found`, `discarded` | history: what was agreed to, executed, touched; what a discard found in the worktree, and what is on record as discarded |

The commands of a Run overlap freely: `Receive` asks only that the handle a command names
was answered. The engine does send a dispose from a cancel (`run-engine/src/index.ts:855-872`)
and from its driver (1587-1590, 1641) while a perform is still being killed, and prepares
again while a dispose whose answer was lost goes on (837-846). A tree is the set of ids whose
work is in it. A process ends with its handler or with the desktop; a process it left
behind is not modelled.

`Tiers` is what the host enforces of each scope (the kernel, only the fence over the
arguments, nothing, or a refusal), and an argument of a command has two sides: the `place`
that is touched in the end and the place that is `judged`. They differ because the fence
judges a relative path against the directory of the desktop's own process
(`path-fence.ts:121,141`, called without a directory in `seatbelt-sandbox.ts:65` and
`windows-sandbox.ts:50`), and does not judge flags, `--out=/x`, bare words and what is inside a
string (`path-fence.ts:244-273`). `allowed` is what is judged, `confined` what the kernel holds
to where the tier has it. A symbolic link that is changed after the judgement is an
argument that was not judged; the system paths that Seatbelt lets everybody read are not
places.

`MissingPathResolves` says whether the platform resolves a path that does not exist
yet. The code canonicalizes the worktree before it is there (`electron.ts:175-176`), so
that with FALSE every first prepare is refused; the run takes TRUE to look behind that.

### DeviceAccess and DesktopCredential

`DeviceAccess` is the Worker: every statement of a request is a step, `req[r]` keeps
what the handler read. `arrived` bounds the requests. `PredicatePassed` says whether
`isDeviceAuthorizedForProject` reaches the API handler, which `http-server.ts:114-135`
does not do; the run takes TRUE. Login states and sessions expire when they are looked
at; codes and devices at any moment, those of `Expiring`. `Founded`, `Minted` and
`Bound` are what the database holds when the model begins: either codes or devices.
`DesktopCredential` extends it by the desktop: the files of the two backends, the launch
(selection, migration, purge), the cached credential, and what the main process does
with each answer. A request of the desktop (`own`) is acted on, one of a browser only
served. `revokeDevice` reads and updates in one step because a device never changes
hands; `clear` of the store is one write.

### ProjectPolicy

The Runs of one project. `rules` is every version of every rule, `approvals` the ledger,
`reviews` the audit, `snap` the stored Run with what it remembers of decisions, `drv` the
call of the engine that drives a Run (one at a time, `RunEngine` has the lease), `routed`
the commands that passed the role check of `api.ts` and have not been carried out.
`authorize` keeps the order of `packages/policy/src/index.ts`: fixed denials, domains the
project lists, the Run's denied commands, the project's rules, the mode. A tool call is
one step here. `Routed` is the type of an approval command.

### RunnerLink

One device, its successive sockets, one Worker process and its restarts.

| in the module | in the code |
|---|---|
| `runner` | RunnerSession plus broker state: bound socket, welcomed, terminated, highest id seen, retry scheduled, state shown |
| `command` | the dedupe table and its handlers: unknown, accepted, running, settled |
| `window` | replay window and its cursor |
| `journal` | the durable journal: the call of each started command |
| `session` | HostSession per socket: phase, look-up under way, next id, consumed and acknowledged cursor, pending commands |
| `gateway` | the gateway's maps for the device: routed session, next id, consumed cursor |
| `up`, `down`, `cut` | frames on the way, and sockets that are dead; `drop` kills one, and each end notices in a step of its own |
| `answer` | what the caller of a call was told, and by which execution |

`tickClose` is every reason the Worker has to close a session (missing heartbeat,
hello timeout, revoked device): all of them send a goodbye first. `stopWorker` is
an orderly stop or a crash. `relaunch` is the death and new launch of the desktop
process with recovery from the journal. Heartbeats appear only as the timeout
they cause; progress events do not appear because nothing in `src/` emits them.
Cursors of the window are drawn one by one and only its oldest frames are forgotten, so
that the frames after a cursor are its last ones (`After`). Table and window keep every
entry: their limits, 512 and 256, are far above what
a device has in flight, and ids only grow.

### The MC modules

Instances for TLC: sets of model values, functions over them, and the symmetry of two
of them. `RequestSymmetry` of `MCModelTurn` permutes requests, which are only names;
`Sym` of `MCDesktopCredential` permutes slots and session tokens. Tasks and processes
are never symmetric: they are tied to each other.


## 4. Runs

| run | instance | states | shows |
|---|---|---|---|
| `lease` | 2 processes x 2 tasks, skews {-2, 0}, lease of 1 tick, clock to 3, 4 generations | 11 360 | `OneAcceptedToken`, `StaleStaysStale`, and that the SQL implements `LeaseFence` |
| `engine` | 1 process, 1 task, every command, tool and verdict, 2 turns, 2 entries, 1 crash, 1 error | 1 261 285 | a waiting Run is answerable; only what was approved runs; a pending call is consumed with its result; the engine implements `RunLifecycle` |
| `failover` | 2 processes, 1 task each, cancel, 1 turn, 3 entries, 1 crash, 1 expiry under a living holder | 1 199 330 | `AtMostOnce`, `ResultsTruthful`, `NoRevival`, `LeaseContract` |
| `takeover` | 2 processes that boot, drain, stop and die, 1 task each, 1 call, 1 crash, the job queue with its last retries, fair | 344 004 | `ScanGoesOn`, `TakenOver` |
| `turn` | 1 Run, 3 protocols, 3 requests, answers of 1 or 2 calls, 2 answers, malformed calls, 1 instruction, 1 crash | 590 232 | `ConversationKept`, `AskedWithEveryResult`, `ChargedOnce`, `GrantedWithinLimit` |
| `events` | 1 Worker, 3 events, batches of 2, 1 crash, 1 lapse, 2 failures, fair | @@EVENTS@@ | `ImplementsFeed`, `EventuallySeen` |
| `steering` | 2 processes, a driver on each, 3 POSTs of 2 commands, pages of 1, 3 turns, 1 crash | 110 979 | `InstructionsInOrder`, `OneMessagePerCommand`, `StagedIsTold` |
| `console` | 3 Runs (one created on the way) in 2 projects, 2 overlapping operations, 1 failure | 1 368 807 | `NoForeignView`, `NeverBackwards`, `EditSurvives` |
| `link` | 2 calls, 1 abort, 2 sockets, 1 restart of either side | 793 135 | `AnsweredByOwnExecution`, `NothingRunsUnattended` |
| `desktop` | 1 Run, 3 commands that overlap, 2 launches, 2 scopes under the tiers of Windows, 4 arguments | 2 260 971 | `AtMostOnce`, `ConfinedToConsent`, `AnsweredMeansDone`, `RecordedMeansDone` |
| `access` | 2 users, 2 devices, 3 codes, 3 requests of which 2 at most of the desktop and 2 of browsers, 2 launches, a limit of one live code; the database holds at first either a code or a bound device, which may expire | 889 445 | `SavedIsKept`, `RedeemedOnce`, `RefusedAfterRevocation`, `OwnDeviceOnly`, `LiveCodesBounded` |
| `policy` | 2 Runs of 2 calls and 1, 3 roles, 2 decisions, 1 crash, a command that controls the host | 5 219 858 | `DenialsHold`, `PerformedIsJustified`, `SupersededStaysSuperseded` |

Why the instances reach the cases they are meant for:

* *lease*: three takeovers and one invalidation fit into four generations; the
  skew -2 makes a lease that is in the past when it is written, 0 one that is
  not. Four tasks give a successor in the same process and one in another.
* *engine*: two turns let a call follow a call, a question follow a call and a
  run-scoped grant meet the call after the one it was given for.
* *failover*: one call is enough for two drivers to race for it; the expiry
  lets the second one start while the first is alive, the crash while it is
  not. The loser of the race is a living, superseded driver: the hard case.
* *takeover*: a process dies with a job in hand, with a scan in hand, or between
  its two sends; the other may be up, draining or not yet started.
* *turn*: with two answers of two calls each, a result is followed by a queued
  call or by a request; the third request is the replay of a malformed answer;
  a crash falls between any of the saves. The budget closes at any time.
* *events*: a batch of two that is delivered and not acknowledged, or claimed by a claim
  whose answer was lost, comes again beside a later row; the third event reaches the
  response before it. Two failures let a reconnection follow the lost claim.
* *steering*: the repeated command overlaps its first copy on the other Worker;
  pages of one make a turn see a prefix of the mailbox; two drivers make one of
  them work on a copy that is no longer the row.
* *console*: of two operations one is answered late, after the selection, the
  project or the session changed; a Run has three versions, so that an answer can
  be older than the view by one and by two.
* *link*: the second socket is what makes a reused id, a replayed frame or a
  late look-up possible; the restart resets either end's memory; the abort takes
  an id from the same counter as the calls.
* *desktop*: any three commands overlap once a prepare was answered: two disposes, a
  dispose and a second prepare, a perform and a dispose; each is interrupted by the
  second launch at any step. The arguments are a bare word, a path that is named, a
  relative path that is taken for another, and a string that is not looked into.
* *access*: three overlapping requests let an exchange, a revocation and a request
  that presents the credential meet; the second launch reads what the first left
  in the middle of a migration.
* *policy*: a rule born in one Run meets the other Run, which denies what the rule
  allows; it is replaced by the second decision; the crash separates the rule from
  its approval. One command controls the host and is denied whatever the rules say.

Deadlock is not checked: every instance has bounded crashes, calls, commands or
sockets and stops when they are used up, and a Run that ended has nothing left to
do. Liveness is stated where something must go on.

`AskedWithEveryResult` and `ChargedOnce` are about single requests: `MaxOverlap = 1`
in the configurations says that one driver at a time asks for a Run, which the lease
gives as long as no lease lapses under a driver that is alive. `Usages` says that a
provider reports at most the envelope of its request. Neither is guaranteed by the code,
which lets a superseded driver finish its request and records a larger report as it is.
`RunWithinLimit` (`RunBudget.cfg`) holds under both and not without them, so it is an
observation about that instance and not one of the project's results.

For every property the project keeps at least one mutated definition (listed in
`PROJECT.json`), such as a compare-and-swap that does not compare, a claim that is not
unique, an abort that borrows its target's id, an acknowledgement before the
delivery, a merge that takes the later answer, with which the same run finds the
property violated.

### Configurations beside the runs

| configuration | module | outcome |
|---|---|---|
| `RunEngineApprovals.cfg` | `MCRunEngine` | two tasks of one process that decide the same approval, or one decides while the other drives: `PerformedAsApproved`, `PendingCallConsumedOnce` hold, 941 580 states |
| `RunBudget.cfg` | `MCRunBudget` | two Runs of two users under a common monthly limit: `ChargedOnce`, `RunWithinLimit`, `GrantedWithinLimit` hold, 180 916 states |
| `AdmissionOversubscribed.cfg`, `QueuedRunLost.cfg`, `VerifierErrorStrands.cfg`, `GoodbyeEndsDevice.cfg`, `LateAuthentication.cfg`, `ConversationDropped.cfg`, `SteeringUnheard.cfg`, `LogoutUndone.cfg` | the module of the same subject, section 7 | each ends with a counterexample |

Instances tried with other values in the place of those of a run's configuration:

| configuration | instance | outcome |
|---|---|---|
| `LocalRunner.cfg` | the tiers of macOS (`Tiers <- MacOS`) | its properties hold, 2 182 589 states |
| `LocalRunner.cfg` | two Runs, one scope, a bare word | hold, 1 183 886 states |
| `LocalRunner.cfg` | three launches, one scope, a bare word | hold, 238 762 states |
| `LocalRunner.cfg` | `MissingPathResolves = FALSE` | hold, 1 244 states |
| `RunEvents.cfg` | two Workers | `ImplementsFeed`, `EventsTypeOK`, `DeliveredMeansGiven` hold; `EventuallySeen` is violated (section 7) |

Four commands of one Run in `LocalRunner.cfg` do not finish in reasonable time.

Some definitions state what one might expect and the code does not keep, or keeps for
another reason. They are tried by putting them in the place of a run's properties:

| property | configuration | outcome |
|---|---|---|
| `FollowsSelection` | `RunConsole.cfg` | violated |
| `NoCrossProject` | `RunConsole.cfg` | violated |
| `NoInstructionSkipped` | `SteeringMailbox.cfg` | violated |
| `EveryEventSeen` | `RunEvents.cfg` | violated |
| `RecoveredIsResolvable` | `LocalRunner.cfg` | violated |
| `KeptWorkRemains` | `LocalRunner.cfg` | violated |
| `FirstDecisionWins` | `LocalRunner.cfg` | violated |
| `AnsweredIsResolved` | `LocalRunner.cfg` with four commands, one scope, no arguments, one launch | violated |
| `DeliveredMeansGiven` | `RunEvents.cfg` | holds: a row is marked delivered only after a live response that was not bypassed was given it; proved in section 6 |

## 5. Fairness

`takeover` uses `FairRecoverySpec`, weak fairness of

* `work(t)`, `takeJob(t)`: a promise that was called settles, and a process that polls
  the queue takes a job that is there. The code runs in an event loop that does not
  starve a continuation; the environment, the provider and the database answer or
  reject, for which the code has timeouts.
* `boot`, `stopped`, per process: a process that is down is started again by whatever
  deploys it, and a drain ends, for which `worker-host.ts` has a limit of 30 s.
* `scan`, `sendRun`, `chain`, `jobEnds`, per process: the handlers of the queue run.
* `slotPasses`, `timePasses`: time passes, so that a throttling slot ends, the job of a
  dead process comes back, and the lease of a dead driver lapses.

Nothing is assumed about users, heartbeats, errors or crashes. `TakenOver` therefore
ends at "waits for a user", and also at "verifying" and "cancelling": what happens to a
Run that crashes there is a subject of section 7. The instance has crashes and
no other fault: with errors, or with leases that lapse under a living driver, the
property fails for the reasons in section 8 (a handle that is still registered, an
error recorded from a stale snapshot).

`TakenOver` also ends where the queue gave the scans up: nothing in the code then starts
another before a process boots.

`events` uses weak fairness of the follower, and of each Worker's `dispatchOnce` and
`expire`: the dispatcher is a timer (`dispatcher.ts`), leases end by the clock, the follower
reconnects as long as it is not stopped. Bounded faults are not fair. All other runs check safety only.

## 6. Proofs

All theorems hold for every value of the constants allowed by the named
assumptions (`RunLeaseAssumption`, `LeaseFenceAssumption`, `RunEngineAssumption`,
`RunBudgetAssumption`, `SteeringMailboxAssumption`, `RunnerAssumption`,
`PolicyAssumption`, `AccessAssumption`, `DesktopAssumption`, `RunnerLinkAssumption`,
`ModelTurnAssumption`, `RunEventsAssumption`, `RunConsoleAssumption`): any processes, Runs and users, any placement of tasks, any skew,
any numbers of calls, crashes and errors. The assumptions say that bounds and limits
are naturals, that each task runs in a process, each request belongs to a Run and
there are finitely many of them, that a policy's sets are sets of calls, that what the
database holds at first is of its tables' types and within the limit of live codes, that
the kinds of secrets are apart, and that the values for "nobody" are nobody.

### RunLeaseProofs

The inductive invariant `IInv` is the types, `TokensIssued` (no token is above
the row's generation) and `TokensDiffer` (no two tasks were given the same
generation). `OneAcceptedToken` alone is not inductive: two equal tokens that
match nothing now would both match after the row moved on to them. With the
strengthening the next generation is above every token, so an acquisition
cannot revive one.

* `TypeCorrect`: `Spec => []TypeOK`.
* `AtMostOneDriver`: `Spec => []OneAcceptedToken`.
* `SupersededForGood`: `Spec => StaleStaysStale`. A token below the generation
  stays below; one of another owner differs from every generation to come.
* `LeaseIsFence`: `Spec => ImplementsFence`. `HolderMatches`, `HolderNone` and
  `HolderSame` compute the refinement mapping's CHOOSE; then one step per
  action.

### RunEngineProofs

`IInv` is `FenceTypeOK /\ RowTypeOK /\ WorldTypeOK /\ TaskInv`, where `TaskInv`
adds to the types of the tasks

* `CallInv`: a pending call is one the model made and not a question, and a task
  that is anywhere between authorisation and completion has one in its working
  snapshot (looking through the write in progress, `Awaiting`);
* `EffectInv`: a call without a ledger row has no effect; the ledger row of a
  call whose task is between claim and completion says "executing"; of a call
  about to be performed nothing has run; two tasks are never there with the same
  call.

`AtMostOnce` is not inductive: it needs "whoever is about to perform is alone and
nothing ran yet", which rests on the claim being made once and never undone.
The four ways a task moves (`GotoInv`, `PersistOrInv`, `EnterInv`, `ResetInv`) are
lemmas; each action has a lemma `<action>Step`, and `NextIInv` is the case split.

* `TypeCorrect`: `Spec => []TypeOK`.
* `ExecutedAtMostOnce`: `Spec => []AtMostOnce`. The lease plays no part in this
  argument: the ledger alone carries it, so it holds also when leases lapse
  under living drivers.
* `EngineKeepsLeaseContract`: `Spec => LeaseContract`: every step of the engine
  is a step of `LeaseFence` or a stutter. With `LeaseIsFence`, what the engine
  does with the lease is what the SQL provides.

The second half is about what people approve and what the model is told. Its invariant
`TruthInv` has two sides.

* `Books` is about the copies of the Run: the row and every task's working snapshot. Most
  of them are stale, and a stale one can become the row only through the
  compare-and-swap; still all of them keep the same books. `AskedInv`: only a call whose
  policy says "ask" comes to the approval ledger, and no copy holds a grant that
  contradicts the decision. `SameGrants`: copies with the same undecided call have the same
  run-scoped grants. `CopyInv`: the results of a copy are of different calls, none of them
  pending, and each has `Grounds` (a completed ledger row, a denying policy or decision, or
  a run-scoped rejection that every copy shares, `Barred`). `RanInv`: what ran is
  `Justified` the same way. The copies of the next state are those of this one, or one of
  them with one change (`Descend`), so that most actions have nothing to show.
* `At(t)` is what a task knows at its await: the status of its snapshot (`StatusAt`), which
  of the two frames it writes from (`DriveAt`), the permission it carries to the side effect
  (`CallAt`), that whoever is current writes one `Change` of the row (`CurrentAt`), and
  that the caller's frame can still record a failure (`OuterAt`).

None of the properties is inductive: they look at the row, while the next row is some
snapshot that was read awaits ago. `Change` is a status move of `RunLifecycle` or one
report, and `RowOrEffect` says that a step changes the row by one save, or the effects by
one perform, or neither. From this the action properties and the refinement follow.

* `EffectsAreApproved`: `Spec => []PerformedAsApproved`.
* `ResultsAreTrue`: `Spec => []ResultsTruthful`.
* `WaitsAreAnswerable`: `Spec => []WaitIsAnswerable`.
* `FinishedStaysFinished`: `Spec => NoRevival`.
* `PendingCallIsAnswered`: `Spec => PendingCallConsumedOnce`.
* `EngineImplementsLifecycle`: `Spec => ImplementsLifecycle`. What was told is computed from
  the results by a CHOOSE; `ToldGrows` says that one more result changes it at one call.

The last part is about `WorkerRecovery`, whose processes and job queue stand in the place of
`crash` and `recoverExpired`. Its steps are those of the engine or one of three others
(`EngineOrBeside`): the end of a process, a job that resumes a Run, a stop or failed scan.
They keep `IInv` and `TruthInv`; for the job this needs that it is one of a Run that
exists (`JobInv`: the job came from a scan that found the Run, through whatever hands).
`ScanGoesOn` is not inductive because a Run may be stored by a task that began earlier;
`RecInv` says that something that leads to a scan is there from the first boot on and is
only ever handed on.

* `ScansSurvive`: `RecoverySpec => []ScanGoesOn`: no death, shutdown, failure or overlapping
  chain leaves the Workers without a scan to come, unless one was given up after its last
  retry and none was sent since.
* `SafeThroughRestarts`: `RecoverySpec => [](AtMostOnce /\ PerformedAsApproved /\
  ResultsTruthful /\ WaitIsAnswerable)`.
* `RecoveryImplements`: `RecoverySpec => LeaseContract /\ ImplementsLifecycle`.
* `RecoveryTypeCorrect`: `RecoverySpec => []RecoveryTypeOK`.

### RunBudgetProofs

`IInv` adds to the types `CountedFirst`: what was granted and what is being
decided together never exceed the stored count. `GrantedWithinLimit` alone is
not inductive, because a decision looks at the stored count and not at what was
granted. With `CountedFirst` a decision that finds the count within the limit
finds room for itself, even when other drivers count between its UPDATE and its
decision. Every other action leaves the counters alone (`SameCounters`), which
`ChargeType` shows once for settling, forfeiting and reconciling.

* `TypeCorrect`: `Spec => []TypeOK`.
* `NeverOverLimit`: `Spec => []GrantedWithinLimit`, for any number of drivers.

What a Run was charged is equated with a sum over its requests. `ChargeInv` is
`ChargedOnce` with `OpenedOnce` (an admission that has not committed finds no row of its
Run, a closing finds one), `OneReserved` (a Run has one active reservation at most, so that
closing or reconciling it forfeits one request) and `ReservedLater` (a request that has not
reserved has no reservation). A request that is settled after it was forfeited changes
nothing, because its reservation is active no more. That one term changes the sum by its change
(`SumOf`, `SumIsAdded`, `SumUnique`, `SumWithout`) is induction over a finite set; it is
done without the library's induction theorems, by the set of the subsets without a sum and
a smallest one among them (`SumExists`).

* `RequestsAreChargedOnce`: `Spec => []ChargedOnce`.

`ModelTurn` is proved about in the same module. `TurnStep` shows that each action of the
driver and its adapter is an action of `RunBudget` or leaves its tables alone, given that
the driver is where its phase says.

* `TurnsSpendByTheBudget`: `TurnSpec => Spec`.
* `TurnsWithinLimit`: `TurnSpec => []GrantedWithinLimit`, and `TurnsAreChargedOnce`:
  `TurnSpec => []ChargedOnce`, from it and the theorems about the budget.

`TalkInv` is, for each Run, `Position` (a call is stored before its result, and a request is
built only when nothing of the last answer is left), `Stored` (what was answered and
obtained ends with the last answer and the results of all of its calls but those in the
queue), `Kept` (the continuation is the conversation, except in the Messages protocol) and
`Returned` (a turn that was returned hands out the next call). The facts about lists that
this needs (`ValidBatch`, `ValidResult`, `ShiftHead`) compare positions and need no
induction.

* `ConversationIsKept`: `TurnSpec => []ConversationKept`.
* `AskedWithResults`: `TurnSpec => []AskedWithEveryResult`. Both look at the continuation at
  the moment of a request; what makes it right was stored several turns and perhaps a
  crash earlier.

### UserProofs

The module holds the proofs about three components, both directions between a user and
a Run.

For `SteeringMailbox`, three invariants, each on top of the one before.

* `MInv`: the types, `OpenApart` (an open insert has a number of its own, its command is
  not stored yet, and of two inserts that drew a number no two carry the same command)
  and `OneMessagePerCommand`. The last is not inductive without it: an insert that
  commits must not meet its command in the table.
* `CopiesInv`: a driver whose copy is fresh has the row itself in its hands. This
  is what the compare-and-swap gives, and why a second driver's turn cannot be stored
  on top of the first one's.
* `OrderInv`: everything given or staged is in ascending order and not after the
  cursor of the row, and the page of a driver whose copy is fresh is after it.
  `EveryRank` is the lemma on finite sets of numbers that the page needs (the first
  k of what is after the cursor).

Theorems, for any Workers, drivers, POSTs and pages:

* `CommandStoredOnce`: `Spec => []OneMessagePerCommand`.
* `StagedNeverDropped`: `Spec => StagedIsTold`.
* `ToldInOrder`: `Spec => []InstructionsInOrder`.

For `RunEvents`, the promise of `EventFeed`, which is without a gap where the response was
not bypassed. `EventsInv` is

* `RowsInv` and `ClaimsInv`: log and outbox grow together, a row that a round has in hand is
  not free, and the free rows are the last ones, since rows are claimed in order;
* `FeedInv`, which is the types, `SeenInv` (what is in the pipe of such a response continues
  what the follower accepted) and `GivenInv`: what is not free it has, from the backlog or
  live, or gets from its Worker's round, and what it has is without a gap. This carries
  the argument that no event falls between the backlog and the live part: a row that was
  free when the backlog was read is delivered later by the round that claims it, or
  bypasses the response, and any other is in the backlog.

`bypassed` is set by the claims only, so the theorem does say when the stream may have a gap.
Theorems, for any Workers, length of the log, batch size and number of faults:

* `EventsTypeCorrect`: `EventsSpec => [](EventsTypeOK /\ DeliveredMeansGiven)`.
* `StreamImplementsFeed`: `EventsSpec => ImplementsFeed`.

For `RunConsole`, one invariant, `ConsoleInv`. `ViewInv`, `TimelineInv`, `ShownInv` and
`ScopeInv` are `NoForeignView` with the types; `OpsInv` and `WorkInv` are the types of what
is under way. The status needs two more, about answers that have not come yet:

* `InspectionInv`: there is one inspection of a Run under way at a time, because a second
  one joins it, and what it has read is not newer than the server;
* `FreshInv`: the answer under way for the Run on the screen is as new as the screen. An
  answer is applied for all who joined at once (`ViewStep`), so that no older one is left
  behind; a Run that is selected again joins the inspection it left.

Theorems, for any Runs, projects, numbers of operations and failures:

* `ConsoleInvariant`: `ConsoleSpec => []ConsoleInv`, and from it `ConsoleTypeCorrect`:
  `ConsoleSpec => []ConsoleTypeOK`.
* `ScreenIsOfTheSelection`: `ConsoleSpec => []NoForeignView`.
* `StatusNeverGoesBack`: `ConsoleSpec => NeverBackwards`.
* `EditsSurviveRefreshes`: `ConsoleSpec => EditSurvives`. Each action either leaves the
  draft alone or calls `applyRunView`, which keeps an edited draft of the approval shown.

### LocalRunnerProofs

`IInv` is the types, `ConfinedToConsent` and

* `JournalInv`: what the journal says of a Run's preparation and resolution has a last
  word, and each of its entries about a command is of one that arrived, for its Run;
* `StartedInv`: what ran is on record as started, and what is on record as started is in
  the dedupe table; the handler of a command that has just begun ran nothing;
* `ConsentInv`: every grant that is stored, prepared or held by a handler was agreed to
  for its Run.

Theorems, for any Runs, scopes, tiers, arguments, commands and launches, with the commands
of a Run overlapping freely:

* `ExecutedAtMostOnce`: `Spec => []AtMostOnce`. Nothing is known of a command after a
  launch but the journal, so the argument is that the record precedes the execution and
  that the table is seeded from the record.
* `TouchedWithConsent`: `Spec => []ConfinedToConsent`. Under a tier that has only the fence
  it speaks of the arguments that were judged as the place they touch.
* `DiscardIsDone`: `Spec => []RecordedMeansDone`. The property says that what a discard found
  is gone, and its invariant `WInv` that it stays away: what is in a worktree is the work of
  commands that came as far as adding it, what a discard found was over, and a handler
  never goes back (`HandlerProgress`), so that nothing that was over is added again, by
  whatever overlaps.
* `AnswersAreTrue`: `Spec => []AnsweredMeansDone`. Its invariant `AInv` adds that a command
  is settled once (`Settled`) and what a handler has left behind before it settles
  (`Reached`): a prepare a handle that is found, or its Run has a decision; a dispose a
  decision of its own on record after it was started (`Decides`). One that was answered
  "already" has only some decision of its Run on record, which may be older than the
  prepare it was meant to end (section 7).

### ProjectPolicyProofs

`IInv` is the types, `DenialsHold`, `PerformedIsJustified` and

* `RulesOk`: a rule is made by an administrator from an approval of the capability it
  names, and no two versions come from the same approval;
* `CommandOk`: a command on its way has passed the role check for its scope;
* `RunOk`: the approvals of a Run belong to its calls so far and what it remembers as
  approved was (`AsksOk`), its driver acts on the pending call and on a verdict that the
  mode, a rule or a review gave (`DriveOk`), and a command names the pending approval and
  carries out what was asked or something narrower (`CommandsOk`);
* `PerformedOk`: only calls the Run has come to were performed.

* `DenialsAlwaysHold`: `Spec => []DenialsHold`.
* `PerformedAlwaysJustified`: `Spec => []PerformedIsJustified`. Neither is inductive:
  they look at what was performed, while a step performs on what was remembered.
* `SupersededForGood`: `Spec => SupersededStaysSuperseded`. A rule would come back only by
  being made from its approval again; the uniqueness of sources excludes that, even when
  a command is repeated after a crash.

### DesktopCredentialProofs

One argument carries all five properties: what a request checked still holds when it acts,
because everything it relies on changes one way only (`Onward`, `Later`). A login state that
is gone stays gone, a consumed code stays consumed, a row that belongs to somebody never
changes hands, a dead credential stays dead. `GoodOnward` then says that what the other
requests found out stays so, and each action has to show only its own request. `IInv` is
`Types` and

* `World`: a dead session or device shows it in its row, a used row has an owner;
* `Requests`: `Good` of each request, what it has found out by its step, by kind of request;
* `SecretInv`: `RedeemedOnce`, a redeemed secret is spent, and a login state that is consumed
  and not yet redeemed is in the hands of one request;
* `LockInv`: `LiveCodesBounded`, and who is about to insert a code holds its account's lock
  and counted less than the limit. The bound alone is not inductive;
* `OwnDeviceOnly` and `FileInv`: `SavedIsKept`, and at the deleting step of a migration every
  credential has its copy.

Theorems, for any accounts, projects, codes, devices, requests and launches:

* `DesktopTypeCorrect`: `DesktopSpec => []DesktopTypeOK`.
* `SavedCredentialsAreKept`: `DesktopSpec => []SavedIsKept`.
* `SecretsAreRedeemedOnce`: `DesktopSpec => []RedeemedOnce`.
* `DeadCredentialsAreRefused`: `DesktopSpec => []RefusedAfterRevocation`.
* `RunsGoToOwnDevices`: `DesktopSpec => []OwnDeviceOnly`.
* `LiveCodesStayBounded`: `DesktopSpec => []LiveCodesBounded`.

### RunnerLinkProofs

The heart is that an id the Worker issues is above every id the device has ever executed,
because the hello carries the device's highest one and the session counts on from it, or
from the gateway's own counter. `IInv` is

* `Typed`, and `Counted`: no id on the way, remembered or next to be issued exceeds the
  number of calls made and calls aborted, so that ids fit the constant `Ids`;
* `Waiting`: a call waits in one session under one id;
* `Remembered`: the device's table and journal are not above its mark, its window holds what
  it settled; `Stopped`: a device that was not welcomed has stopped everything;
* `Wires`: what each socket may carry by the phase of its session. Results on the way of a
  socket that says hello are not above the mark it brings; those on an open one fit the calls
  that wait. On the device's own socket the commands come in the order of their ids, none
  known before, and what the device remembers under a waiting id is that call's;
* `Attention`: what runs, or will run when a frame arrives, is waited for, or its abort or the
  end of its socket is behind it on the way.

The properties speak of answers and handlers only; without the frames on the way neither is
inductive, as an old result may still be travelling on a dead socket.

* `LinkTypeCorrect`: `Spec => []TypeOK`.
* `CallsGetTheirOwnAnswer`: `Spec => []AnsweredByOwnExecution`.
* `NothingRunsUnwatched`: `Spec => []NothingRunsUnattended`.

### What is only model-checked

Liveness under fairness (`TakenOver`, `EventuallySeen`) is outside what the prover
handles, and so is ENABLED. Every other property of a run is stated by a theorem.
`RunWithinLimit` of `RunBudget.cfg` is not: it rests on hypotheses that the code does not
guarantee (section 4). The library's induction theorems take an operator as a parameter, which the installed provers
cannot instantiate; the one fact over finite sets that was needed, about sums, is proved by
a smallest counterexample instead. No module uses a RECURSIVE operator. `TurnTypeOK` of
`ModelTurn` was checked once over the run's instance.

## 7. Where the code and its documentation disagree

Each of these but the last has a configuration, or a property to put in the place of those of a
configuration (section 4), and TLC ends with the counterexample.

* `VerifierErrorStrands.cfg`, `InterruptedRunIsStartable` (`run-engine/src/index.ts:1341`,
  the comment at 2154): when the verifier rejects after `drive` wrote `verifying`,
  `resume` records the failure from the snapshot of its own frame. The version no
  longer matches, the conflict is swallowed as "somebody else wrote a terminal state",
  and the Run stays in `verifying`, which no later `resume` acts on.
* `QueuedRunLost.cfg`, `InterruptedRunIsFound` (`run-engine/src/recovery-worker.ts:331`):
  a process that dies between storing the queued Run and the first lease leaves a Run
  without a lease row. The scan starts from lease rows and never returns it, although
  the engine's comment (`index.ts:568`) says that a restart loses no Run.
* `AdmissionOversubscribed.cfg`, `UserConcurrencyHeld`
  (`run-engine/src/postgres-run-budget.ts:259`): two Runs of a user opened at the same
  time are both admitted under a limit of one. The lock is taken by the statement that
  counts, after its view was fixed. The minting of device codes avoids exactly this with
  a function of its own; its comment in `device-binding/src/postgres.ts` explains why.
* `GoodbyeEndsDevice.cfg`, `ReconnectingCanReconnect`
  (`runner-protocol/src/runner-session.ts:258`, `envelope.ts:174`): every close of the
  Worker is announced by a goodbye, and the device treats any goodbye as the end of
  its session. The broker still shows "reconnecting"; its one retry returns at once
  and there is no other.
* `LateAuthentication.cfg`, `LiveIsRouted` (`apps/worker/src/runner-gateway.ts:100,173`):
  the look-up of a socket that is already dead may finish after that of its successor
  and then takes the device's entry in the routing table. The device is live and
  unreachable.
* `ConversationDropped.cfg`, `HistoryResent` (`anthropic-model/src/index.ts:922`, and
  `test/agent-model.test.ts:411`): the Messages adapter persists only the latest answer,
  so that a request after the second answer carries the conversation without the first.
* `SteeringUnheard.cfg`, `InstructionsReachProvider` (`openai-model/src/index.ts:641`): a
  turn that is served from the queue of a batch consumes the staged instructions; no
  request carries them.
* `LogoutUndone.cfg`, `LetGoIsGone` (`secure-store/src/select-backend.ts:148-149`): a
  credential that the user cleared comes back at the next launch from the backend an
  interrupted migration had left it in.
* `NoCrossProject` with `RunConsole.cfg` (`run-controller/src/controller.ts:624`): a Run
  created before a switch of the project is selected after it.
* `FollowsSelection` with `RunConsole.cfg` (`controller.ts:110,680`): the failing
  selection of a Run ends with following it although another one was selected since.
* `NoInstructionSkipped` with `SteeringMailbox.cfg` (`run-steer-mailbox.ts:145`): numbers
  are drawn before their row commits. A driver that read a later one has moved its
  cursor past the earlier one, which is never told.
* `RecoveredIsResolvable` with `LocalRunner.cfg` (`apps/desktop/src/main/electron.ts:219-221`):
  a Run that a launch recovered can be neither performed on nor disposed of until it is
  prepared again.
* `KeptWorkRemains` with `LocalRunner.cfg` (`run-engine/src/index.ts:1633-1635`,
  `local-runner-host.ts:217`): "keep" does nothing in Git, and the worktree with the
  edits is removed right after.
* `FirstDecisionWins` with `LocalRunner.cfg` (`local-runner-host.ts:123,169`: "the one that
  wins forever"): two disposes of a Run that overlap both find no decision, and the second
  to be recorded replaces the first.
* `AnsweredIsResolved` with `LocalRunner.cfg` (`run-journal.ts:217-219`,
  `local-runner-host.ts:169-181`): after prepare, dispose and prepare, another dispose is
  answered "already resolved" with the old decision. Nothing is recorded, the worktree
  stays, and the next launch finds the Run prepared.
* `EveryEventSeen` with `RunEvents.cfg` (`run-events/src/dispatcher.ts:134`,
  `sse.ts:79-86`, `presentation/src/run-stream.ts:11-12`; the dispatcher promises at least
  once): a claim of the events 1 and 2 commits and its answer is lost, event 3 is delivered,
  and when 1 and 2 come again the response drops them as old. The follower resumes after 3,
  so that the gap is permanent. With two Workers no fault is needed: a row is delivered to the
  subscribers of the Worker that claimed it, a later one of the other's makes the same
  gap. If there is no later one, the follower does not see it as long as it stays connected
  (`EventuallySeen` with two Workers).
* The doc comment of the lease (`postgres-run-lease.ts:23-33`) says that a renewal and a
  release increment the generation. The statements (100-106, 116-121) do not, as a comment
  beside the second one explains; `RunLease` follows the statements, and
  `OneAcceptedToken` and `StaleStaysStale` hold for them.

## 8. Observations

Met while modelling. Those marked (c) were reproduced in an instance of the
module; the others were read in the code.

### Engine, budget and lease

* (c) `cancel` has no status gate (`index.ts:865`): it writes `cancelling` and
  `cancelled` over `succeeded` or `failed`, after the terminal event at which
  clients stop reading. `NoRevival` allows this on purpose.
* (c) A process that dies between the terminal save and the closing of the budget
  (`index.ts:2111`) leaves the admission slot taken; no later call closes it.
* (c) A crash in `verifying` or `cancelling` leaves a status that is not startable
  (`index.ts:2631`).
* (c) A handle that is still registered is taken for a Run that runs
  (`index.ts:637`): after a failed save between registration and `running`, the
  Run stays in `preparing` as far as this process is concerned.
* (c) When the cancel NOTIFY is lost and a renewal failed, `withHeartbeat` stops
  ticking (`index.ts:2461`) and a long action runs to its end after the
  cancellation.
* (c) A reservation that commits while `close` runs is neither forfeited nor
  charged (`postgres-run-budget.ts:692`) and counts against the team's month as
  an active reservation of a finished Run. `ChargedOnce` is an equation while the
  Run is open and an inequality after.
* `recordAgentLoopFailure` writes from the snapshot of its caller (`index.ts:679`); a
  budget that is exceeded on the path of a command is recorded as `agent_loop_failed`.
* The cancel bus gives up listening for good after `RECONNECT_MAX_ATTEMPTS`; two
  disconnects may start two loops, which doubles the handlers (an abort is idempotent).

### Recovery

* The scan takes the 50 oldest leases (`recovery-worker.ts:342`). Waiting Runs keep a
  lease of `-infinity` and are not terminal, so fifty of them hide every other Run.
* Jobs of one Run are throttled per time slot (`singletonSeconds`), so that the promise at
  `recovery-worker.ts:143` ("coalesce one Run while its prior job is pending") holds within
  a slot only. A second job is harmless: the lease refuses it.
* Two processes can take turns over a Run in `preparing` whose handle is registered in
  one of them, after a lease that lapsed.
* The limit of 30 s on stopping may leave a resume running while the engine's
  database is being closed.

### Models

* Malformed arguments of a queued call fail the Run without a replay
  (`openai-model/src/index.ts:1338`, `docs/phase-0-status.md:70`), while those of the first
  call of a batch are replayed.
* Chat Completions rebuilds the first message with the staged instructions of this turn
  only (`index.ts:861`).
* An error body that is HTML is retried as a malformed answer.
* The Worker composes the OpenAI-compatible adapter only.

### Events and steering

* A steer that is accepted while the Run completes is stored and never told.
* An insert that waited for another one of its command ends with "could not be
  persisted" although the command is stored.

### Controller and desktop stream

* The inspection that follows a terminal event may be one that was already under way
  (`controller.ts:331`); the view then stays older than the event. If it fails, the page
  stays "live". A reconnection stops at a terminal status before it replays the rest.
* A Run that is selected twice has its timeline twice. A Run that was created before a
  logout is selected when the answer comes after it. A late list of devices shows a
  device that was revoked.
* In the desktop, going from one Run to another and back lets the first
  subscription's end cancel the new subscription (`stream-broker.ts`).

### Runner link

* (c) A result sent after the hello and before the look-up finished is refused
  with `auth_required` (`host-session.ts:289`), which the device takes for a dead
  credential: it stops.
* (c) A result that arrives before the frames the Worker asked to be replayed
  moves the consumed cursor past them (`host-session.ts:377`). Without effect
  today, because their callers were rejected with the old session.
* An error of the database in the device look-up is answered like a refused
  credential and stops the device. A device revoked by a goodbye is shown as
  reconnecting.
* A session that lost its entry in the routing table while half open is never
  ticked (`runner-gateway.ts:262`): its calls are neither answered nor rejected.

### Runner host

* The first prepare canonicalizes a worktree that is not there yet and is refused
  (`electron.ts:175-176`); `MissingPathResolves` in section 3.
* (c) The removal at the end of a dispose takes whatever worktree is there, also one that
  an overlapping prepare has just made (`local-runner-host.ts:217`).
* (c) A relative path of an argument is judged against the directory of the desktop's
  process and not against the worktree (`path-fence.ts:121,141`): it is refused although it
  lies in the worktree, unless that directory lies in the roots.
* A crash between "keep" and the removal strands the worktree. `compact` of the journal
  is never called. The grant store is written in place.
* A logout clears the stored grants; the session stays connected and prepared
  environments keep theirs. A grant agreed to in a dialog that was open is stored after
  the clearing.
* A failed inspect or dispose is not settled and is "interrupted" after a restart.
* Events of `desktop-runner` are keyed with the environment's id.

### Accounts and devices

* `http-server.ts:114-135` does not pass `isDeviceAuthorizedForProject` on (read at
  `api.ts`, supplied by `apps/worker/src/index.ts:1098`): as composed, every local Run is
  answered with 404.
* Two exchanges of one code both read it as unconsumed and both succeed
  (`device-binding/src/index.ts:350-380`). `RedeemedOnce` allows that: of
  codes it says only that no exchange that arrives later succeeds. A crash between consuming the code and inserting
  the device loses the code.
* The client SDK's cached credential survives a 401 and a logout within a launch; the
  401 of an old credential wipes a new one; `status()` may pick an older device.
* `purgeExpired` looks at the first credential only; a credential in the inactive backend
  survives a logout; a logout of the desktop revokes nothing on the server.
* `RefusedAfterRevocation` looks at the credential when the request arrives. A credential that
  is revoked between the authentication of a request and its use is used once more.
* `SavedIsKept` means that the secret is in one of the two files; what an interrupted copy
  leaves in the backend that is not selected stays there.
* A device that expired is accepted at the creation of a Run. Minting a code checks no
  membership. `provisionUser` fails on another account's e-mail; the first membership is
  inserted without ON CONFLICT.

### Policy

* A crash between setting a rule and deciding its approval leaves an active rule whose
  approval may be decided otherwise. `set` returns a new id when it is repeated.
* An approval performs without authorizing again, so that a deny rule made after the
  ask does not count; a project's allow rule goes before a denial remembered for the Run.
* The Worker composes the engine's policy with the audit and the rules only
  (`apps/worker/src/index.ts:990-993`): the `askDomains` and `protectedPaths` of a
  `project.yaml` are never bound.

## 9. What is not modelled

* Components with status `not_modelled` in `PROJECT.json`: artifacts and retention (files
  and a sweep that shares nothing with a Run but names), the verifier and the Docker
  environment (external programs, whose outcomes and errors the engine takes as free
  choices), contracts, presentation, project instructions and globs (pure functions over
  text), the golden evaluations and the harness (test infrastructure), the Web page and
  the windows of the desktop (user interface).
* Parts of modelled components, as their notes say: the amounts of the budget beside
  one, wall time and pricing; heartbeats other than the timeouts they cause; the limits
  of the dedupe table and the replay window; the read routes of the API; texts, diffs,
  encryption, hashing and redaction; the sandbox adapters of the platforms.
* Abstractions that join steps: a project rule is set in one step (its transaction holds
  the lock of its capability); a tool call is one step in `ProjectPolicy`; a device's
  revocation reads and updates in one; the SDK asks for its credential once per launch;
  roles are constant in `ProjectPolicy` and change in `DeviceAccess`.
* Key stores, provider APIs, pg-boss and Git, beyond what their callers rely on.
* Security properties of any kind.
