---------------------------- MODULE LocalRunner ----------------------------
(***************************************************************************)
(* The desktop's Local Runner: the environment handlers that serve the     *)
(* commands of the link (apps/desktop/src/main/local-runner-handlers.ts),  *)
(* the host that journals them and resolves Runs (local-runner-host.ts),   *)
(* the file access grants (file-access-grant-service.ts, grant-store.ts),  *)
(* the environment behind the sandbox (local-runner, host-sandbox) and the *)
(* managed worktree (workspace).  The process may be relaunched between    *)
(* any two awaits; the journal, the grants and the worktrees stay.         *)
(***************************************************************************)
EXTENDS Integers, Sequences, FiniteSets, SequencesExt

CONSTANTS
    Runs,               \* the Runs of this device
    Scopes,             \* the file access scopes a Run may be created with
    Tiers,              \* what this host enforces of each scope
    Arguments,          \* of a command: the place it touches, and the one judged for it
    MaxCommands,        \* bound: command ids the server issues
    MaxLaunches,        \* bound: launches of the desktop
    MissingPathResolves \* whether canonicalize resolves a path not there yet

ASSUME RunnerAssumption ==
    /\ MaxCommands \in Nat \ {0} /\ MaxLaunches \in Nat \ {0}
    /\ Scopes \subseteq {"workspace_only", "selected_directories", "host_full"}
    /\ Tiers \in [Scopes -> {"kernel", "argv_fence", "acknowledged_unrestricted",
                              "unsupported"}]
    /\ \A scope \in Scopes :
         Tiers[scope] = "acknowledged_unrestricted" => scope = "host_full"
    /\ Arguments \subseteq [place : {"worktree", "chosen", "elsewhere"},
                             judged : {"worktree", "chosen", "elsewhere", "nothing"}]
    /\ MissingPathResolves \in BOOLEAN

VARIABLES
    sent,       \* the commands that arrived; the id of one is its place
    answers,    \* the outcome the server was given for each id
    journal,    \* run-journal.jsonl
    stored,     \* grants.json: the scope granted to each Run, or "none"
    tree,       \* the commands whose work is in the Run's worktree; {}: it is not there
    launches,   \* launches so far
    entries,    \* the session's dedupe table: what is known of each id
    step,       \* where the handler of each running id is
    held,       \* the scope of the environment that handler holds
    prepared,   \* the scope each Run was prepared under, or "none"
    runs,       \* runsById: the Runs whose worktree the host knows
    decision,   \* firstDecision: "none", "keep", "discard"
    (* history *)
    consents,   \* the scopes the user agreed to, for each Run
    ran,        \* how often each id was executed
    reached,    \* the commands whose process touched the place of its argument
    found,      \* what was done with when a discard was begun, and is in its worktree
    discarded   \* what was found by the discards that are on record

disk == <<journal, stored, tree>>
memory == <<entries, step, held, prepared, runs, decision>>
history == <<consents, ran, reached, found, discarded>>
vars == <<sent, answers, disk, launches, memory, history>>

Ids == 1..MaxCommands
Outcomes == {"keep", "discard"}
\* A dispose of a Run that has a decision is answered with it, as "already".
Verdicts == {"ok", "already", "failed", "interrupted"}
Written == {"ok", "already", "failed"}

Command ==
    [op: {"prepare"}, run: Runs, arg: Scopes]
    \cup [op: {"perform"}, run: Runs, arg: Arguments]
    \cup [op: {"inspect"}, run: Runs, arg: {"report"}]
    \cup [op: {"dispose"}, run: Runs, arg: Outcomes]

Record ==
    [kind: {"started"}, run: Runs, id: Ids]
    \cup [kind: {"settled"}, run: Runs, id: Ids, verdict: Written]
    \cup [kind: {"prepared"}, run: Runs]
    \cup [kind: {"resolved"}, run: Runs, outcome: Outcomes]

Steps == {"idle", "begun", "asking", "granted", "added", "spawned", "deciding", "git",
          "recorded", "done", "failing"}

TypeOK ==
    /\ sent \in Seq(Command) /\ Len(sent) <= MaxCommands
    /\ answers \in [Ids -> Verdicts \cup {"none"}]
    /\ journal \in Seq(Record)
    /\ stored \in [Runs -> Scopes \cup {"none"}]
    /\ tree \in [Runs -> SUBSET Ids]
    /\ launches \in 1..MaxLaunches
    /\ entries \in [Ids -> {"unknown", "running"} \cup Verdicts]
    /\ step \in [Ids -> Steps]
    /\ \A id \in Ids : step[id] # "idle" => entries[id] = "running" /\ id \in DOMAIN sent
    /\ {held[id] : id \in Ids} \cup {prepared[r] : r \in Runs} \subseteq Scopes \cup {"none"}
    /\ runs \subseteq Runs
    /\ decision \in [Runs -> Outcomes \cup {"none"}]
    /\ consents \in [Runs -> SUBSET Scopes]
    /\ ran \in [Ids -> 0..MaxLaunches] /\ found \in [Ids -> SUBSET Ids]
    /\ reached \cup discarded \subseteq DOMAIN sent

-----------------------------------------------------------------------------
(* run-journal.ts: what a launch recovers from the journal. *)

recorded(kind) == {i \in DOMAIN journal : journal[i].kind = kind}
last(kinds, r) ==
    LET at == {i \in DOMAIN journal : journal[i].kind \in kinds /\ journal[i].run = r}
    IN  IF at = {} THEN [kind |-> "nothing"]
        ELSE journal[CHOOSE i \in at : \A j \in at : j <= i]

\* The last of "prepared" and "resolved" decides what a Run is.
recoveredHandles == {r \in Runs : last({"prepared", "resolved"}, r).kind = "prepared"}
recoveredDecision == [r \in Runs |->
    LET entry == last({"prepared", "resolved"}, r)
    IN  IF entry.kind = "resolved" THEN entry.outcome ELSE "none"]

started(id) == \E i \in recorded("started") : journal[i].id = id
settled(id) == {journal[i].verdict : i \in {j \in recorded("settled") : journal[j].id = id}}

\* Slip: only what has settled is seeded.
recoveredCommandsSettled == [id \in Ids |->
    IF settled(id) # {} THEN CHOOSE v \in settled(id) : TRUE ELSE "unknown"]

\* electron.ts: the dedupe table of a new session is seeded with the settled
\* commands and, as failures, with those that started and never settled.
recoveredCommands == [id \in Ids |->
    IF settled(id) # {} THEN CHOOSE v \in settled(id) : TRUE
    ELSE IF started(id) THEN "interrupted" ELSE "unknown"]

-----------------------------------------------------------------------------
(* host-sandbox: what a grant reaches. *)

\* Slip: what was chosen is in the roots of every grant.
grantRootsOfAll(scope) == {"worktree", "chosen"}

\* The roots a command may touch under a grant that is fenced.
grantRoots(scope) ==
    {"worktree"} \cup (IF scope = "selected_directories" THEN {"chosen"} ELSE {})

\* A scope this host cannot enforce is refused, never widened or narrowed.
admit(scope) == Tiers[scope] # "unsupported"

\* The fence judges the arguments that look like paths.  One that is relative is
\* resolved against the directory of the desktop's own process, so that it may be
\* judged as another place than the command will touch; flags, bare words and what
\* a program is told in a string are not judged at all.
allowed(scope, argument) ==
    argument.judged = "nothing" \/ argument.judged \in grantRoots(scope)

\* The sandbox lets a command be spawned; host_full is the absence of a fence.
plan(scope, argument) == admit(scope) /\ (scope = "host_full" \/ allowed(scope, argument))

\* What runs is confined by the kernel, or by nothing but the fence it passed.
confined(scope, argument) ==
    Tiers[scope] = "kernel" /\ scope # "host_full" => argument.place \in grantRoots(scope)

-----------------------------------------------------------------------------
(* workspace and local-runner: the worktree and the process in it. *)

\* A managed worktree that is there is used as it is, edits included; else one is
\* added.
addWorktree(work, id) == IF work = {} THEN {id} ELSE work

\* The changes of a Run can be read while its worktree is there.
readable(r) == tree[r] # {}

-----------------------------------------------------------------------------
(* The link: runner-session.ts and its dedupe table. *)

Init ==
    /\ sent = <<>> /\ answers = [id \in Ids |-> "none"]
    /\ journal = <<>> /\ stored = [r \in Runs |-> "none"]
    /\ tree = [r \in Runs |-> {}] /\ launches = 1
    /\ entries = [id \in Ids |-> "unknown"] /\ step = [id \in Ids |-> "idle"]
    /\ held = [id \in Ids |-> "none"]
    /\ prepared = [r \in Runs |-> "none"] /\ runs = {}
    /\ decision = [r \in Runs |-> "none"]
    /\ consents = [r \in Runs |-> {}] /\ ran = [id \in Ids |-> 0]
    /\ reached = {} /\ found = [id \in Ids |-> {}] /\ discarded = {}

op(id) == sent[id].op
run(id) == sent[id].run
At(id, operation, where) ==
    id \in DOMAIN sent /\ op(id) = operation /\ step[id] = where

append(entry) == journal' = Append(journal, entry)
goto(id, where) == step' = [step EXCEPT ![id] = where]

\* The server gets the result of the table, at once or when it sends the command
\* again: until then the frames may be lost.
Answer(id) ==
    /\ entries[id] \in Verdicts /\ answers[id] = "none"
    /\ answers' = [answers EXCEPT ![id] = entries[id]]
    /\ UNCHANGED <<sent, disk, launches, memory, history>>

\* The handler threw: the table keeps the failure, the journal learns nothing.
throws(id) ==
    /\ entries' = [entries EXCEPT ![id] = "failed"]
    /\ step' = [step EXCEPT ![id] = "idle"] /\ held' = [held EXCEPT ![id] = "none"]
    /\ UNCHANGED <<sent, answers, disk, launches, prepared, runs, decision, history>>

\* settleCommand, and the result that the dedupe table now holds.
settleCommand(id, verdict) ==
    /\ append([kind |-> "settled", run |-> run(id), id |-> id, verdict |-> verdict])
    /\ entries' = [entries EXCEPT ![id] = verdict]
    /\ step' = [step EXCEPT ![id] = "idle"] /\ held' = [held EXCEPT ![id] = "none"]

\* A command starts: but for prepare its handle must have been prepared in this
\* launch, and it is journalled before anything else.
begin(id, c) ==
    IF c.op # "prepare" /\ prepared[c.run] = "none"
    THEN /\ entries' = [entries EXCEPT ![id] = "failed"]
         /\ UNCHANGED <<journal, step, held>>
    ELSE /\ append([kind |-> "started", run |-> c.run, id |-> id])
         /\ entries' = [entries EXCEPT ![id] = "running"]
         /\ goto(id, "begun")
         /\ held' = [held EXCEPT ![id] = prepared[c.run]]

\* A command of the engine arrives; a handle it names has been answered.  Those of
\* a Run may overlap: a dispose from a cancel or of a driver does not wait for the
\* perform that is being killed, and what the connection was lost under runs on.
Receive ==
    /\ Len(sent) < MaxCommands
    /\ \E c \in Command :
         /\ c.op # "prepare" => \E id \in DOMAIN sent :
                op(id) = "prepare" /\ run(id) = c.run /\ answers[id] = "ok"
         /\ sent' = Append(sent, c)
         /\ begin(Len(sent) + 1, c)
    /\ UNCHANGED <<answers, stored, tree, launches, prepared, runs, decision, history>>

\* A command arrives again of which the table and the journal know nothing.
ReceiveAgain(id) ==
    /\ id \in DOMAIN sent /\ entries[id] = "unknown" /\ answers[id] = "none"
    /\ begin(id, sent[id])
    /\ UNCHANGED <<sent, answers, stored, tree, launches, prepared, runs, decision, history>>

-----------------------------------------------------------------------------
(* env.prepare *)

\* A stored grant of the Run is used, whatever scope is asked for now; else one
\* is issued, which needs the canonical path of the worktree.
resolveGrant(id) ==
    /\ At(id, "prepare", "begun")
    /\ IF stored[run(id)] # "none"
       THEN /\ held' = [held EXCEPT ![id] = stored[run(id)]]
            /\ goto(id, "granted")
            /\ UNCHANGED <<sent, answers, disk, launches, entries, prepared, runs,
                           decision, history>>
       ELSE IF MissingPathResolves \/ tree[run(id)] # {}
       THEN /\ goto(id, "asking")
            /\ UNCHANGED <<sent, answers, disk, launches, entries, held, prepared, runs,
                           decision, history>>
       ELSE throws(id)

\* The dialog is confirmed, or none is needed: the grant is stored.
issue(id) ==
    /\ At(id, "prepare", "asking")
    /\ stored' = [stored EXCEPT ![run(id)] = sent[id].arg]
    /\ held' = [held EXCEPT ![id] = sent[id].arg]
    /\ consents' = [consents EXCEPT ![run(id)] = @ \cup {sent[id].arg}]
    /\ goto(id, "granted")
    /\ UNCHANGED <<sent, answers, journal, tree, launches, entries, prepared, runs,
                   decision, ran, reached, found, discarded>>

\* The user declines, or picks nothing that can be authorized.
decline(id) ==
    /\ At(id, "prepare", "asking") /\ sent[id].arg # "workspace_only"
    /\ throws(id)

\* The environment: the sandbox admits the grant before the worktree is made.  It
\* is kept under its handle.
buildEnvironment(id) ==
    /\ At(id, "prepare", "granted") /\ admit(held[id])
    /\ tree' = [tree EXCEPT ![run(id)] = addWorktree(@, id)]
    /\ prepared' = [prepared EXCEPT ![run(id)] = held[id]]
    /\ goto(id, "added")
    /\ UNCHANGED <<sent, answers, journal, stored, launches, entries, held, runs,
                   decision, history>>

\* Slip: the handle is kept in memory only.
recordPreparedUndurably(id) ==
    /\ At(id, "prepare", "added")
    /\ runs' = runs \cup {run(id)}
    /\ goto(id, "recorded")
    /\ UNCHANGED <<sent, answers, disk, launches, entries, held, prepared,
                   decision, history>>

recordPrepared(id) ==
    /\ At(id, "prepare", "added")
    /\ append([kind |-> "prepared", run |-> run(id)])
    /\ runs' = runs \cup {run(id)}
    /\ goto(id, "recorded")
    /\ UNCHANGED <<sent, answers, stored, tree, launches, entries, held, prepared,
                   decision, history>>

\* The handle is durable: the server may hear of it.
prepare(id) ==
    /\ At(id, "prepare", "recorded")
    /\ settleCommand(id, "ok")
    /\ UNCHANGED <<sent, answers, stored, tree, launches, prepared, runs, decision, history>>

\* The sandbox refuses the grant, git worktree add fails, or the check of the
\* worktree that is there; or the journal cannot be written.
prepareFails(id) ==
    (At(id, "prepare", "granted") \/ At(id, "prepare", "added")) /\ throws(id)

-----------------------------------------------------------------------------
(* env.perform and env.inspect *)

\* The sandbox plans the command; outside its roots, or in a worktree that is
\* gone, no process runs.  One that is planned may still not be spawned.
planSpawn(id) ==
    /\ At(id, "perform", "begun")
    /\ \/ /\ plan(held[id], sent[id].arg) /\ readable(run(id))
          /\ ran' = [ran EXCEPT ![id] = @ + 1]
          /\ goto(id, "spawned")
       \/ goto(id, "failing") /\ ran' = ran
    /\ UNCHANGED <<sent, answers, disk, launches, entries, held, prepared, runs, decision,
                   consents, reached, found, discarded>>

\* Its process touches the place its argument leads to, as often as it likes; in a
\* worktree that was removed under it there is nothing to touch.
touch(id) ==
    /\ At(id, "perform", "spawned") /\ confined(held[id], sent[id].arg)
    /\ reached' = reached \cup {id}
    /\ tree' = IF sent[id].arg.place = "worktree" /\ readable(run(id))
               THEN [tree EXCEPT ![run(id)] = @ \cup {id}] ELSE tree
    /\ UNCHANGED <<sent, answers, journal, stored, launches, memory, consents, ran, found,
                   discarded>>

\* It exits, or is killed by its timeout or the abort of its connection.
runCommand(id) ==
    /\ At(id, "perform", "spawned")
    /\ \E end \in {"done", "failing"} : goto(id, end)
    /\ UNCHANGED <<sent, answers, disk, launches, entries, held, prepared, runs, decision,
                   history>>

\* Either way the outcome is settled, so that it is never run again.
perform(id) ==
    /\ At(id, "perform", "done") \/ At(id, "perform", "failing")
    /\ settleCommand(id, IF step[id] = "done" THEN "ok" ELSE "failed")
    /\ UNCHANGED <<sent, answers, stored, tree, launches, prepared, runs, decision, history>>

inspect(id) ==
    /\ At(id, "inspect", "begun") /\ readable(run(id))
    /\ settleCommand(id, "ok")
    /\ UNCHANGED <<sent, answers, stored, tree, launches, prepared, runs, decision, history>>

\* Reading the changes fails, as it must without a worktree.
inspectFails(id) == At(id, "inspect", "begun") /\ throws(id)

-----------------------------------------------------------------------------
(* env.dispose: the effect in Git first, its record second, the decision last. *)

\* A Run without a decision gets this one: two disposes may both find none.
resolve(id) ==
    /\ At(id, "dispose", "begun") /\ decision[run(id)] = "none"
    /\ found' = [found EXCEPT ![id] = IF sent[id].arg = "discard"
                    THEN {x \in tree[run(id)] : step[x] # "spawned"} ELSE {}]
    /\ goto(id, "deciding")
    /\ UNCHANGED <<sent, answers, disk, launches, entries, held, prepared, runs, decision,
                   consents, ran, reached, discarded>>

\* Slip: the decision is recorded before Git is asked for the effect.
resolveRunOutcomeAfterRecord(id) ==
    /\ At(id, "dispose", "deciding")
    /\ goto(id, "git")
    /\ UNCHANGED <<sent, answers, disk, launches, entries, held, prepared,
                   runs, decision, history>>

\* The effect in Git: of keep it only asks that the worktree is there.
resolveRunOutcome(id) ==
    /\ At(id, "dispose", "deciding")
    /\ sent[id].arg = "discard" \/ readable(run(id))
    /\ tree' = IF sent[id].arg = "discard" THEN [tree EXCEPT ![run(id)] = {}] ELSE tree
    /\ goto(id, "git")
    /\ UNCHANGED <<sent, answers, journal, stored, launches, entries, held, prepared,
                   runs, decision, history>>

\* Git fails, or the journal cannot be written after it.
resolveFails(id) ==
    (At(id, "dispose", "deciding") \/ At(id, "dispose", "git")) /\ throws(id)

recordResolved(id) ==
    /\ At(id, "dispose", "git")
    /\ append([kind |-> "resolved", run |-> run(id), outcome |-> sent[id].arg])
    /\ decision' = [decision EXCEPT ![run(id)] = sent[id].arg]
    /\ discarded' = discarded \cup found[id]
    /\ goto(id, "recorded")
    /\ UNCHANGED <<sent, answers, stored, tree, launches, entries, held, prepared, runs,
                   consents, ran, reached, found>>

\* Whatever was decided the worktree is removed, be it one that was prepared since;
\* what survives is a residual.  A Run the host has no record of is left alone.
cleanupWorktree(id) ==
    /\ At(id, "dispose", "recorded")
    /\ \E left \in {tree[run(id)]} \cup (IF run(id) \in runs THEN {{}} ELSE {}) :
         tree' = [tree EXCEPT ![run(id)] = left]
    /\ goto(id, "done")
    /\ UNCHANGED <<sent, answers, journal, stored, launches, entries, held, prepared,
                   runs, decision, history>>

\* Done, or answered with the decision there was: the worktree is left alone then.
dispose(id) ==
    /\ \/ At(id, "dispose", "done")
       \/ At(id, "dispose", "begun") /\ decision[run(id)] # "none"
    /\ prepared' = [prepared EXCEPT ![run(id)] = "none"]
    /\ settleCommand(id, IF step[id] = "done" THEN "ok" ELSE "already")
    /\ UNCHANGED <<sent, answers, stored, tree, launches, runs, decision, history>>

-----------------------------------------------------------------------------
\* Logout, and a device that is refused, drop every grant that is stored.
clearGrants ==
    /\ \E r \in Runs : stored[r] # "none"
    /\ stored' = [r \in Runs |-> "none"]
    /\ UNCHANGED <<sent, answers, journal, tree, launches, memory, history>>

\* The desktop dies and is launched again: recover() reads the journal; no
\* environment is built for what it finds.
Relaunch ==
    /\ launches < MaxLaunches
    /\ launches' = launches + 1
    /\ entries' = recoveredCommands
    /\ step' = [id \in Ids |-> "idle"] /\ held' = [id \in Ids |-> "none"]
    /\ prepared' = [r \in Runs |-> "none"]
    /\ runs' = recoveredHandles
    /\ decision' = recoveredDecision
    /\ UNCHANGED <<sent, answers, disk, history>>

Next ==
    \/ Receive \/ clearGrants \/ Relaunch
    \/ \E id \in Ids :
         \/ Answer(id) \/ ReceiveAgain(id)
         \/ resolveGrant(id) \/ issue(id) \/ decline(id) \/ buildEnvironment(id)
         \/ prepareFails(id) \/ recordPrepared(id) \/ prepare(id)
         \/ planSpawn(id) \/ touch(id) \/ runCommand(id) \/ perform(id)
         \/ inspect(id) \/ inspectFails(id)
         \/ resolve(id) \/ resolveRunOutcome(id) \/ resolveFails(id)
         \/ recordResolved(id) \/ cleanupWorktree(id) \/ dispose(id)

Spec == Init /\ [][Next]_vars

-----------------------------------------------------------------------------
(* Properties. *)

\* No command is executed twice, though every id may be delivered again after the
\* desktop died at any point of it (electron.ts:219-229, local-runner-host.ts:40-43).
AtMostOnce == \A id \in Ids : ran[id] <= 1

\* What a command touched for a Run its user agreed to for that Run, with grants
\* kept over launches and dropped by a logout; on a host that has only the fence a
\* command is held to it where the fence judged the place it touched
\* (electron.ts:232-258, grant-store.ts, windows-sandbox.ts:65-71).
ConfinedToConsent ==
    \A id \in reached :
        LET agreed == consents[run(id)]
            place == sent[id].arg.place
        IN  \/ "host_full" \in agreed
            \/ place = "chosen" /\ "selected_directories" \in agreed
            \/ place = "worktree" /\ agreed # {}
            \/ /\ sent[id].arg.judged # place
               /\ \E scope \in agreed : Tiers[scope] = "argv_fence"

\* What the server was told is done is done, and the next launch knows it: a handle
\* can be found, or its Run was resolved; a command ran; a dispose put its own
\* decision on record since it began, or was told there was one
\* (local-runner-handlers.ts:192-263, 281-304).
AnsweredMeansDone ==
    \A id \in DOMAIN sent :
        LET resolvedAs(outcomes, first) == \E i \in recorded("resolved") :
                journal[i].run = run(id) /\ journal[i].outcome \in outcomes /\ first < i
        IN  /\ answers[id] = "ok" =>
                 CASE op(id) = "prepare" ->
                        \/ run(id) \in runs \cap recoveredHandles
                        \/ recoveredDecision[run(id)] # "none"
                   [] op(id) = "perform" -> ran[id] = 1
                   [] op(id) = "dispose" -> \E j \in recorded("started") :
                        journal[j].id = id /\ resolvedAs({sent[id].arg}, j)
                   [] OTHER -> settled(id) = {"ok"}
            /\ answers[id] = "already" => resolvedAs(Outcomes, 0)

\* A discard that is on record has taken place: what was in the worktree when it was
\* begun, of commands that were over, is gone, whichever step failed, overlapped
\* another or was the last of its launch (local-runner-host.ts:188-203).
RecordedMeansDone == \A r \in Runs : discarded \cap tree[r] = {}

-----------------------------------------------------------------------------
(* What the source says and the code does not keep. *)

\* The first decision of a Run wins (local-runner-host.ts:123: "the one that wins
\* forever").  Two disposes that overlap both find none.
FirstDecisionWins == [][launches' = launches =>
    \A r \in Runs : decision[r] # "none" => decision'[r] = decision[r]]_vars

\* A dispose that is answered left its Run resolved, unless it was prepared after the
\* dispose began (run-journal.ts:217-219).  After another prepare the host still
\* answers with the old decision, and the Run stays prepared.
AnsweredIsResolved ==
    \A id \in DOMAIN sent :
        op(id) = "dispose" /\ answers[id] \in {"ok", "already"} =>
          \/ recoveredDecision[run(id)] # "none"
          \/ \E i \in recorded("prepared"), j \in recorded("started") :
               journal[i].run = run(id) /\ journal[j].id = id /\ j < i

\* What a Run was resolved to keep is still in its worktree
\* (run-engine/src/index.ts:1633-1635: "the Git workspace adapter retains the patch").
KeptWorkRemains == [][\A r \in Runs :
    recoveredDecision[r] = "keep" => tree[r] \subseteq tree'[r]]_vars

\* A Run that a launch finds prepared can still be operated on
\* (electron.ts:219-221, local-runner-host.ts:66).
RecoveredIsResolvable == \A r \in runs : decision[r] = "none" => prepared[r] # "none"
=============================================================================
