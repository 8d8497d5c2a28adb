----------------------------- MODULE RunConsole -----------------------------
(***************************************************************************)
(* The controller behind the Web page and the desktop window               *)
(* (packages/run-controller/src/controller.ts): what the user has selected *)
(* and sees, the asynchronous operations that are under way, and the one   *)
(* event follower.  Every await of the controller is a point where other   *)
(* operations, events and answers come in between.                         *)
(*                                                                         *)
(* A Run is its version: version v has v events, the last version is       *)
(* terminal, version 1 waits for an approval.  The follower is given what  *)
(* EventFeed promises: the events in order.  An inspection is asked,       *)
(* served (it reads the version of that moment) and answered later; all    *)
(* who wait for an answer continue together, as promise callbacks do.      *)
(***************************************************************************)
EXTENDS Integers, FiniteSetsExt, SequencesExt

CONSTANTS Runs,         \* Runs that exist or may be created
          Existing,     \* those that exist at the start
          Projects,
          ProjectOf,    \* the project of each Run
          Writable,     \* the projects in which the user's role may create a Run
          Default,      \* the project the control plane proposes
          None,
          Final,        \* the version at which a Run has ended
          MaxOps,       \* bound: operations the user starts
          MaxFailures   \* bound: requests that fail and streams that break

ASSUME RunConsoleAssumption ==
    /\ Existing \subseteq Runs
    /\ ProjectOf \in [Runs -> Projects]
    /\ Default \in Projects /\ Writable \subseteq Projects
    /\ None \notin Runs \cup Projects
    /\ Final \in Nat \ {0} /\ MaxOps \in Nat /\ MaxFailures \in Nat

VARIABLES version,    \* the server: the version of each Run, 0 before it exists
          phase,      \* "ready", "loading", "needs_auth" or "offline"
          project,    \* selectedProjectId
          selected,   \* selectedRunId
          view,       \* currentRun: the version shown, and of which Run
          timeline,   \* the events shown
          shown,      \* changes, artifact: the Run they belong to, or None
          draft,      \* approvalDraft: the approval (a Run's), and if it was edited
          history,    \* the project whose Runs are listed
          rules,      \* the project whose policy rules are listed
          pending,    \* the flags that block a second click
          discarded,  \* Runs whose result is known to be discarded
          stream,     \* what is said of the stream
          follower,   \* the follower that is not aborted
          inspecting, \* requests under way per Run: asked, or the version served
          op,         \* operations: what each waits for
          loads,      \* changes being fetched on behalf of the follower
          failures

serverVars == <<version>>
screen == <<phase, project, selected, view, timeline, shown, draft, history, rules,
            discarded, stream>>
consoleVars == <<version, screen, pending, follower, inspecting, op, loads, failures>>

Ops == 1..MaxOps
NoView == [run |-> None, version |-> 0]
NoDraft == [of |-> None, edited |-> FALSE]
NoFollower == [run |-> None, last |-> 0, waits |-> "no"]
NotStarted == [kind |-> "none", run |-> None, project |-> None, step |-> "none"]
Done == [NotStarted EXCEPT !.step = "done"]
Asked == 0      \* an inspection the server has not read for yet
Quiet == [phase |-> "idle", run |-> None]

Kinds == {"select", "create", "cancel", "approval", "input", "resolve", "artifact",
          "history", "rules", "bind", "code", "logout"}
Loaders == {"select", "history", "bind", "logout"}      \* those that may select a Run
Steps == {"post", "inspect", "changes", "list", "rules", "config"}

ConsoleInit ==
    /\ version = [r \in Runs |-> IF r \in Existing THEN 1 ELSE 0]
    /\ phase = "ready" /\ project = Default /\ selected = None
    /\ view = NoView /\ timeline = <<>>
    /\ shown = [changes |-> None, artifact |-> None]
    /\ draft = NoDraft
    /\ history = Default /\ rules = Default
    /\ pending = {} /\ discarded = {}
    /\ stream = Quiet /\ follower = NoFollower
    /\ inspecting = [r \in Runs |-> {}]
    /\ op = [i \in Ops |-> NotStarted]
    /\ loads = {} /\ failures = 0

ConsoleTypeOK ==
    /\ version \in [Runs -> 0..Final]
    /\ phase \in {"ready", "loading", "needs_auth", "offline"}
    /\ {project, history, rules} \subseteq Projects \cup {None}
    /\ {selected, view.run, shown.changes, shown.artifact, draft.of, stream.run,
        follower.run} \subseteq Runs \cup {None}
    /\ \A i \in DOMAIN timeline : timeline[i] \in [run: Runs, event: 1..Final]
    /\ pending \subseteq {"creating", "approval", "input", "resolving", "artifact", "binding"}
    /\ discarded \subseteq Runs /\ loads \subseteq Runs
    /\ stream.phase \in {"idle", "connecting", "live", "reconnecting", "closed", "failed"}
    /\ follower.waits \in {"no", "event", "refresh"}
    /\ \A r \in Runs : inspecting[r] \subseteq 0..Final
    /\ \A i \in Ops : op[i] \in {NotStarted, Done}
                        \cup [kind: Kinds, run: Runs \cup {None},
                              project: Projects \cup {None}, step: Steps]

-----------------------------------------------------------------------------
(* The control plane, as the requests of the controller find it.  A refusal is the  *)
(* failure of the request.                                                          *)

\* The configuration proposes the registered default, if the user can see it.
config == Default

listRuns(p) == {r \in Runs : version[r] > 0 /\ ProjectOf[r] = p}
policyRules(p) == p                 \* known by the project they belong to

\* A Run that a request to create one in the project may bring about.
creatable(p) == {r \in Runs : version[r] = 0 /\ ProjectOf[r] = p}

inspection(r) == version[r]
changes(r) == {r}                   \* known by the Run they belong to

\* An artifact is answered to the Run its metadata names, and to no other.
artifacts(r) == {a \in Runs : version[a] > 0 /\ a = r}

\* The version after a command: a cancelled Run ends, an approved one goes on; an
\* answer and an instruction are only stored.
sendRunCommand(kind, v) ==
    CASE kind = "cancel" -> Final
      [] kind = "approval" -> Max({v, 2})
      [] kind = "input" -> v

\* Refused before the Run has ended; then kept or discarded.
resolveRunResult(r) == IF version[r] = Final THEN {{}, {r}} ELSE {}

-----------------------------------------------------------------------------
(* Projections of a Run. *)

terminal(v) == v = Final
waitsApproval(r, v) == v = 1
canLoadRunChanges(v) == v > 1

\* Slip: every refresh sends a request of its own.
joinsNone(r) == FALSE

\* One request per Run: a second asker joins the one under way.
joins(r) == inspecting[r] # {}
inspectRun(r) == [inspecting EXCEPT ![r] = IF joins(r) THEN @ ELSE @ \cup {Asked}]

\* Slip: every refresh starts from the value of the server.
draftOfServer(r, v) == [of |-> IF waitsApproval(r, v) THEN r ELSE None, edited |-> FALSE]

\* An edited draft survives a refresh that shows the same approval.
draftOf(r, v) ==
    LET approval == IF waitsApproval(r, v) THEN r ELSE None
    IN  IF draft.of = approval THEN draft ELSE [of |-> approval, edited |-> FALSE]

applyRunView(r, v) ==
    /\ view' = [run |-> r, version |-> v]
    /\ draft' = draftOf(r, v)

followRun(r) ==
    /\ follower' = [run |-> r, last |-> 0, waits |-> "no"]
    /\ stream' = [phase |-> "connecting", run |-> r]

\* The parts of the view that selectRun, createRun and clearRunView reset.
select(r) ==
    /\ selected' = r
    /\ view' = NoView /\ draft' = NoDraft
    /\ shown' = [changes |-> None, artifact |-> None]
    /\ timeline' = <<>>

start(i, o) ==
    /\ op[i] = NotStarted
    /\ \A j \in 1..(i - 1) : op[j] # NotStarted
    /\ op' = [op EXCEPT ![i] = o]

\* The rules and the history are those of the project selected when they are asked.
goesTo(o, step) == IF step = "done" THEN Done
                   ELSE IF step \in {"list", "rules"}
                   THEN [o EXCEPT !.step = step, !.project = project]
                   ELSE [o EXCEPT !.step = step]

becomes(i, step) == op' = [op EXCEPT ![i] = goesTo(@, step)]

\* A Run is restored from the history on the way to the rules, or was clicked.
selectionEnds(o) == goesTo(o, IF o.kind = "select" THEN "done" ELSE "rules")

-----------------------------------------------------------------------------
(* What the user starts. *)

selectRun(i) ==
    \E r \in Runs :
      /\ phase = "ready" /\ version[r] > 0 /\ history = ProjectOf[r]
      /\ ~(selected = r /\ view # NoView)
      /\ start(i, [NotStarted EXCEPT !.kind = "select", !.run = r, !.step = "inspect"])
      /\ select(r)
      /\ follower' = NoFollower
      /\ inspecting' = inspectRun(r)
      /\ UNCHANGED <<version, phase, project, history, rules, pending, discarded,
                     stream, loads, failures>>

\* The flag that blocks a second operation of the kind.
flag(kind) == CASE kind = "create" -> {"creating"} [] kind = "resolve" -> {"resolving"}
                [] kind \in {"bind", "code"} -> {"binding"}
                [] OTHER -> {kind} \cap {"approval", "input", "artifact"}

\* What a viewer is not offered.
canCreate(p) == p \in Writable

createRun(i) ==
    /\ phase = "ready" /\ project # None /\ canCreate(project)
    /\ "creating" \notin pending
    /\ pending' = pending \cup flag("create")
    /\ start(i, [NotStarted EXCEPT !.kind = "create", !.project = project,
                                   !.step = "post"])
    /\ UNCHANGED <<version, screen, follower, inspecting, loads, failures>>

\* A cancellation is not blocked by one under way; an approval, an edited approval
\* and an instruction ("input") are.
commandRun(i) ==
    \E kind \in {"cancel", "approval", "input"} :
      /\ view # NoView /\ ~terminal(view.version)
      /\ kind = "approval" => waitsApproval(view.run, view.version)
      /\ kind \notin pending
      /\ pending' = pending \cup flag(kind)
      /\ start(i, [NotStarted EXCEPT !.kind = kind, !.run = view.run, !.step = "post"])
      /\ UNCHANGED <<version, screen, follower, inspecting, loads, failures>>

resolveCurrentResult(i) ==
    /\ view # NoView /\ terminal(view.version)
    /\ view.run \notin discarded /\ "resolving" \notin pending
    /\ pending' = pending \cup flag("resolve")
    /\ start(i, [NotStarted EXCEPT !.kind = "resolve", !.run = view.run, !.step = "post"])
    /\ UNCHANGED <<version, screen, follower, inspecting, loads, failures>>

loadArtifact(i) ==
    /\ view # NoView /\ "artifact" \notin pending
    /\ pending' = pending \cup {"artifact"}
    /\ shown' = [shown EXCEPT !.artifact = view.run]
    /\ start(i, [NotStarted EXCEPT !.kind = "artifact", !.run = view.run, !.step = "post"])
    /\ UNCHANGED <<version, phase, project, selected, view, timeline, draft, history,
                   rules, discarded, stream, follower, inspecting, loads, failures>>

setApprovalDraft ==
    /\ view # NoView /\ waitsApproval(view.run, view.version)
    /\ draft' = [of |-> view.run, edited |-> TRUE]
    /\ UNCHANGED <<version, phase, project, selected, view, timeline, shown, history,
                   rules, discarded, stream, pending, follower, inspecting, op, loads,
                   failures>>

\* The old stream and view are severed before the new scope is loaded.
selectProject(i) ==
    \E p \in Projects \ {project} :
      /\ phase = "ready"
      /\ start(i, [NotStarted EXCEPT !.kind = "history", !.project = p, !.step = "list"])
      /\ select(None)
      /\ follower' = NoFollower /\ stream' = Quiet
      /\ project' = p /\ history' = None /\ rules' = None
      /\ UNCHANGED <<version, phase, discarded, pending, inspecting, loads, failures>>

\* The rules are listed again, at once or after one of them was revoked.
refreshPolicyRules(i) ==
    /\ phase = "ready" /\ project # None
    /\ \E step \in {"post", "rules"} :
         start(i, [NotStarted EXCEPT !.kind = "rules", !.project = project, !.step = step])
    /\ UNCHANGED <<version, screen, pending, follower, inspecting, loads, failures>>

bindDevice(i) ==
    /\ phase = "ready" /\ "binding" \notin pending
    /\ pending' = pending \cup flag("bind")
    /\ start(i, [NotStarted EXCEPT !.kind = "bind", !.step = "post"])
    /\ UNCHANGED <<version, screen, follower, inspecting, loads, failures>>

\* A code for this machine: it shares the flag of the binding.
createDeviceCode(i) ==
    /\ phase = "ready" /\ project # None /\ "binding" \notin pending
    /\ pending' = pending \cup flag("code")
    /\ start(i, [NotStarted EXCEPT !.kind = "code", !.project = project, !.step = "post"])
    /\ UNCHANGED <<version, screen, follower, inspecting, loads, failures>>

logout(i) ==
    /\ phase = "ready"
    /\ start(i, [NotStarted EXCEPT !.kind = "logout", !.step = "post"])
    /\ follower' = NoFollower
    /\ UNCHANGED <<version, screen, pending, inspecting, loads, failures>>

-----------------------------------------------------------------------------
(* Answers of the control plane to an operation. *)

\* A Run was created: it is selected whatever the user did meanwhile.
created(i) ==
    /\ op[i].kind = "create" /\ op[i].step = "post"
    /\ \E r \in creatable(op[i].project) :
         /\ version' = [version EXCEPT ![r] = 1]
         /\ op' = [op EXCEPT ![i].run = r, ![i].step = "inspect"]
         /\ select(r)
         /\ inspecting' = inspectRun(r)
    /\ UNCHANGED <<phase, project, history, rules, discarded, stream, pending, follower,
                   loads, failures>>

\* cancel, approve, answer and steer: the Run is inspected again.
commanded(i) ==
    /\ op[i].kind \in {"cancel", "approval", "input"} /\ op[i].step = "post"
    /\ version' = [version EXCEPT ![op[i].run] = sendRunCommand(op[i].kind, @)]
    /\ becomes(i, "inspect")
    /\ inspecting' = inspectRun(op[i].run)
    /\ UNCHANGED <<screen, pending, follower, loads, failures>>

\* The disposition is recorded; changes and artifact are cleared in any case.
resolved(i) ==
    /\ op[i].kind = "resolve" /\ op[i].step = "post"
    /\ \E outcome \in resolveRunResult(op[i].run) : discarded' = discarded \cup outcome
    /\ shown' = [changes |-> None, artifact |-> None]
    /\ pending' = pending \ flag("resolve")
    /\ becomes(i, "done")
    /\ UNCHANGED <<version, phase, project, selected, view, timeline, draft, history,
                   rules, stream, follower, inspecting, loads, failures>>

artifactLoaded(i) ==
    /\ op[i].kind = "artifact" /\ op[i].step = "post"
    /\ \E a \in artifacts(op[i].run) :
         shown' = IF view.run = op[i].run THEN [shown EXCEPT !.artifact = a] ELSE shown
    /\ pending' = pending \ flag("artifact")
    /\ becomes(i, "done")
    /\ UNCHANGED <<version, phase, project, selected, view, timeline, draft, history,
                   rules, discarded, stream, follower, inspecting, loads, failures>>

\* Slip: the changes are shown whatever is selected by now.
changesOfAny(r) == [shown EXCEPT !.changes = r]

\* The changes that selectRun waits for; afterwards the Run is followed.
changesOf(r) ==
    IF selected = r THEN [shown EXCEPT !.changes = CHOOSE c \in changes(r) : TRUE]
    ELSE shown

changesLoaded(i) ==
    /\ op[i].step = "changes"
    /\ shown' = changesOf(op[i].run)
    /\ followRun(op[i].run)
    /\ op' = [op EXCEPT ![i] = selectionEnds(@)]
    /\ UNCHANGED project
    /\ UNCHANGED <<version, phase, selected, view, timeline, draft, history,
                   rules, discarded, pending, inspecting, loads, failures>>

backgroundChanges(r) ==
    /\ r \in loads
    /\ loads' = loads \ {r}
    /\ shown' = changesOf(r)
    /\ UNCHANGED <<version, phase, project, selected, view, timeline, draft, history,
                   rules, discarded, stream, pending, follower, inspecting, op, failures>>

\* loadHistory: kept if its project is still selected; nothing selected, its latest
\* Run is selected.  Then the policy rules of the project of that moment.
listed(i) ==
    /\ op[i].step = "list"
    /\ LET own == listRuns(op[i].project)
       IN  \/ /\ op[i].kind = "create"
              /\ becomes(i, "done")
              /\ pending' = pending \ flag("create")
              /\ followRun(op[i].run)
              /\ UNCHANGED <<selected, view, draft, shown, timeline, inspecting>>
           \/ /\ op[i].kind # "create"
              /\ project = op[i].project /\ selected = None
              /\ \E r \in own :
                   /\ op' = [op EXCEPT ![i] = [@ EXCEPT !.run = r, !.step = "inspect"]]
                   /\ select(r)
                   /\ follower' = NoFollower
                   /\ inspecting' = inspectRun(r)
              /\ UNCHANGED <<pending, stream>>
           \/ /\ op[i].kind # "create"
              /\ ~(project = op[i].project /\ selected = None /\ own # {})
              /\ becomes(i, "rules")
              /\ UNCHANGED <<selected, view, draft, shown, timeline, inspecting, pending,
                             follower, stream>>
    /\ history' = IF project = op[i].project THEN op[i].project ELSE history
    /\ UNCHANGED project
    /\ UNCHANGED <<version, phase, rules, discarded, loads, failures>>

rulesListed(i) ==
    /\ op[i].step = "rules"
    /\ rules' = IF project = op[i].project THEN policyRules(project) ELSE rules
    /\ becomes(i, "done")
    /\ pending' = pending \ flag(op[i].kind)
    /\ UNCHANGED <<version, phase, project, selected, view, timeline, shown, draft,
                   history, discarded, stream, follower, inspecting, loads, failures>>

\* A rule was revoked: the list is asked for again, of the project selected now.
ruleRevoked(i) ==
    /\ op[i].kind = "rules" /\ op[i].step = "post"
    /\ becomes(i, "rules")
    /\ UNCHANGED project
    /\ UNCHANGED <<version, phase, selected, view, timeline, shown, draft, history, rules,
                   discarded, stream, pending, follower, inspecting, loads, failures>>

codeIssued(i) ==
    /\ op[i].kind = "code" /\ op[i].step = "post"
    /\ pending' = pending \ flag("code")
    /\ becomes(i, "done")
    /\ UNCHANGED <<version, screen, follower, inspecting, loads, failures>>

\* The code was exchanged: the devices are listed, then everything is initialized.
deviceBound(i) ==
    /\ op[i].kind = "bind" /\ op[i].step = "post"
    /\ phase' = "loading"
    /\ becomes(i, "config")
    /\ UNCHANGED <<version, project, selected, view, timeline, shown, draft, history,
                   rules, discarded, stream, pending, follower, inspecting, loads,
                   failures>>

\* applyUnauthenticated: everything of the session goes.
applyUnauthenticated ==
    /\ select(None)
    /\ project' = None /\ history' = None /\ rules' = None
    /\ stream' = Quiet

loggedOut(i) ==
    /\ op[i].kind = "logout" /\ op[i].step = "post"
    /\ applyUnauthenticated
    /\ phase' = "loading"
    /\ discarded' = {}
    /\ becomes(i, "config")
    /\ UNCHANGED <<version, pending, follower, inspecting, loads, failures>>

\* initialize: the session is asked for again.
configured(i) ==
    /\ op[i].step = "config"
    /\ \/ /\ phase' = "ready" /\ project' = IF project = None THEN config ELSE project
          /\ op' = [op EXCEPT ![i] = [@ EXCEPT !.step = "list", !.project = project']]
          /\ UNCHANGED <<selected, view, timeline, shown, draft, history, rules, stream,
                         pending>>
       \/ /\ phase' = "needs_auth" /\ applyUnauthenticated /\ becomes(i, "done")
          /\ pending' = pending \ flag(op[i].kind)
    /\ UNCHANGED <<version, discarded, follower, inspecting, loads, failures>>

\* A request of an operation fails: the flag is released, the error shown.
fails(i) ==
    /\ ~(op[i].kind = "logout" /\ op[i].step = "post")
    /\ failures < MaxFailures
    /\ failures' = failures + 1
    /\ UNCHANGED project
    /\ \/ /\ op[i].step = "changes"
          /\ shown' = IF selected = op[i].run THEN [shown EXCEPT !.changes = None]
                      ELSE shown
          /\ followRun(op[i].run) /\ op' = [op EXCEPT ![i] = selectionEnds(@)]
          /\ UNCHANGED <<phase, rules, pending>>
       \/ /\ op[i].kind = "create" /\ op[i].step = "list"
          /\ followRun(op[i].run) /\ becomes(i, "done")
          /\ pending' = pending \ flag("create")
          /\ UNCHANGED <<phase, shown, rules>>
       \/ /\ op[i].kind # "create" /\ op[i].step = "list"
          /\ becomes(i, "rules")
          /\ UNCHANGED <<phase, shown, rules, pending, follower, stream>>
       \/ /\ op[i].step \in {"post", "rules", "config"}
          /\ becomes(i, "done")
          /\ pending' = pending \ flag(op[i].kind)
          /\ stream' = IF op[i].kind = "create" THEN [phase |-> "failed", run |-> None]
                       ELSE stream
          /\ rules' = IF op[i].step = "rules" /\ project = op[i].project THEN None
                      ELSE rules
          /\ phase' = IF op[i].step = "config" THEN "offline" ELSE phase
          /\ shown' = IF op[i].kind = "artifact" /\ view.run = op[i].run
                      THEN [shown EXCEPT !.artifact = op[i].run] ELSE shown
          /\ UNCHANGED follower
    /\ UNCHANGED <<version, selected, view, timeline, draft, history, discarded,
                   inspecting, loads>>

-----------------------------------------------------------------------------
(* Inspections. *)

serve(r) ==
    /\ Asked \in inspecting[r]
    /\ inspecting' = [inspecting EXCEPT ![r] = (@ \ {Asked}) \cup {inspection(r)}]
    /\ UNCHANGED <<version, screen, pending, follower, op, loads, failures>>

waiters(r) == {i \in Ops : op[i].run = r /\ op[i].step = "inspect"}
selecting(r) == {i \in waiters(r) : op[i].kind \in Loaders}

\* An answer arrives: whoever waited for it goes on.
inspected(r) ==
    \E v \in inspecting[r] \ {Asked} :
      LET here == selected = r
          asked == follower.run = r /\ follower.waits # "no"
          waited == waiters(r) # {} \/ asked
          \* selectRun without changes to load follows at once
          follows == here /\ selecting(r) # {} /\ ~canLoadRunChanges(v)
          ends == asked /\ here /\ terminal(v)
                  /\ (follower.waits = "refresh" \/ follower.last = Final)
      IN  /\ inspecting' = [inspecting EXCEPT ![r] = @ \ {v}]
          /\ IF here /\ waited THEN applyRunView(r, v) ELSE UNCHANGED <<view, draft>>
          /\ op' = [i \in Ops |->
               IF i \notin waiters(r) THEN op[i]
               ELSE IF op[i].kind = "create" THEN goesTo(op[i], "list")
               ELSE IF i \notin selecting(r) THEN Done
               ELSE IF here /\ canLoadRunChanges(v) THEN goesTo(op[i], "changes")
               ELSE selectionEnds(op[i])]
          /\ pending' = pending \ UNION {flag(op[i].kind) : i \in
                          {j \in waiters(r) : op[j].kind \notin Loaders \cup {"create"}}}
          /\ IF follows THEN followRun(r)
             ELSE IF ~asked THEN UNCHANGED <<follower, stream>>
             ELSE IF ~here THEN follower' = NoFollower /\ UNCHANGED stream
             ELSE IF ends THEN /\ follower' = NoFollower
                               /\ stream' = [phase |-> "closed", run |-> r]
             ELSE follower' = [follower EXCEPT !.waits = "no"] /\ UNCHANGED stream
          /\ loads' = IF asked /\ here /\ follower.waits = "event" /\ canLoadRunChanges(v)
                      THEN loads \cup {r} ELSE loads
          /\ UNCHANGED project
          /\ UNCHANGED <<version, phase, selected, timeline, shown, history, rules,
                         discarded, failures>>

\* It fails: an operation ends with an error, except that selectRun follows the Run
\* if another one was selected meanwhile; the follower goes on.
inspectFails(r) ==
    /\ inspecting[r] # {}
    /\ failures < MaxFailures
    /\ failures' = failures + 1
    /\ inspecting' = [inspecting EXCEPT ![r] = {}]
    /\ op' = [i \in Ops |-> IF i \in selecting(r) THEN selectionEnds(op[i])
                            ELSE IF i \in waiters(r) THEN Done ELSE op[i]]
    /\ pending' = pending \ UNION {flag(op[i].kind) : i \in waiters(r) \ selecting(r)}
    /\ UNCHANGED project
    /\ IF selecting(r) # {} /\ selected # r
       THEN followRun(r)
       ELSE /\ stream' = IF selecting(r) # {} THEN [phase |-> "failed", run |-> r]
                         ELSE IF \E i \in waiters(r) : op[i].kind = "create"
                         THEN [phase |-> "failed", run |-> None] ELSE stream
            /\ follower' = IF follower.run = r /\ follower.waits # "no"
                           THEN IF selected = r THEN [follower EXCEPT !.waits = "no"]
                                ELSE NoFollower
                           ELSE follower
    /\ UNCHANGED <<version, phase, selected, view, timeline, shown, draft,
                   history, rules, discarded, loads>>

-----------------------------------------------------------------------------
(* The follower and the server. *)

\* The next event: shown, then the Run is inspected before the next one is taken.
onEvent ==
    /\ follower.run # None /\ follower.waits = "no"
    /\ follower.last < version[follower.run]
    /\ LET r == follower.run
           event == follower.last + 1
       IN  IF selected # r
           THEN follower' = NoFollower /\ UNCHANGED <<timeline, stream, inspecting>>
           ELSE /\ follower' = [follower EXCEPT !.last = event, !.waits = "event"]
                /\ timeline' = Append(timeline, [run |-> r, event |-> event])
                /\ stream' = [phase |-> "live", run |-> r]
                /\ inspecting' = inspectRun(r)
    /\ UNCHANGED <<version, phase, project, selected, view, shown, draft, history, rules,
                   pending, discarded, op, loads, failures>>

\* The stream breaks: the status is refreshed before the cursor catches up.
onReconnect ==
    /\ follower.run # None /\ follower.waits = "no"
    /\ failures < MaxFailures
    /\ failures' = failures + 1
    /\ IF selected # follower.run
       THEN follower' = NoFollower /\ UNCHANGED <<stream, inspecting>>
       ELSE /\ follower' = [follower EXCEPT !.waits = "refresh"]
            /\ stream' = [phase |-> "reconnecting", run |-> follower.run]
            /\ inspecting' = inspectRun(follower.run)
    /\ UNCHANGED <<version, phase, project, selected, view, timeline, shown, draft,
                   history, rules, pending, discarded, op, loads>>

\* The Run goes on.
proceed(r) ==
    /\ version[r] \in 1..(Final - 1)
    /\ version' = [version EXCEPT ![r] = @ + 1]
    /\ UNCHANGED <<screen, pending, follower, inspecting, op, loads, failures>>

-----------------------------------------------------------------------------
click(i) == selectRun(i) \/ createRun(i) \/ commandRun(i) \/ resolveCurrentResult(i)
            \/ loadArtifact(i) \/ selectProject(i) \/ refreshPolicyRules(i)
            \/ bindDevice(i) \/ createDeviceCode(i) \/ logout(i)

answered(i) == created(i) \/ commanded(i) \/ resolved(i) \/ artifactLoaded(i)
               \/ changesLoaded(i) \/ listed(i) \/ rulesListed(i) \/ ruleRevoked(i)
               \/ codeIssued(i) \/ deviceBound(i) \/ loggedOut(i) \/ configured(i)

ConsoleNext ==
    \/ \E i \in Ops : click(i) \/ answered(i) \/ fails(i)
    \/ setApprovalDraft
    \/ \E r \in Runs : serve(r) \/ inspected(r) \/ inspectFails(r)
                       \/ backgroundChanges(r) \/ proceed(r)
    \/ onEvent \/ onReconnect

ConsoleSpec == ConsoleInit /\ [][ConsoleNext]_consoleVars

-----------------------------------------------------------------------------
(* Properties. *)

\* Whatever answers come late, what is on the screen belongs to the selected Run:
\* its status, its events, its changes and artifact, the approval being edited; the listed
\* history and policy rules belong to the selected project.
NoForeignView ==
    /\ view.run \in {None, selected}
    /\ \A i \in DOMAIN timeline : timeline[i].run = selected
    /\ {shown.changes, shown.artifact} \subseteq {None, selected}
    /\ draft.of # None => view.run = draft.of /\ waitsApproval(view.run, view.version)
    /\ {history, rules} \subseteq {None, project}

\* The status shown of a Run never goes back to an older one: answers that were
\* read before others are never applied after them (the merge of inspections).
NeverBackwards ==
    [][view'.run = view.run => view'.version >= view.version]_consoleVars

\* What the operator has typed for an approval survives every refresh that still
\* shows that approval.
EditSurvives ==
    [][(draft.edited /\ view'.run = view.run /\ waitsApproval(view'.run, view'.version))
       => draft' = draft]_consoleVars

\* controller.ts:624 "no view can show cross-project data": the selected Run is one of
\* the selected project.
NoCrossProject == selected # None /\ project # None => ProjectOf[selected] = project

\* controller.ts:110 "owns exactly one corresponding event follower": when nothing is
\* under way, a Run on the screen that has not ended is followed.
FollowsSelection ==
    ((\A i \in Ops : op[i] \in {NotStarted, Done}) /\ view # NoView
       /\ stream.phase # "failed" /\ ~terminal(view.version))
    => follower.run = selected
=============================================================================
