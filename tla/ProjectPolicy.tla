---------------------------- MODULE ProjectPolicy ----------------------------
(***************************************************************************)
(* What a Run may do without being asked, over the Runs of one project:    *)
(* the policy engine (packages/policy), the project rules that outlive an  *)
(* approval (postgres-project-policy-rules.ts), the audit of automatic     *)
(* reviews (postgres-policy-review-audit.ts), the ledger of approvals, and *)
(* the parts of RunEngine and api.ts that join them.  A tool call is one   *)
(* step here; RunEngine has its claim, its heartbeat and its replay, and   *)
(* the lease by which one Worker at a time drives a Run.                   *)
(***************************************************************************)
EXTENDS Naturals, FiniteSets

CONSTANTS
    Runs,                   \* the Runs of the project
    Mode,                   \* the approval modes each Run may have
    DeniedCommands,         \* deniedCommands of each Run
    Commands, Endpoints,    \* the capabilities a turn may ask for
    HostControl,            \* commands that reach the host's container runtime
    PrivateTargets,         \* addresses, loopback names and metadata services
    LowRisk,                \* commands that only report or test
    Narrower,               \* <<c, d>>: c is a strict narrowing of d
    AskDomains,             \* network.askDomains of the project: what it allows
    Users, RoleOf,          \* the members of the project, and their roles
    None,                   \* no capability, and no command
    MaxTurns,               \* bound: tool calls of each Run
    MaxCommands,            \* bound: commands routed
    MaxCrashes              \* bound: crashes of Workers

Capabilities == Commands \cup Endpoints

\* A command of a user about the approval of a call.
Routed == [run: Runs, call: Nat, type: {"approve", "reject", "edit_approve"},
           scope: {"once", "run", "project"}, edit: Capabilities \cup {None}, by: Users]

ASSUME PolicyAssumption ==
    /\ Mode \in [Runs -> SUBSET {"request_approval", "auto_review", "full_access"}]
    /\ DeniedCommands \in [Runs -> SUBSET Commands]
    /\ HostControl \cup LowRisk \subseteq Commands /\ PrivateTargets \subseteq Endpoints
    /\ Narrower \subseteq (Commands \X Commands) \cup (Endpoints \X Endpoints)
    /\ Commands \cap Endpoints = {}
    /\ AskDomains \subseteq Endpoints /\ None \notin Capabilities \cup Routed
    /\ RoleOf \in [Users -> {"viewer", "developer", "admin"}]
    /\ MaxTurns \in [Runs -> Nat] /\ MaxCommands \in Nat /\ MaxCrashes \in Nat

VARIABLES
    rules,      \* project_policy_rules: every version
    approvals,  \* run_engine_approvals, by Run and tool call
    reviews,    \* run_engine_policy_reviews
    snap,       \* the stored Run
    drv,        \* the call of RunEngine that drives the Run
    routed,     \* commands that passed api.ts
    commands, crashes,  \* commands and crashes so far
    (* history *)
    performed   \* what was performed, and what let it

vars == <<rules, approvals, reviews, snap, drv, routed, commands, crashes, performed>>
stores == <<rules, approvals, reviews, snap>>
bounds == <<commands, crashes>>

Calls == UNION {{r} \X (1..MaxTurns[r]) : r \in Runs}

\* No approval, one that is pending, or one that was decided.
Unasked == [cap |-> None, decision |-> "none", scope |-> "none", by |-> None, edit |-> None]
Idle == [step |-> "idle", cap |-> None, mode |-> "none", verdict |-> "none", why |-> "none", cmd |-> None]

\* A rule names the approval it came from.
Rule == [source: Calls, cap: Capabilities, decision: {"allow", "deny"}, by: Users, active: BOOLEAN]

TypeOK ==
    /\ rules \subseteq Rule
    /\ \A c \in Calls : approvals[c].cap \in Capabilities \cup {None}
    /\ \A r \in Runs : /\ snap[r].status \in {"running", "waiting_approval", "failed", "succeeded"}
                       /\ snap[r].call \in 0..MaxTurns[r] /\ snap[r].pending \in Capabilities \cup {None}
                       /\ snap[r].approved \subseteq Capabilities /\ snap[r].denied \subseteq Capabilities

Init ==
    /\ rules = {} /\ reviews = {}
    /\ approvals = [c \in Calls |-> Unasked]
    /\ snap \in {f \in [Runs -> [mode: UNION {Mode[r] : r \in Runs}, status: {"running"},
                                 call: {0}, pending: {None}, approved: {{}}, denied: {{}}]] :
                    \A r \in Runs : f[r].mode \in Mode[r]}
    /\ drv = [r \in Runs |-> Idle] /\ routed = {}
    /\ commands = 0 /\ crashes = 0 /\ performed = {}

-----------------------------------------------------------------------------
(* The policy engine *)

\* resolve: the decision of the active rule for exactly this capability.
resolve(cap) ==
    LET active == {x \in rules : x.active /\ x.cap = cap}
    IN  IF active = {} THEN "none" ELSE (CHOOSE x \in active : TRUE).decision

isHostControlCommand(cap) == cap \in HostControl
isForbiddenNetworkTarget(cap) == cap \in PrivateTargets
fixedDenial(cap) == isHostControlCommand(cap) \/ isForbiddenNetworkTarget(cap)

\* A project that lists domains has every other one asked for; an empty list is
\* no restriction.
undeclared(cap) == cap \in Endpoints /\ AskDomains # {} /\ cap \notin AskDomains

denied(r, cap) == cap \in DeniedCommands[r]

\* DeterministicRiskReviewer: only the commands of its list.
isLowRiskCommand(cap) == cap \in LowRisk
reviewerSays(cap) == IF isLowRiskCommand(cap) THEN "allow" ELSE "ask"

\* Slip: the rules of the project are asked before the commands the Run denies.
authorizeRulesFirst(r, cap, mode) ==
    IF fixedDenial(cap) THEN <<"deny", "none">>
    ELSE IF undeclared(cap) THEN <<"ask", "none">>
    ELSE IF resolve(cap) = "deny" THEN <<"deny", "none">>
    ELSE IF resolve(cap) = "allow" THEN <<"allow", "rule">>
    ELSE IF denied(r, cap) THEN <<"deny", "none">>
    ELSE IF mode = "full_access" THEN <<"allow", "mode">>
    ELSE IF mode = "auto_review" THEN <<"review", "none">> ELSE <<"ask", "none">>

\* The fixed denials, what the project's configuration asks for, what the Run
\* denies, the project's rules, and only then the mode.
authorize(r, cap, mode) ==
    IF fixedDenial(cap) THEN <<"deny", "none">>
    ELSE IF undeclared(cap) THEN <<"ask", "none">>
    ELSE IF denied(r, cap) \/ resolve(cap) = "deny" THEN <<"deny", "none">>
    ELSE IF resolve(cap) = "allow" THEN <<"allow", "rule">>
    ELSE IF mode = "full_access" THEN <<"allow", "mode">>
    ELSE IF mode = "auto_review" THEN <<"review", "none">> ELSE <<"ask", "none">>

goto(r, step) == drv' = [drv EXCEPT ![r].step = step]
End(r) == drv' = [drv EXCEPT ![r] = Idle]

\* The verdict, unless a review is due first.
evaluate(r) ==
    LET answer == authorize(r, drv[r].cap, drv[r].mode)
    IN  /\ drv[r].step = "authorize"
        /\ drv' = [drv EXCEPT ![r].step = IF answer[1] = "review" THEN "review" ELSE "decided",
                              ![r].verdict = answer[1], ![r].why = answer[2]]
        /\ UNCHANGED <<stores, routed, bounds, performed>>

\* The reviewer, and the audit of what it said; a review is of a tool call or of
\* an edited capability.
review(r) ==
    LET about == IF drv[r].cmd = None THEN <<r, snap[r].call>> ELSE <<r, drv[r].cap>>
        says == reviewerSays(drv[r].cap)
        entry == [about |-> about, cap |-> drv[r].cap, decision |-> says]
    IN  /\ drv[r].step = "review"
        /\ IF \E x \in reviews : x.about = about /\ x # entry
           THEN End(r) /\ UNCHANGED reviews
           ELSE /\ reviews' = reviews \cup {entry}
                /\ drv' = [drv EXCEPT ![r].step = "decided", ![r].verdict = says, ![r].why = "review"]
        /\ UNCHANGED <<rules, approvals, snap, routed, bounds, performed>>

-----------------------------------------------------------------------------
(* A Run that is driven *)

resume(r) ==
    /\ drv[r] = Idle /\ snap[r].status = "running"
    /\ goto(r, "loop")
    /\ UNCHANGED <<stores, routed, bounds, performed>>

ask(r, cap) == drv' = [drv EXCEPT ![r] =
    [Idle EXCEPT !.step = "authorize", !.cap = cap, !.mode = snap[r].mode]]

\* The call is stored before it is authorized; a call that is stored already is
\* authorized anew.
drive(r) ==
    /\ drv[r].step = "loop"
    /\ \/ /\ snap[r].pending # None /\ ask(r, snap[r].pending) /\ UNCHANGED snap
       \/ /\ snap[r].pending = None /\ snap[r].call < MaxTurns[r]
          /\ \E cap \in Capabilities :
                /\ snap' = [snap EXCEPT ![r].call = @ + 1, ![r].pending = cap]
                /\ ask(r, cap)
       \/ /\ snap[r].pending = None
          /\ snap' = [snap EXCEPT ![r].status = "succeeded"] /\ End(r)
    /\ UNCHANGED <<rules, approvals, reviews, routed, bounds, performed>>

Performs(r, cap, why) ==
    performed' = performed \cup {[run |-> r, call |-> snap[r].call, cap |-> cap, why |-> why]}

granted(r) == drv[r].verdict = "ask" /\ drv[r].cap \in snap[r].approved
Decided(r) == drv[r].step = "decided" /\ drv[r].cmd = None

\* An allowed call, or one the Run was granted, is performed.
performWith(r) ==
    /\ Decided(r) /\ (drv[r].verdict = "allow" \/ granted(r))
    /\ Performs(r, drv[r].cap, IF drv[r].verdict = "allow" THEN drv[r].why ELSE "grant")
    /\ snap' = [snap EXCEPT ![r].pending = None] /\ goto(r, "loop")
    /\ UNCHANGED <<rules, approvals, reviews, routed, bounds>>

\* What was denied for the Run is not asked again: the model is told.
deniedForRun(r) ==
    /\ Decided(r) /\ drv[r].verdict = "ask" /\ ~granted(r) /\ drv[r].cap \in snap[r].denied
    /\ snap' = [snap EXCEPT ![r].pending = None] /\ goto(r, "loop")
    /\ UNCHANGED <<rules, approvals, reviews, routed, bounds, performed>>

policyDenied(r) ==
    /\ Decided(r) /\ drv[r].verdict = "deny"
    /\ snap' = [snap EXCEPT ![r].status = "failed"] /\ End(r)
    /\ UNCHANGED <<rules, approvals, reviews, routed, bounds, performed>>

\* approvals.request; a replay of the call finds the row and leaves it.
request(r) ==
    LET a == <<r, snap[r].call>>
    IN  /\ Decided(r) /\ drv[r].verdict = "ask" /\ ~granted(r) /\ drv[r].cap \notin snap[r].denied
        /\ approvals' = IF approvals[a] = Unasked
                        THEN [approvals EXCEPT ![a].cap = drv[r].cap, ![a].decision = "pending"]
                        ELSE approvals
        /\ goto(r, "wait")
        /\ UNCHANGED <<rules, reviews, snap, routed, bounds, performed>>

waitForApproval(r) ==
    /\ drv[r].step = "wait"
    /\ snap' = [snap EXCEPT ![r].status = "waiting_approval"] /\ End(r)
    /\ UNCHANGED <<rules, approvals, reviews, routed, bounds, performed>>

-----------------------------------------------------------------------------
(* Commands *)

\* The Run is shown to the members of its project, and operated by developers.
Rank == [viewer |-> 0, developer |-> 1, admin |-> 2]
inspectProjectRun(u, minimum) == Rank[RoleOf[u]] >= Rank[minimum]

\* What the body of a request may say.
parseMinimalRunCommand ==
    [type: {"approve", "reject"}, scope: {"once", "run", "project"}, edit: {None}]
        \cup [type: {"edit_approve"}, scope: {"once"}, edit: Capabilities]

\* The route reads the role of its caller and hands the command on.
route(u) ==
    /\ commands < MaxCommands /\ commands' = commands + 1
    /\ inspectProjectRun(u, "developer")
    /\ \E r \in Runs, body \in parseMinimalRunCommand :
          /\ snap[r].status = "waiting_approval"
          /\ body.scope = "project" => RoleOf[u] = "admin"
          /\ routed' = routed \cup {[run |-> r, call |-> snap[r].call, type |-> body.type,
                    scope |-> body.scope, edit |-> body.edit, by |-> u]}
    /\ UNCHANGED <<stores, drv, crashes, performed>>

narrowToolCall(cap, edit) == <<edit, cap>> \in Narrower

\* The approval the command names must be the pending one; an edit must narrow it
\* and is authorized anew, a command by the reviewer whatever the Run's mode.
command(c) ==
    LET r == c.run
        cap == snap[r].pending
        refused == \/ snap[r].status # "waiting_approval" \/ snap[r].call # c.call
                   \/ c.edit # None /\ ~narrowToolCall(cap, c.edit)
    IN  /\ c \in routed /\ drv[r] = Idle
        /\ routed' = routed \ {c}
        /\ drv' = [drv EXCEPT ![r] =
                IF refused THEN Idle
                ELSE [Idle EXCEPT !.cmd = c,
                        !.cap = IF c.edit = None THEN cap ELSE c.edit,
                        !.mode = IF c.edit \in Commands THEN "auto_review" ELSE snap[r].mode,
                        !.step = IF c.edit # None THEN "authorize"
                                 ELSE IF c.scope = "project" THEN "rule" ELSE "decide"]]
        /\ UNCHANGED <<stores, bounds, performed>>

\* An edit resolves an ask and no denial; an edited command must be allowed.
affirmEdit(r) ==
    /\ drv[r].step = "decided" /\ drv[r].cmd # None
    /\ IF drv[r].verdict = "deny" \/ (drv[r].cap \in Commands /\ drv[r].verdict # "allow")
       THEN End(r) ELSE goto(r, "decide")
    /\ UNCHANGED <<stores, routed, bounds, performed>>

newRule(c, cap) == [source |-> <<c.run, c.call>>, cap |-> cap, by |-> c.by, active |-> TRUE,
                    decision |-> IF c.type = "approve" THEN "allow" ELSE "deny"]
sameRule(x, y) == [x EXCEPT !.active = TRUE] = [y EXCEPT !.active = TRUE]

\* Slip: a decision that is repeated writes its rule again.
setAgain(rule) ==
    {x \in rules : x.cap # rule.cap \/ ~x.active}
        \cup {[x EXCEPT !.active = FALSE] : x \in {y \in rules : y.cap = rule.cap /\ y.active}}
        \cup {rule}

\* lecoding_set_project_policy_rule: a decision that is repeated finds its rule,
\* a new one replaces the active rule of its capability.
set(rule) ==
    IF \E x \in rules : x.source = rule.source THEN rules
    ELSE {x \in rules : x.cap # rule.cap \/ ~x.active}
            \cup {[x EXCEPT !.active = FALSE] : x \in {y \in rules : y.cap = rule.cap /\ y.active}}
            \cup {rule}

\* A source that decided otherwise before, or was another's, raises.
setRule(r) ==
    LET rule == newRule(drv[r].cmd, drv[r].cap)
    IN  /\ drv[r].step = "rule"
        /\ IF \E x \in rules : x.source = rule.source /\ ~sameRule(x, rule)
           THEN End(r) /\ UNCHANGED rules
           ELSE rules' = set(rule) /\ goto(r, "decide")
        /\ UNCHANGED <<approvals, reviews, snap, routed, bounds, performed>>

\* approvals.decide: the first decision, or its exact repetition.
decide(r) ==
    LET c == drv[r].cmd
        a == <<r, c.call>>
        row == [cap |-> approvals[a].cap, decision |-> IF c.type = "reject" THEN "deny" ELSE "allow",
                scope |-> c.scope, by |-> c.by, edit |-> c.edit]
    IN  /\ drv[r].step = "decide"
        /\ IF approvals[a].decision = "pending" \/ approvals[a] = row
           THEN approvals' = [approvals EXCEPT ![a] = row] /\ goto(r, "save")
           ELSE End(r) /\ UNCHANGED approvals
        /\ UNCHANGED <<rules, reviews, snap, routed, bounds, performed>>

\* Slip: an approval is remembered for the Run whatever its scope.
rememberAlways(r) ==
    LET c == drv[r].cmd
    IN  [snap[r] EXCEPT !.status = "running",
            !.approved = IF c.type # "reject" THEN @ \cup {snap[r].pending} ELSE @,
            !.denied = IF c.type = "reject" /\ c.scope # "once" THEN @ \cup {snap[r].pending} ELSE @]

\* The stored Run remembers what was decided for more than the call.
remember(r) ==
    LET c == drv[r].cmd
    IN  [snap[r] EXCEPT !.status = "running",
            !.approved = IF c.type = "approve" /\ c.scope # "once" THEN @ \cup {snap[r].pending} ELSE @,
            !.denied = IF c.type = "reject" /\ c.scope # "once" THEN @ \cup {snap[r].pending} ELSE @]

saveDecision(r) ==
    /\ drv[r].step = "save"
    /\ snap' = [snap EXCEPT ![r] = remember(r)]
    /\ goto(r, IF drv[r].cmd.type = "reject" THEN "rejected" ELSE "approved")
    /\ UNCHANGED <<rules, approvals, reviews, routed, bounds, performed>>

\* What was approved is performed as it was approved, what was rejected is told to
\* the model, and the drive goes on.
afterDecision(r) ==
    /\ \/ drv[r].step = "approved" /\ Performs(r, drv[r].cap, "approval")
       \/ drv[r].step = "rejected" /\ UNCHANGED performed
    /\ snap' = [snap EXCEPT ![r].pending = None]
    /\ drv' = [drv EXCEPT ![r] = [Idle EXCEPT !.step = "loop"]]
    /\ UNCHANGED <<rules, approvals, reviews, routed, bounds>>

\* An administrator revokes a rule that is active.
revoke(u) ==
    /\ inspectProjectRun(u, "admin")
    /\ \E x \in rules : x.active /\ rules' = (rules \ {x}) \cup {[x EXCEPT !.active = FALSE]}
    /\ UNCHANGED <<approvals, reviews, snap, drv, routed, bounds, performed>>

\* A Worker dies between two of the steps above; its requests die with it.
Crash(r) ==
    /\ drv[r] # Idle /\ crashes < MaxCrashes /\ crashes' = crashes + 1
    /\ End(r) /\ routed' = {c \in routed : c.run # r}
    /\ UNCHANGED <<stores, commands, performed>>

Drive(r) ==
    \/ resume(r) \/ drive(r) \/ evaluate(r) \/ review(r)
    \/ performWith(r) \/ deniedForRun(r) \/ policyDenied(r) \/ request(r) \/ waitForApproval(r)
    \/ affirmEdit(r) \/ setRule(r) \/ decide(r) \/ saveDecision(r) \/ afterDecision(r)

Next ==
    \/ \E r \in Runs : Drive(r) \/ Crash(r)
    \/ \E u \in Users : route(u) \/ revoke(u)
    \/ \E c \in routed : command(c)

Spec == Init /\ [][Next]_vars

-----------------------------------------------------------------------------
(* Properties *)

\* What is denied in every mode, and what the Run denies, is performed neither
\* under another Run's project rule, nor under an approval, nor as an edit
\* ("neither reviewer nor project allow rules can override them",
\* docs/phase-2-status.md:11; policy/src/index.ts:229-246).
DenialsHold == \A p \in performed : ~fixedDenial(p.cap) /\ ~denied(p.run, p.cap)

\* Whatever is performed without the mode allowing it goes back to somebody who
\* could allow it: an audited review, a rule an administrator made out of an
\* approval of the same capability, a decision for the Run, or a decision for
\* this very call, whose edit was narrower (run-engine/src/index.ts:973-1070).
PerformedIsJustified ==
    \A p \in performed :
        LET a == approvals[<<p.run, p.call>>]
        IN  \/ p.why = "mode" /\ snap[p.run].mode = "full_access"
            \/ p.why = "review" /\ \E x \in reviews : x.about = <<p.run, p.call>> /\ x.cap = p.cap
                                                        /\ x.decision = "allow"
            \/ p.why = "rule" /\ \E x \in rules : x.cap = p.cap /\ x.decision = "allow" /\ RoleOf[x.by] = "admin"
                                                    /\ approvals[x.source].cap = p.cap
            \/ p.why = "grant" /\ \E n \in 1..p.call :
                    LET b == approvals[<<p.run, n>>]
                    IN  b.cap = p.cap /\ b.decision = "allow" /\ b.scope # "once"
            \/ /\ p.why = "approval" /\ a.decision = "allow"
               /\ \/ a.edit = None /\ p.cap = a.cap
                  \/ a.edit = p.cap /\ <<a.edit, a.cap>> \in Narrower

\* A rule that was replaced or revoked stays so, however often the decision it
\* came from is repeated after a crash (postgres-project-policy-rules.ts:79-91).
SupersededStaysSuperseded ==
    [][\A x \in rules : ~x.active =>
            \A y \in rules' : y.source = x.source => ~y.active]_vars

=============================================================================
