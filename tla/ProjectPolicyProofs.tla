------------------------- MODULE ProjectPolicyProofs -------------------------
(***************************************************************************)
(* Proofs about ProjectPolicy for any Runs, capabilities, members, turns,  *)
(* commands and crashes: what is denied is not performed, what is          *)
(* performed goes back to who allowed it, and a rule that was replaced     *)
(* stays so.                                                               *)
(***************************************************************************)
EXTENDS ProjectPolicy, TLAPS

Cap == Capabilities \cup {None}
Modes3 == {"request_approval", "auto_review", "full_access"}

Approval == [cap: Cap, decision: {"none", "pending", "allow", "deny"},
             scope: {"none", "once", "run", "project"}, by: Users \cup {None}, edit: Cap]

Snapshot == [mode: Modes3, status: {"running", "waiting_approval", "failed", "succeeded"},
             call: Nat, pending: Cap, approved: SUBSET Capabilities, denied: SUBSET Capabilities]

Driver == [step: {"idle", "loop", "authorize", "review", "decided", "wait", "rule", "decide",
                  "save", "approved", "rejected"},
           cap: Cap, mode: Modes3 \cup {"none"},
           verdict: {"none", "allow", "deny", "ask", "review"},
           why: {"none", "mode", "rule", "review"}, cmd: Routed \cup {None}]

Types ==
    /\ approvals \in [Calls -> Approval]
    /\ snap \in [Runs -> Snapshot]
    /\ drv \in [Runs -> Driver]
    /\ routed \subseteq Routed
    /\ \A r \in Runs : snap[r].call <= MaxTurns[r]

\* One rule for each source, made by an administrator of the approval it names.
RulesOk ==
    /\ rules \subseteq Rule
    /\ \A x, y \in rules : x.source = y.source => x = y
    /\ \A x \in rules : RoleOf[x.by] = "admin" /\ approvals[x.source].cap = x.cap

\* What api.ts let through.
CommandOk(c) ==
    /\ c.scope = "project" => RoleOf[c.by] = "admin"
    /\ c.type = "edit_approve" <=> c.edit # None

Ok(r, cap) == ~fixedDenial(cap) /\ ~denied(r, cap)

Row(r) == approvals[<<r, snap[r].call>>]

\* The approvals of a Run belong to its calls so far, the last to the pending one.
AsksOk(r) ==
    /\ \A n \in 1..MaxTurns[r] :
         approvals[<<r, n>>] # Unasked =>
           /\ n <= snap[r].call /\ approvals[<<r, n>>].cap \in Capabilities
           /\ n = snap[r].call /\ snap[r].pending # None => approvals[<<r, n>>].cap = snap[r].pending
    /\ snap[r].pending # None => snap[r].call >= 1
    /\ snap[r].status = "waiting_approval" =>
         snap[r].pending # None /\ Row(r) # Unasked /\ Ok(r, snap[r].pending)
    /\ \A cap \in snap[r].approved : \E n \in 1..snap[r].call :
         /\ approvals[<<r, n>>].cap = cap /\ approvals[<<r, n>>].decision = "allow"
         /\ approvals[<<r, n>>].scope # "once"

\* A drive acts on the pending call of a Run that runs.
DriveOk(r) ==
    LET d == drv[r]
    IN  /\ d.step \in {"loop", "wait", "approved", "rejected"} => snap[r].status = "running"
        /\ d.cmd = None /\ d.step \in {"authorize", "review", "decided", "wait"} =>
             /\ snap[r].status = "running" /\ d.cap = snap[r].pending /\ d.cap # None
             /\ d.mode = snap[r].mode
        /\ d.step = "wait" => Row(r) # Unasked /\ Ok(r, snap[r].pending) /\ snap[r].pending # None
        /\ d.step \in {"idle", "loop", "wait"} => d.cmd = None
        /\ d.step \in {"rule", "decide", "save", "approved"} => d.cmd # None
        /\ d.step \in {"review", "rule", "decide", "save", "approved"} => Ok(r, d.cap)
        /\ d.step = "decided" /\ d.verdict # "deny" => Ok(r, d.cap)
        /\ d.step = "decided" => d.verdict \in {"allow", "deny", "ask"}
        /\ d.step = "decided" /\ d.cmd = None /\ d.verdict = "allow" =>
             \/ d.why = "mode" /\ d.mode = "full_access"
             \/ d.why = "review" /\ [about |-> <<r, snap[r].call>>, cap |-> d.cap,
                                     decision |-> "allow"] \in reviews
             \/ d.why = "rule" /\ \E x \in rules : x.cap = d.cap /\ x.decision = "allow"

\* A command that is carried out names the approval that is pending, and what it
\* carries out is what was asked or narrower.
CommandsOk(r) ==
    LET d == drv[r]
    IN  d.cmd # None =>
          /\ CommandOk(d.cmd) /\ d.cmd.run = r
          /\ d.step \notin {"approved", "rejected"} => snap[r].status = "waiting_approval"
          /\ d.cmd.call = snap[r].call /\ snap[r].pending # None /\ Row(r) # Unasked
          /\ d.cmd.edit = None => d.cap = snap[r].pending
          /\ d.cmd.edit # None => d.cap = d.cmd.edit /\ <<d.cap, snap[r].pending>> \in Narrower
          /\ d.step = "rule" => d.cmd.scope = "project" /\ d.cmd.edit = None
          /\ d.step \in {"save", "approved"} =>
               /\ Row(r).decision = IF d.cmd.type = "reject" THEN "deny" ELSE "allow"
               /\ Row(r).scope = d.cmd.scope /\ Row(r).edit = d.cmd.edit
          /\ d.step = "approved" => d.cmd.type # "reject"

RunOk(r) == AsksOk(r) /\ DriveOk(r) /\ CommandsOk(r)

PerformedOk ==
    \A p \in performed : p.run \in Runs /\ p.call \in 1..snap[p.run].call

IInv ==
    /\ Types /\ RulesOk
    /\ \A c \in routed : CommandOk(c)
    /\ \A r \in Runs : RunOk(r)
    /\ PerformedOk /\ DenialsHold /\ PerformedIsJustified

Justified(p) ==
    LET a == approvals[<<p.run, p.call>>]
    IN  \/ p.why = "mode" /\ snap[p.run].mode = "full_access"
        \/ p.why = "review" /\ \E x \in reviews : x.about = <<p.run, p.call>> /\ x.cap = p.cap
                                                    /\ x.decision = "allow"
        \/ p.why = "rule" /\ \E x \in rules : x.cap = p.cap /\ x.decision = "allow" /\ RoleOf[x.by] = "admin"
                                                /\ approvals[x.source].cap = p.cap
        \/ p.why = "grant" /\ \E n \in 1..p.call :
                LET b == approvals[<<p.run, n>>]
                IN  b.cap = p.cap /\ b.decision = "allow" /\ b.scope # "once"
        \/ /\ p.why = "approval" /\ a.decision = "allow"
           /\ \/ a.edit = None /\ p.cap = a.cap
              \/ a.edit = p.cap /\ <<a.edit, a.cap>> \in Narrower

\* What a step about Run r leaves alone, and what it never takes back.
Only(r) ==
    /\ \A q \in Runs \ {r} :
         /\ drv'[q] = drv[q] /\ snap'[q] = snap[q]
         /\ \A n \in 1..MaxTurns[q] : approvals'[<<q, n>>] = approvals[<<q, n>>]
    /\ \A n \in 1..MaxTurns[r] :
         /\ approvals[<<r, n>>] # Unasked => approvals'[<<r, n>>].cap = approvals[<<r, n>>].cap
         /\ approvals[<<r, n>>].decision = "allow" => approvals'[<<r, n>>] = approvals[<<r, n>>]
    /\ reviews \subseteq reviews'
    /\ \A x \in rules : \E y \in rules' :
         y.source = x.source /\ y.cap = x.cap /\ y.decision = x.decision /\ y.by = x.by
    /\ snap'[r].mode = snap[r].mode /\ snap'[r].call >= snap[r].call

-----------------------------------------------------------------------------
\* Data.

LEMMA CallsOf == /\ \A r \in Runs, n \in Nat : <<r, n>> \in Calls <=> n \in 1..MaxTurns[r]
                 /\ \A c \in Calls : \E r \in Runs : \E n \in 1..MaxTurns[r] : c = <<r, n>>
                 /\ \A r \in Runs : MaxTurns[r] \in Nat
BY PolicyAssumption DEF Calls

LEMMA SnapType ==
  ASSUME Types, NEW r \in Runs
  PROVE  /\ snap[r] \in Snapshot /\ snap[r].call \in Nat /\ snap[r].call <= MaxTurns[r]
         /\ snap[r].pending \in Cap /\ snap[r].mode \in Modes3
         /\ snap[r].approved \subseteq Capabilities /\ snap[r].denied \subseteq Capabilities
         /\ snap[r].status \in {"running", "waiting_approval", "failed", "succeeded"}
BY DEF Types, Snapshot

LEMMA DrvType ==
  ASSUME Types, NEW r \in Runs
  PROVE  /\ drv[r] \in Driver /\ drv[r].cap \in Cap /\ drv[r].mode \in Modes3 \cup {"none"}
         /\ drv[r].cmd \in Routed \cup {None}
BY DEF Types, Driver

LEMMA RowType ==
  ASSUME Types, NEW r \in Runs, NEW n \in 1..MaxTurns[r]
  PROVE  /\ approvals[<<r, n>>] \in Approval /\ <<r, n>> \in Calls
         /\ approvals[<<r, n>>].cap \in Cap
<1>1. <<r, n>> \in Calls
  BY CallsOf
<1>2. approvals[<<r, n>>] \in Approval
  BY <1>1 DEF Types
<1> QED BY <1>1, <1>2 DEF Approval

LEMMA RoutedType ==
  ASSUME NEW c \in Routed
  PROVE  /\ c.run \in Runs /\ c.call \in Nat /\ c.type \in {"approve", "reject", "edit_approve"}
         /\ c.scope \in {"once", "run", "project"} /\ c.edit \in Cap /\ c.by \in Users
         /\ c # None
BY PolicyAssumption DEF Routed, Cap

LEMMA RuleType ==
  ASSUME NEW x \in Rule
  PROVE  /\ x.source \in Calls /\ x.cap \in Capabilities /\ x.decision \in {"allow", "deny"}
         /\ x.by \in Users /\ x.active \in BOOLEAN
         /\ [x EXCEPT !.active = FALSE] \in Rule
         /\ [x EXCEPT !.active = FALSE].source = x.source
         /\ [x EXCEPT !.active = FALSE].cap = x.cap
         /\ [x EXCEPT !.active = FALSE].decision = x.decision
         /\ [x EXCEPT !.active = FALSE].by = x.by
         /\ [x EXCEPT !.active = FALSE].active = FALSE
BY DEF Rule

\* A drive that moves, and one that ends.
LEMMA Goes ==
  ASSUME Types, NEW r \in Runs,
         NEW s \in {"idle", "loop", "authorize", "review", "decided", "wait", "rule", "decide",
                    "save", "approved", "rejected"}, goto(r, s)
  PROVE  /\ drv' \in [Runs -> Driver] /\ \A q \in Runs \ {r} : drv'[q] = drv[q]
         /\ drv'[r].step = s /\ drv'[r].cap = drv[r].cap /\ drv'[r].mode = drv[r].mode
         /\ drv'[r].verdict = drv[r].verdict /\ drv'[r].why = drv[r].why
         /\ drv'[r].cmd = drv[r].cmd
<1>1. drv[r] \in Driver
  BY DrvType
<1>2. drv' = [drv EXCEPT ![r].step = s]
  BY DEF goto
<1>3. drv'[r] = [drv[r] EXCEPT !.step = s] /\ DOMAIN drv' = Runs
  BY <1>2 DEF Types
<1>4. drv'[r] \in Driver /\ drv'[r].step = s /\ drv'[r].cap = drv[r].cap
      /\ drv'[r].mode = drv[r].mode /\ drv'[r].verdict = drv[r].verdict
      /\ drv'[r].why = drv[r].why /\ drv'[r].cmd = drv[r].cmd
  BY <1>1, <1>3 DEF Driver
<1>5. \A q \in Runs \ {r} : drv'[q] = drv[q]
  BY <1>2 DEF Types
<1>6. drv' \in [Runs -> Driver]
  BY <1>2, <1>4, <1>5 DEF Types
<1> QED BY <1>4, <1>5, <1>6

LEMMA Ends ==
  ASSUME Types, NEW r \in Runs, End(r)
  PROVE  /\ drv' \in [Runs -> Driver] /\ \A q \in Runs \ {r} : drv'[q] = drv[q]
         /\ drv'[r] = Idle /\ drv'[r].step = "idle" /\ drv'[r].cmd = None
         /\ drv'[r].cap = None
<1>1. Idle \in Driver /\ Idle.step = "idle" /\ Idle.cmd = None /\ Idle.cap = None
  BY DEF Idle, Driver, Cap
<1> QED BY <1>1 DEF End, Types

LEMMA IdleOk ==
  ASSUME NEW r \in Runs, drv[r] = Idle
  PROVE  DriveOk(r) /\ CommandsOk(r)
BY DEF DriveOk, CommandsOk, Idle

-----------------------------------------------------------------------------
\* What a step about one Run does not disturb.

LEMMA Others ==
  ASSUME IInv, NEW r \in Runs, Only(r), NEW q \in Runs \ {r}
  PROVE  RunOk(q)'
<1>1. /\ drv'[q] = drv[q] /\ snap'[q] = snap[q] /\ reviews \subseteq reviews'
      /\ \A n \in 1..MaxTurns[q] : approvals'[<<q, n>>] = approvals[<<q, n>>]
      /\ \A x \in rules : \E y \in rules' : y.cap = x.cap /\ y.decision = x.decision
  BY DEF Only
<1>2. RunOk(q) /\ snap[q].call \in Nat /\ snap[q].call <= MaxTurns[q] /\ MaxTurns[q] \in Nat
  BY SnapType, CallsOf DEF IInv
<1>3. snap[q].call >= 1 => Row(q)' = Row(q)
  BY <1>1, <1>2 DEF Row
<1>4. AsksOk(q)'
  <2>1. \A n \in 1..snap[q].call : n \in 1..MaxTurns[q]
    BY <1>2
  <2> QED BY <1>1, <1>2, <1>3, <2>1 DEF RunOk, AsksOk, Ok, denied
<1>5. snap[q].pending # None => snap[q].call >= 1
  BY <1>2 DEF RunOk, AsksOk
<1>6. DriveOk(q)'
  BY <1>1, <1>2, <1>3, <1>5 DEF RunOk, DriveOk, Ok, denied
<1>7. CommandsOk(q)'
  BY <1>1, <1>2, <1>3, <1>5 DEF RunOk, CommandsOk, CommandOk
<1> QED BY <1>4, <1>6, <1>7 DEF RunOk

LEMMA StillJustified ==
  ASSUME IInv, NEW r \in Runs, Only(r), NEW p \in performed
  PROVE  Justified(p)'
<1>1. Justified(p) /\ p.run \in Runs /\ p.call \in 1..snap[p.run].call
  BY DEF IInv, PerformedIsJustified, Justified, PerformedOk
<1>2. p.call \in 1..MaxTurns[p.run] /\ \A n \in 1..p.call : n \in 1..MaxTurns[p.run]
  BY <1>1, SnapType, CallsOf DEF IInv
<1>3. \A n \in 1..MaxTurns[p.run] :
        approvals[<<p.run, n>>].decision = "allow" => approvals'[<<p.run, n>>] = approvals[<<p.run, n>>]
  BY <1>1 DEF Only
<1>4. snap'[p.run].mode = snap[p.run].mode /\ reviews \subseteq reviews'
  BY <1>1 DEF Only
<1>5. \A x \in rules : \E y \in rules' :
        /\ y.cap = x.cap /\ y.decision = x.decision /\ y.by = x.by
        /\ approvals'[y.source].cap = approvals[x.source].cap
  <2> SUFFICES ASSUME NEW x \in rules
               PROVE  \E y \in rules' : /\ y.cap = x.cap /\ y.decision = x.decision /\ y.by = x.by
                                        /\ approvals'[y.source].cap = approvals[x.source].cap
    OBVIOUS
  <2>1. x \in Rule /\ approvals[x.source].cap = x.cap
    BY DEF IInv, RulesOk
  <2>2. x.source \in Calls /\ x.cap \in Capabilities
    BY <2>1, RuleType
  <2>3. PICK q \in Runs : \E n \in 1..MaxTurns[q] : x.source = <<q, n>>
    BY <2>2, CallsOf
  <2>6. PICK n \in 1..MaxTurns[q] : x.source = <<q, n>>
    BY <2>3
  <2>4. approvals[<<q, n>>] # Unasked
    BY <2>1, <2>2, <2>6, PolicyAssumption DEF Unasked
  <2>5. approvals'[<<q, n>>].cap = approvals[<<q, n>>].cap
    BY <2>4 DEF Only
  <2> QED BY <2>5, <2>6 DEF Only
<1>6. p.why = "rule" => Justified(p)'
  BY <1>1, <1>5 DEF Justified
<1>7. p.why = "grant" => Justified(p)'
  BY <1>1, <1>2, <1>3 DEF Justified
<1>8. p.why = "approval" => Justified(p)'
  BY <1>1, <1>2, <1>3 DEF Justified
<1>9. p.why \in {"mode", "review"} => Justified(p)'
  BY <1>1, <1>4 DEF Justified
<1>10. p.why \in {"mode", "review", "rule", "grant", "approval"}
  BY <1>1 DEF Justified
<1> QED BY <1>6, <1>7, <1>8, <1>9, <1>10

LEMMA PerformedAfter ==
  ASSUME IInv, NEW r \in Runs, Only(r), Types',
         performed' \subseteq performed \cup {[run |-> r, call |-> snap[r].call, cap |-> drv[r].cap, why |-> drv[r].why],
                                            [run |-> r, call |-> snap[r].call, cap |-> drv[r].cap, why |-> "grant"],
                                            [run |-> r, call |-> snap[r].call, cap |-> drv[r].cap, why |-> "approval"]},
         performed' # performed => snap[r].call >= 1 /\ Ok(r, drv[r].cap),
         \A p \in performed' \ performed : Justified(p)'
  PROVE  PerformedOk' /\ DenialsHold' /\ PerformedIsJustified'
<1>1. \A q \in Runs : snap[q].call \in Nat /\ snap'[q].call \in Nat /\ snap[q].call <= snap'[q].call
  BY SnapType DEF IInv, Only, Types, Snapshot
<1>2. PerformedOk'
  <2> SUFFICES ASSUME NEW p \in performed' PROVE p.run \in Runs /\ p.call \in 1..snap'[p.run].call
    BY DEF PerformedOk
  <2>1. CASE p \in performed
    BY <1>1, <2>1 DEF IInv, PerformedOk
  <2>2. CASE p \notin performed
    BY <1>1, <2>2
  <2> QED BY <2>1, <2>2
<1>3. DenialsHold'
  BY DEF DenialsHold, IInv, Ok, fixedDenial, isHostControlCommand, isForbiddenNetworkTarget, denied
<1>4. \A p \in performed' : Justified(p)'
  BY StillJustified
<1>5. PerformedIsJustified'
  BY <1>4 DEF PerformedIsJustified, Justified
<1> QED BY <1>2, <1>3, <1>5

\* Rules that are left alone stay right while approvals keep their capability.
LEMMA RulesKept ==
  ASSUME IInv, NEW r \in Runs, Only(r), UNCHANGED rules
  PROVE  RulesOk'
<1> SUFFICES ASSUME NEW x \in rules PROVE approvals'[x.source].cap = x.cap
  BY DEF IInv, RulesOk
<1>1. x \in Rule /\ approvals[x.source].cap = x.cap
  BY DEF IInv, RulesOk
<1>2. x.source \in Calls /\ x.cap \in Capabilities
  BY <1>1, RuleType
<1>3. PICK q \in Runs : \E n \in 1..MaxTurns[q] : x.source = <<q, n>>
  BY <1>2, CallsOf
<1>6. PICK n \in 1..MaxTurns[q] : x.source = <<q, n>>
  BY <1>3
<1>4. approvals[<<q, n>>] # Unasked
  BY <1>1, <1>2, <1>6, PolicyAssumption DEF Unasked
<1>5. approvals'[<<q, n>>].cap = approvals[<<q, n>>].cap
  BY <1>4 DEF Only
<1> QED BY <1>1, <1>5, <1>6

\* A step about Run r, from what it does to that Run.
LEMMA StepOf ==
  ASSUME IInv, NEW r \in Runs, Only(r), Types', RunOk(r)', UNCHANGED <<rules, routed, performed>>
  PROVE  IInv'
<1>1. \A q \in Runs : RunOk(q)'
  BY Others
<1>2. \A c \in routed' : CommandOk(c)'
  BY DEF IInv, CommandOk
<1> QED BY <1>1, <1>2, RulesKept, PerformedAfter DEF IInv

LEMMA OnlyUnchanged ==
  ASSUME IInv, NEW r \in Runs, UNCHANGED <<rules, approvals>>, reviews \subseteq reviews',
         \A q \in Runs \ {r} : drv'[q] = drv[q] /\ snap'[q] = snap[q],
         snap'[r].mode = snap[r].mode, snap'[r].call >= snap[r].call
  PROVE  Only(r)
BY DEF Only

\* The pending call is done with; a Run changes its status.
LEMMA Cleared ==
  ASSUME Types, NEW r \in Runs, snap' = [snap EXCEPT ![r].pending = None]
  PROVE  /\ snap' \in [Runs -> Snapshot] /\ \A q \in Runs \ {r} : snap'[q] = snap[q]
         /\ snap'[r].pending = None /\ snap'[r].status = snap[r].status
         /\ snap'[r].mode = snap[r].mode /\ snap'[r].call = snap[r].call
         /\ snap'[r].approved = snap[r].approved
<1>1. snap[r] \in Snapshot
  BY SnapType
<1>2. snap'[r] = [snap[r] EXCEPT !.pending = None] /\ DOMAIN snap' = Runs
      /\ \A q \in Runs \ {r} : snap'[q] = snap[q]
  BY DEF Types
<1>3. /\ snap'[r] \in Snapshot /\ snap'[r].pending = None /\ snap'[r].status = snap[r].status
      /\ snap'[r].mode = snap[r].mode /\ snap'[r].call = snap[r].call
      /\ snap'[r].approved = snap[r].approved
  BY <1>1, <1>2 DEF Snapshot, Cap
<1> QED BY <1>2, <1>3 DEF Types

LEMMA StatusSet ==
  ASSUME Types, NEW r \in Runs, NEW s \in {"running", "waiting_approval", "failed", "succeeded"},
         snap' = [snap EXCEPT ![r].status = s]
  PROVE  /\ snap' \in [Runs -> Snapshot] /\ \A q \in Runs \ {r} : snap'[q] = snap[q]
         /\ snap'[r].pending = snap[r].pending /\ snap'[r].status = s
         /\ snap'[r].mode = snap[r].mode /\ snap'[r].call = snap[r].call
         /\ snap'[r].approved = snap[r].approved
<1>1. snap[r] \in Snapshot
  BY SnapType
<1>2. snap'[r] = [snap[r] EXCEPT !.status = s] /\ DOMAIN snap' = Runs
      /\ \A q \in Runs \ {r} : snap'[q] = snap[q]
  BY DEF Types
<1>3. /\ snap'[r] \in Snapshot /\ snap'[r].pending = snap[r].pending /\ snap'[r].status = s
      /\ snap'[r].mode = snap[r].mode /\ snap'[r].call = snap[r].call
      /\ snap'[r].approved = snap[r].approved
  BY <1>1, <1>2 DEF Snapshot
<1> QED BY <1>2, <1>3 DEF Types

\* The types after a step that leaves approvals and commands alone.
LEMMA TypesAfter ==
  ASSUME IInv, NEW r \in Runs, drv' \in [Runs -> Driver], snap' \in [Runs -> Snapshot],
         \A q \in Runs \ {r} : snap'[q] = snap[q], snap'[r].call <= MaxTurns[r],
         approvals' \in [Calls -> Approval], routed' \subseteq Routed
  PROVE  Types'
BY DEF IInv, Types

\* The approvals of a Run whose call stands, and whose pending capability stands or
\* goes.
LEMMA AsksKept ==
  ASSUME IInv, NEW r \in Runs, UNCHANGED approvals, snap'[r].call = snap[r].call,
         snap'[r].pending \in {None, snap[r].pending}, snap'[r].approved = snap[r].approved,
         snap'[r].status = "waiting_approval" =>
           snap'[r].pending # None /\ Row(r) # Unasked /\ Ok(r, snap[r].pending)
  PROVE  AsksOk(r)'
<1>1. AsksOk(r)
  BY DEF IInv, RunOk
<1> QED BY <1>1 DEF AsksOk, Row, Ok, fixedDenial, isHostControlCommand,
              isForbiddenNetworkTarget, denied

-----------------------------------------------------------------------------
\* The drive of a Run.

LEMMA ResumeStep ==
  ASSUME IInv, NEW r \in Runs, resume(r)
  PROVE  IInv'
<1>1. /\ drv[r] = Idle /\ snap[r].status = "running" /\ goto(r, "loop")
      /\ UNCHANGED <<rules, approvals, reviews, snap, routed, performed>>
  BY DEF resume, stores
<1>2. Types /\ snap[r].call \in Nat /\ snap[r].call <= MaxTurns[r]
  BY SnapType DEF IInv
<1>3. /\ drv' \in [Runs -> Driver] /\ \A q \in Runs \ {r} : drv'[q] = drv[q]
      /\ drv'[r].step = "loop" /\ drv'[r].cmd = drv[r].cmd
  BY <1>1, <1>2, Goes
<1>4. Types' /\ Only(r)
  BY <1>1, <1>2, <1>3, OnlyUnchanged, TypesAfter DEF Types
<1>5. RunOk(r)'
  <2>1. AsksOk(r)'
    BY <1>1, AsksKept DEF IInv, RunOk, AsksOk
  <2>2. drv[r].cmd = None
    BY <1>1 DEF Idle
  <2> QED BY <1>1, <1>3, <2>1, <2>2 DEF RunOk, DriveOk, CommandsOk
<1> QED BY <1>1, <1>4, <1>5, StepOf

LEMMA DriveStep ==
  ASSUME IInv, NEW r \in Runs, drive(r)
  PROVE  IInv'
<1>1. /\ drv[r].step = "loop" /\ UNCHANGED <<rules, approvals, reviews, routed, performed>>
  BY DEF drive
<1>2. Types /\ snap[r] \in Snapshot /\ snap[r].call \in Nat /\ snap[r].call <= MaxTurns[r]
      /\ snap[r].pending \in Cap /\ snap[r].mode \in Modes3 /\ MaxTurns[r] \in Nat
  BY SnapType, CallsOf DEF IInv
<1>3. RunOk(r) /\ snap[r].status = "running"
  BY <1>1 DEF IInv, RunOk, DriveOk
<1>4. ASSUME NEW cap \in Capabilities,
             drv' = [drv EXCEPT ![r] = [Idle EXCEPT !.step = "authorize", !.cap = cap, !.mode = snap[r].mode]]
      PROVE  /\ drv' \in [Runs -> Driver] /\ \A q \in Runs \ {r} : drv'[q] = drv[q]
             /\ drv'[r].step = "authorize" /\ drv'[r].cmd = None /\ drv'[r].cap = cap
             /\ drv'[r].mode = snap[r].mode
  <2>1. drv'[r] = [Idle EXCEPT !.step = "authorize", !.cap = cap, !.mode = snap[r].mode]
        /\ DOMAIN drv' = Runs /\ \A q \in Runs \ {r} : drv'[q] = drv[q]
    BY <1>2, <1>4 DEF Types
  <2>2. drv'[r] \in Driver /\ drv'[r].step = "authorize" /\ drv'[r].cmd = None
        /\ drv'[r].cap = cap /\ drv'[r].mode = snap[r].mode
    BY <1>2, <2>1 DEF Idle, Driver, Cap
  <2>3. drv' \in [Runs -> Driver]
    BY <1>2, <1>4, <2>1, <2>2 DEF Types
  <2> QED BY <2>1, <2>2, <2>3
<1>5. CASE snap[r].pending # None /\ ask(r, snap[r].pending) /\ UNCHANGED snap
  <2>1. snap[r].pending \in Capabilities
    BY <1>2, <1>5 DEF Cap
  <2>2. /\ drv' \in [Runs -> Driver] /\ \A q \in Runs \ {r} : drv'[q] = drv[q]
        /\ drv'[r].step = "authorize" /\ drv'[r].cmd = None /\ drv'[r].cap = snap[r].pending
        /\ drv'[r].mode = snap[r].mode
    BY <1>4, <1>5, <2>1 DEF ask
  <2>3. Types' /\ Only(r)
    BY <1>1, <1>2, <1>5, <2>2, OnlyUnchanged, TypesAfter DEF Types
  <2>4. AsksOk(r)'
    BY <1>1, <1>3, <1>5, AsksKept
  <2>5. DriveOk(r)' /\ CommandsOk(r)'
    BY <1>3, <1>5, <2>2 DEF DriveOk, CommandsOk
  <2> QED BY <1>1, <2>3, <2>4, <2>5, StepOf DEF RunOk
<1>6. CASE /\ snap[r].pending = None /\ snap[r].call < MaxTurns[r]
           /\ \E cap \in Capabilities :
                 /\ snap' = [snap EXCEPT ![r].call = @ + 1, ![r].pending = cap]
                 /\ ask(r, cap)
  <2>1. PICK cap \in Capabilities : /\ snap' = [snap EXCEPT ![r].call = @ + 1, ![r].pending = cap]
                                    /\ ask(r, cap)
    BY <1>6
  <2>2. /\ drv' \in [Runs -> Driver] /\ \A q \in Runs \ {r} : drv'[q] = drv[q]
        /\ drv'[r].step = "authorize" /\ drv'[r].cmd = None /\ drv'[r].cap = cap
        /\ drv'[r].mode = snap[r].mode
    BY <1>4, <2>1 DEF ask
  <2>3. snap'[r] = [snap[r] EXCEPT !.call = @ + 1, !.pending = cap] /\ DOMAIN snap' = Runs
        /\ \A q \in Runs \ {r} : snap'[q] = snap[q]
    BY <1>2, <2>1 DEF Types
  <2>4. /\ snap'[r] \in Snapshot /\ snap'[r].pending = cap /\ snap'[r].status = "running"
        /\ snap'[r].mode = snap[r].mode /\ snap'[r].call = snap[r].call + 1
        /\ snap'[r].approved = snap[r].approved
    <3>1. /\ snap[r].status \in {"running", "waiting_approval", "failed", "succeeded"}
          /\ snap[r].approved \in SUBSET Capabilities /\ snap[r].denied \in SUBSET Capabilities
          /\ snap[r].call + 1 \in Nat /\ cap \in Cap
      BY <1>2 DEF Snapshot, Cap
    <3>2. snap'[r] = [mode |-> snap[r].mode, status |-> snap[r].status, call |-> snap[r].call + 1,
                      pending |-> cap, approved |-> snap[r].approved, denied |-> snap[r].denied]
      BY <1>2, <2>3 DEF Snapshot
    <3> QED BY <1>2, <1>3, <3>1, <3>2 DEF Snapshot
  <2>5. snap' \in [Runs -> Snapshot]
    BY <1>2, <2>1, <2>3, <2>4 DEF Types
  <2>6. Types' /\ Only(r)
    BY <1>1, <1>2, <1>6, <2>2, <2>3, <2>4, <2>5, OnlyUnchanged, TypesAfter DEF Types
  <2>7. AsksOk(r)'
    <3>1. AsksOk(r)
      BY <1>3 DEF RunOk
    <3>2. \A n \in 1..MaxTurns[r] : approvals[<<r, n>>] # Unasked =>
            n <= snap[r].call /\ approvals[<<r, n>>].cap \in Capabilities
      BY <3>1 DEF AsksOk
    <3>3. \A n \in 1..MaxTurns[r] : approvals[<<r, n>>] # Unasked =>
            n <= snap[r].call + 1 /\ n # snap[r].call + 1
      BY <1>2, <3>2
    <3>4. \A n \in 1..snap[r].call : n \in 1..snap[r].call + 1
      BY <1>2
    <3>5. \A c \in snap[r].approved : \E n \in 1..snap[r].call + 1 :
            /\ approvals[<<r, n>>].cap = c /\ approvals[<<r, n>>].decision = "allow"
            /\ approvals[<<r, n>>].scope # "once"
      BY <3>1, <3>4 DEF AsksOk
    <3> QED BY <1>1, <1>2, <2>4, <3>2, <3>3, <3>5 DEF AsksOk
  <2>8. DriveOk(r)' /\ CommandsOk(r)'
    BY <2>2, <2>4, PolicyAssumption DEF DriveOk, CommandsOk
  <2> QED BY <1>1, <2>6, <2>7, <2>8, StepOf DEF RunOk
<1>7. CASE snap' = [snap EXCEPT ![r].status = "succeeded"] /\ End(r)
  <2>1. /\ snap' \in [Runs -> Snapshot] /\ \A q \in Runs \ {r} : snap'[q] = snap[q]
        /\ snap'[r].pending = snap[r].pending /\ snap'[r].status = "succeeded"
        /\ snap'[r].mode = snap[r].mode /\ snap'[r].call = snap[r].call
        /\ snap'[r].approved = snap[r].approved
    BY <1>2, <1>7, StatusSet
  <2>2. /\ drv' \in [Runs -> Driver] /\ \A q \in Runs \ {r} : drv'[q] = drv[q]
        /\ drv'[r].step = "idle" /\ drv'[r].cmd = None
    BY <1>2, <1>7, Ends
  <2>3. Types' /\ Only(r)
    BY <1>1, <1>2, <2>1, <2>2, OnlyUnchanged, TypesAfter DEF Types
  <2>4. AsksOk(r)'
    BY <1>1, <2>1, AsksKept
  <2>5. DriveOk(r)' /\ CommandsOk(r)'
    BY <2>1, <2>2 DEF DriveOk, CommandsOk
  <2> QED BY <1>1, <2>3, <2>4, <2>5, StepOf DEF RunOk
<1> QED BY <1>5, <1>6, <1>7 DEF drive

\* What the policy engine answers is no reach beyond the denials, and an allow has a
\* rule or the mode behind it.
LEMMA AuthorizeIs ==
  ASSUME NEW r \in Runs, NEW cap \in Capabilities, NEW mode
  PROVE  /\ authorize(r, cap, mode)[1] \in {"allow", "deny", "ask", "review"}
         /\ authorize(r, cap, mode)[2] \in {"none", "mode", "rule"}
         /\ authorize(r, cap, mode)[1] # "deny" => Ok(r, cap)
         /\ authorize(r, cap, mode)[1] = "allow" =>
              \/ authorize(r, cap, mode)[2] = "mode" /\ mode = "full_access"
              \/ authorize(r, cap, mode)[2] = "rule" /\ resolve(cap) = "allow"
<1>1. undeclared(cap) => ~denied(r, cap)
  BY PolicyAssumption DEF undeclared, denied
<1> QED BY <1>1 DEF authorize, Ok

LEMMA ResolveIs ==
  ASSUME NEW cap, resolve(cap) = "allow"
  PROVE  \E x \in rules : x.cap = cap /\ x.decision = "allow"
<1> DEFINE active == {x \in rules : x.active /\ x.cap = cap}
<1>1. resolve(cap) = IF active = {} THEN "none" ELSE (CHOOSE x \in active : TRUE).decision
  BY DEF resolve
<1>2. active # {} => (CHOOSE x \in active : TRUE) \in active
  OBVIOUS
<1> HIDE DEF active
<1>3. (CHOOSE x \in active : TRUE) \in active /\ (CHOOSE x \in active : TRUE).decision = "allow"
  BY <1>1, <1>2
<1>4. \A x \in active : x \in rules /\ x.cap = cap
  BY DEF active
<1> QED BY <1>3, <1>4

\* A drive that has its verdict.
Judged(r, s, v, w) == drv' = [drv EXCEPT ![r].step = s, ![r].verdict = v, ![r].why = w]

LEMMA VerdictType ==
  ASSUME Types, NEW r \in Runs, NEW s \in {"review", "decided"},
         NEW v \in {"allow", "deny", "ask", "review"}, NEW w \in {"none", "mode", "rule", "review"},
         Judged(r, s, v, w)
  PROVE  /\ drv' \in [Runs -> Driver] /\ \A q \in Runs \ {r} : drv'[q] = drv[q]
         /\ drv'[r].step = s /\ drv'[r].cap = drv[r].cap /\ drv'[r].mode = drv[r].mode
         /\ drv'[r].verdict = v /\ drv'[r].why = w /\ drv'[r].cmd = drv[r].cmd
<1>1. drv[r] \in Driver
  BY DrvType
<1>2. drv' = [drv EXCEPT ![r].step = s, ![r].verdict = v, ![r].why = w]
  BY DEF Judged
<1>5. DOMAIN drv' = Runs /\ \A q \in Runs \ {r} : drv'[q] = drv[q]
  BY <1>2 DEF Types
<1>6. drv'[r] = [step |-> s, cap |-> drv[r].cap, mode |-> drv[r].mode, verdict |-> v, why |-> w,
                 cmd |-> drv[r].cmd]
  BY <1>1, <1>2 DEF Types, Driver
<1>3. drv'[r] \in Driver /\ drv'[r].step = s /\ drv'[r].cap = drv[r].cap
      /\ drv'[r].mode = drv[r].mode /\ drv'[r].verdict = v /\ drv'[r].why = w
      /\ drv'[r].cmd = drv[r].cmd
  BY <1>1, <1>6 DEF Driver
<1>4. drv' \in [Runs -> Driver]
  BY <1>2, <1>3, <1>5 DEF Types
<1> QED BY <1>3, <1>4, <1>5

\* The capability that is judged.
LEMMA JudgedCap ==
  ASSUME IInv, NEW r \in Runs, drv[r].step \in {"authorize", "review", "decided"}
  PROVE  /\ drv[r].cap \in Capabilities
         /\ snap[r].pending \in Capabilities /\ snap[r].call \in 1..MaxTurns[r]
<1>1. /\ drv[r].cap \in Cap /\ drv[r].cmd \in Routed \cup {None} /\ snap[r].pending \in Cap
      /\ snap[r].call \in Nat /\ snap[r].call <= MaxTurns[r] /\ MaxTurns[r] \in Nat
  BY DrvType, SnapType, CallsOf DEF IInv
<1>2. RunOk(r)
  BY DEF IInv
<1>3. CASE drv[r].cmd = None
  BY <1>1, <1>2, <1>3 DEF RunOk, DriveOk, AsksOk, Cap
<1>4. CASE drv[r].cmd # None
  BY <1>1, <1>2, <1>4 DEF RunOk, CommandsOk, AsksOk, Cap
<1> QED BY <1>3, <1>4

LEMMA EvaluateStep ==
  ASSUME IInv, NEW r \in Runs, evaluate(r)
  PROVE  IInv'
<1> DEFINE verdict == authorize(r, drv[r].cap, drv[r].mode)[1]
           why == authorize(r, drv[r].cap, drv[r].mode)[2]
           step == IF verdict = "review" THEN "review" ELSE "decided"
<1>1. /\ drv[r].step = "authorize"
      /\ Judged(r, step, verdict, why)
      /\ UNCHANGED <<rules, approvals, reviews, snap, routed, performed>>
  BY DEF evaluate, stores, Judged
<1>2. Types /\ RunOk(r) /\ snap[r].call \in Nat /\ snap[r].call <= MaxTurns[r]
  BY SnapType DEF IInv
<1>3. drv[r].cap \in Capabilities /\ snap[r].pending \in Capabilities
  BY <1>1, JudgedCap
<1>4. /\ verdict \in {"allow", "deny", "ask", "review"} /\ why \in {"none", "mode", "rule"}
      /\ verdict # "deny" => Ok(r, drv[r].cap)
      /\ verdict = "allow" =>
              \/ why = "mode" /\ drv[r].mode = "full_access"
              \/ why = "rule" /\ resolve(drv[r].cap) = "allow"
  BY <1>3, AuthorizeIs
<1>5. verdict = "allow" =>
              \/ why = "mode" /\ drv[r].mode = "full_access"
              \/ why = "rule" /\ \E x \in rules : x.cap = drv[r].cap /\ x.decision = "allow"
  BY <1>4, ResolveIs
<1>6. /\ step \in {"review", "decided"} /\ (step = "decided" <=> verdict # "review")
  OBVIOUS
<1> HIDE DEF verdict, why, step
<1>7. /\ drv' \in [Runs -> Driver] /\ \A q \in Runs \ {r} : drv'[q] = drv[q]
      /\ drv'[r].step = step /\ drv'[r].cap = drv[r].cap /\ drv'[r].mode = drv[r].mode
      /\ drv'[r].verdict = verdict /\ drv'[r].why = why /\ drv'[r].cmd = drv[r].cmd
  BY <1>1, <1>2, <1>4, <1>6, VerdictType
<1>8. Types' /\ Only(r)
  BY <1>1, <1>2, <1>7, OnlyUnchanged, TypesAfter DEF Types
<1>9. AsksOk(r)'
  BY <1>1, <1>2, AsksKept DEF RunOk, AsksOk
<1>10. Ok(r, drv[r].cap)' <=> Ok(r, drv[r].cap)
  BY <1>7 DEF Ok, fixedDenial, isHostControlCommand, isForbiddenNetworkTarget, denied
<1>11. DriveOk(r)'
  <2>1. verdict # "deny" => Ok(r, drv[r].cap)'
    BY <1>4, <1>10
  <2>2. drv[r].cmd = None =>
             /\ snap[r].status = "running" /\ drv[r].cap = snap[r].pending /\ drv[r].cap # None
             /\ drv[r].mode = snap[r].mode
    BY <1>1, <1>2 DEF RunOk, DriveOk
  <2>3. verdict \in {"allow", "deny", "ask", "review"}
    BY <1>4
  <2>4. verdict = "review" => verdict # "deny"
    OBVIOUS
  <2> QED BY <1>1, <1>5, <1>6, <1>7, <2>1, <2>2, <2>3, <2>4 DEF DriveOk
<1>12. CommandsOk(r)'
  BY <1>1, <1>2, <1>6, <1>7 DEF RunOk, CommandsOk, CommandOk, Row
<1> QED BY <1>1, <1>8, <1>9, <1>11, <1>12, StepOf DEF RunOk

\* A Run whose drive ends with nothing else done, as when a review conflicts or a
\* Worker dies.
LEMMA EndStep ==
  ASSUME IInv, NEW r \in Runs, End(r), UNCHANGED <<rules, approvals, reviews, snap, performed>>,
         routed' \subseteq routed
  PROVE  IInv'
<1>1. Types /\ RunOk(r) /\ snap[r].call \in Nat /\ snap[r].call <= MaxTurns[r]
  BY SnapType DEF IInv
<1>2. /\ drv' \in [Runs -> Driver] /\ \A q \in Runs \ {r} : drv'[q] = drv[q]
      /\ drv'[r].step = "idle" /\ drv'[r].cmd = None
  BY <1>1, Ends
<1>3. Types' /\ Only(r)
  BY <1>1, <1>2, OnlyUnchanged, TypesAfter DEF Types
<1>4. AsksOk(r)'
  BY <1>1, AsksKept DEF RunOk, AsksOk
<1>5. DriveOk(r)' /\ CommandsOk(r)'
  BY <1>2 DEF DriveOk, CommandsOk
<1>6. \A q \in Runs : RunOk(q)'
  BY <1>3, <1>4, <1>5, Others DEF RunOk
<1>7. \A c \in routed' : CommandOk(c)'
  BY DEF IInv, CommandOk
<1> QED BY <1>3, <1>6, <1>7, RulesKept, PerformedAfter DEF IInv

LEMMA ReviewStep ==
  ASSUME IInv, NEW r \in Runs, review(r)
  PROVE  IInv'
<1> DEFINE about == IF drv[r].cmd = None THEN <<r, snap[r].call>> ELSE <<r, drv[r].cap>>
           says == reviewerSays(drv[r].cap)
           entry == [about |-> about, cap |-> drv[r].cap, decision |-> says]
<1>1. /\ drv[r].step = "review" /\ UNCHANGED <<rules, approvals, snap, routed, performed>>
      /\ \/ End(r) /\ UNCHANGED reviews
         \/ /\ reviews' = reviews \cup {entry}
            /\ Judged(r, "decided", says, "review")
  BY DEF review, Judged
<1>2. Types /\ RunOk(r) /\ snap[r].call \in Nat /\ snap[r].call <= MaxTurns[r]
  BY SnapType DEF IInv
<1>3. CASE End(r) /\ UNCHANGED reviews
  BY <1>1, <1>3, EndStep
<1>4. CASE /\ reviews' = reviews \cup {entry}
           /\ Judged(r, "decided", says, "review")
  <2>1. says \in {"allow", "ask"}
    BY DEF reviewerSays
  <2>2. drv[r].cmd = None => about = <<r, snap[r].call>>
    OBVIOUS
  <2> HIDE DEF says, about
  <2>3. /\ drv' \in [Runs -> Driver] /\ \A q \in Runs \ {r} : drv'[q] = drv[q]
        /\ drv'[r].step = "decided" /\ drv'[r].cap = drv[r].cap /\ drv'[r].mode = drv[r].mode
        /\ drv'[r].verdict = says /\ drv'[r].why = "review" /\ drv'[r].cmd = drv[r].cmd
    BY <1>2, <1>4, <2>1, VerdictType
  <2>4. Types' /\ Only(r)
    BY <1>1, <1>2, <1>4, <2>3, OnlyUnchanged, TypesAfter DEF Types
  <2>5. AsksOk(r)'
    BY <1>1, <1>2, AsksKept DEF RunOk, AsksOk
  <2>6. Ok(r, drv[r].cap)'
    BY <1>1, <1>2, <2>3 DEF RunOk, DriveOk, Ok, fixedDenial, isHostControlCommand,
       isForbiddenNetworkTarget, denied
  <2>7. DriveOk(r)'
    <3>1. drv[r].cmd = None =>
             /\ snap[r].status = "running" /\ drv[r].cap = snap[r].pending /\ drv[r].cap # None
             /\ drv[r].mode = snap[r].mode
      BY <1>1, <1>2 DEF RunOk, DriveOk
    <3>2. drv[r].cmd = None /\ says = "allow" =>
            [about |-> <<r, snap[r].call>>, cap |-> drv[r].cap, decision |-> "allow"] \in reviews'
      BY <1>4, <2>2
    <3> QED BY <1>1, <2>1, <2>3, <2>6, <3>1, <3>2 DEF DriveOk
  <2>8. CommandsOk(r)'
    BY <1>1, <1>2, <2>3 DEF RunOk, CommandsOk, CommandOk, Row
  <2> QED BY <1>1, <2>4, <2>5, <2>7, <2>8, StepOf DEF RunOk
<1> QED BY <1>1, <1>3, <1>4

\* A call that is done with is followed by the next, performed or not.
LEMMA NextCall ==
  ASSUME IInv, NEW r \in Runs, snap' = [snap EXCEPT ![r].pending = None],
         snap[r].status = "running",
         drv' \in [Runs -> Driver], \A q \in Runs \ {r} : drv'[q] = drv[q],
         drv'[r].step = "loop", drv'[r].cmd = None,
         UNCHANGED <<rules, approvals, reviews, routed>>,
         performed' \subseteq performed \cup {[run |-> r, call |-> snap[r].call, cap |-> drv[r].cap, why |-> drv[r].why],
                                            [run |-> r, call |-> snap[r].call, cap |-> drv[r].cap, why |-> "grant"],
                                            [run |-> r, call |-> snap[r].call, cap |-> drv[r].cap, why |-> "approval"]},
         performed' # performed => snap[r].call >= 1 /\ Ok(r, drv[r].cap),
         \A p \in performed' \ performed : Justified(p)
  PROVE  IInv'
<1>1. Types /\ RunOk(r) /\ snap[r].call \in Nat /\ snap[r].call <= MaxTurns[r]
  BY SnapType DEF IInv
<1>2. /\ snap' \in [Runs -> Snapshot] /\ \A q \in Runs \ {r} : snap'[q] = snap[q]
      /\ snap'[r].pending = None /\ snap'[r].status = snap[r].status
      /\ snap'[r].mode = snap[r].mode /\ snap'[r].call = snap[r].call
      /\ snap'[r].approved = snap[r].approved
  BY <1>1, Cleared
<1>3. Types' /\ Only(r)
  BY <1>1, <1>2, OnlyUnchanged, TypesAfter DEF Types
<1>4. AsksOk(r)'
  BY <1>1, <1>2, AsksKept
<1>5. DriveOk(r)' /\ CommandsOk(r)'
  BY <1>2 DEF DriveOk, CommandsOk
<1>6. \A q \in Runs : RunOk(q)'
  BY <1>3, <1>4, <1>5, Others DEF RunOk
<1>7. \A c \in routed' : CommandOk(c)'
  BY DEF IInv, CommandOk
<1>8. \A q \in Runs : snap'[q].mode = snap[q].mode
  BY <1>2
<1>9. \A p \in performed' \ performed : p.run = r
  OBVIOUS
<1>10. \A p \in performed' \ performed : Justified(p)'
  <2> SUFFICES ASSUME NEW p \in performed' \ performed PROVE Justified(p)'
    OBVIOUS
  <2>1. Justified(p) /\ snap'[p.run].mode = snap[p.run].mode
    BY <1>8, <1>9
  <2> QED BY <2>1 DEF Justified
<1> QED BY <1>3, <1>6, <1>7, <1>10, RulesKept, PerformedAfter DEF IInv

LEMMA DecidedFacts ==
  ASSUME IInv, NEW r \in Runs, Decided(r)
  PROVE  /\ snap[r].status = "running" /\ drv[r].cap = snap[r].pending /\ drv[r].cap \in Capabilities
         /\ drv[r].mode = snap[r].mode /\ snap[r].call \in 1..MaxTurns[r] /\ drv[r].cmd = None
         /\ drv[r].verdict # "deny" => Ok(r, drv[r].cap)
         /\ drv[r].verdict \in {"allow", "deny", "ask"}
<1>1. RunOk(r) /\ drv[r].step = "decided" /\ drv[r].cmd = None
  BY DEF IInv, Decided
<1> QED BY <1>1, JudgedCap DEF RunOk, DriveOk

LEMMA PerformStep ==
  ASSUME IInv, NEW r \in Runs, performWith(r)
  PROVE  IInv'
<1> DEFINE why == IF drv[r].verdict = "allow" THEN drv[r].why ELSE "grant"
           p == [run |-> r, call |-> snap[r].call, cap |-> drv[r].cap, why |-> why]
<1>1. /\ Decided(r) /\ (drv[r].verdict = "allow" \/ granted(r))
      /\ performed' = performed \cup {p}
      /\ snap' = [snap EXCEPT ![r].pending = None] /\ goto(r, "loop")
      /\ UNCHANGED <<rules, approvals, reviews, routed>>
  BY DEF performWith, Performs
<1>2. Types /\ RunOk(r)
  BY DEF IInv
<1>3. /\ snap[r].status = "running" /\ drv[r].cap = snap[r].pending /\ drv[r].cap \in Capabilities
      /\ drv[r].mode = snap[r].mode /\ snap[r].call \in 1..MaxTurns[r] /\ drv[r].cmd = None
      /\ drv[r].verdict # "deny" => Ok(r, drv[r].cap)
      /\ drv[r].verdict \in {"allow", "deny", "ask"}
  BY <1>1, DecidedFacts
<1>4. drv[r].verdict # "deny"
  BY <1>1 DEF granted
<1>5. Justified(p)
  <2>1. CASE drv[r].verdict = "allow"
    <3>1. \/ drv[r].why = "mode" /\ drv[r].mode = "full_access"
          \/ drv[r].why = "review" /\ [about |-> <<r, snap[r].call>>, cap |-> drv[r].cap,
                                     decision |-> "allow"] \in reviews
          \/ drv[r].why = "rule" /\ \E x \in rules : x.cap = drv[r].cap /\ x.decision = "allow"
      BY <1>1, <1>2, <2>1 DEF RunOk, DriveOk, Decided
    <3>2. \A x \in rules : RoleOf[x.by] = "admin" /\ approvals[x.source].cap = x.cap
      BY DEF IInv, RulesOk
    <3>3. p.run = r /\ p.call = snap[r].call /\ p.cap = drv[r].cap /\ p.why = drv[r].why
      BY <2>1
    <3> HIDE DEF p
    <3>4. CASE drv[r].why = "review"
      <4>1. [about |-> <<r, snap[r].call>>, cap |-> drv[r].cap, decision |-> "allow"] \in reviews
        BY <3>1, <3>4
      <4> QED BY <3>3, <3>4, <4>1 DEF Justified
    <3>5. CASE drv[r].why = "rule"
      BY <3>1, <3>2, <3>3, <3>5 DEF Justified
    <3>6. CASE drv[r].why = "mode"
      BY <1>3, <3>1, <3>3, <3>6 DEF Justified
    <3> QED BY <3>1, <3>4, <3>5, <3>6
  <2>2. CASE granted(r)
    <3>1. drv[r].cap \in snap[r].approved /\ why = "grant"
      BY <2>2 DEF granted
    <3>2. \E n \in 1..snap[r].call :
            /\ approvals[<<r, n>>].cap = drv[r].cap /\ approvals[<<r, n>>].decision = "allow"
            /\ approvals[<<r, n>>].scope # "once"
      BY <1>2, <3>1 DEF RunOk, AsksOk
    <3>3. p.run = r /\ p.call = snap[r].call /\ p.cap = drv[r].cap /\ p.why = "grant"
      BY <3>1
    <3> HIDE DEF p
    <3> QED BY <3>2, <3>3 DEF Justified
  <2> QED BY <1>1, <2>1, <2>2
<1>6. /\ drv' \in [Runs -> Driver] /\ \A q \in Runs \ {r} : drv'[q] = drv[q]
      /\ drv'[r].step = "loop" /\ drv'[r].cmd = None
  BY <1>1, <1>2, <1>3, Goes
<1>7. p \in {[run |-> r, call |-> snap[r].call, cap |-> drv[r].cap, why |-> drv[r].why],
            [run |-> r, call |-> snap[r].call, cap |-> drv[r].cap, why |-> "grant"]}
  OBVIOUS
<1>8. snap[r].call >= 1 /\ Ok(r, drv[r].cap)
  BY <1>3, <1>4
<1> HIDE DEF p, why
<1> QED BY <1>1, <1>3, <1>5, <1>6, <1>7, <1>8, NextCall

LEMMA DeniedStep ==
  ASSUME IInv, NEW r \in Runs, deniedForRun(r)
  PROVE  IInv'
<1>1. /\ Decided(r) /\ snap' = [snap EXCEPT ![r].pending = None] /\ goto(r, "loop")
      /\ UNCHANGED <<rules, approvals, reviews, routed, performed>>
  BY DEF deniedForRun
<1>2. snap[r].status = "running" /\ drv[r].cmd = None
  BY <1>1, DecidedFacts
<1>3. /\ drv' \in [Runs -> Driver] /\ \A q \in Runs \ {r} : drv'[q] = drv[q]
      /\ drv'[r].step = "loop" /\ drv'[r].cmd = None
  BY <1>1, <1>2, Goes DEF IInv
<1> QED BY <1>1, <1>2, <1>3, NextCall

\* A drive ends and its Run changes its status, to fail or to wait.
LEMMA StatusStep ==
  ASSUME IInv, NEW r \in Runs, NEW s \in {"failed", "waiting_approval"},
         snap' = [snap EXCEPT ![r].status = s], End(r),
         s = "waiting_approval" =>
           snap[r].pending # None /\ Row(r) # Unasked /\ Ok(r, snap[r].pending),
         UNCHANGED <<rules, approvals, reviews, routed, performed>>
  PROVE  IInv'
<1>1. Types /\ RunOk(r) /\ snap[r].call \in Nat /\ snap[r].call <= MaxTurns[r]
  BY SnapType DEF IInv
<1>2. /\ snap' \in [Runs -> Snapshot] /\ \A q \in Runs \ {r} : snap'[q] = snap[q]
      /\ snap'[r].pending = snap[r].pending /\ snap'[r].status = s
      /\ snap'[r].mode = snap[r].mode /\ snap'[r].call = snap[r].call
      /\ snap'[r].approved = snap[r].approved
  BY <1>1, StatusSet
<1>3. /\ drv' \in [Runs -> Driver] /\ \A q \in Runs \ {r} : drv'[q] = drv[q]
      /\ drv'[r].step = "idle" /\ drv'[r].cmd = None
  BY <1>1, Ends
<1>4. Types' /\ Only(r)
  BY <1>1, <1>2, <1>3, OnlyUnchanged, TypesAfter DEF Types
<1>5. AsksOk(r)'
  BY <1>2, AsksKept
<1>6. DriveOk(r)' /\ CommandsOk(r)'
  BY <1>3 DEF DriveOk, CommandsOk
<1> QED BY <1>4, <1>5, <1>6, StepOf DEF RunOk

LEMMA PolicyDeniedStep ==
  ASSUME IInv, NEW r \in Runs, policyDenied(r)
  PROVE  IInv'
BY StatusStep DEF policyDenied

LEMMA WaitStep ==
  ASSUME IInv, NEW r \in Runs, waitForApproval(r)
  PROVE  IInv'
<1>1. /\ drv[r].step = "wait" /\ snap' = [snap EXCEPT ![r].status = "waiting_approval"] /\ End(r)
      /\ UNCHANGED <<rules, approvals, reviews, routed, performed>>
  BY DEF waitForApproval
<1>2. snap[r].pending # None /\ Row(r) # Unasked /\ Ok(r, snap[r].pending)
  BY <1>1 DEF IInv, RunOk, DriveOk
<1> QED BY <1>1, <1>2, StatusStep

LEMMA RequestStep ==
  ASSUME IInv, NEW r \in Runs, request(r)
  PROVE  IInv'
<1> DEFINE a == <<r, snap[r].call>>
<1>1. /\ Decided(r) /\ drv[r].verdict = "ask" /\ goto(r, "wait")
      /\ approvals' = IF approvals[a] = Unasked
                      THEN [approvals EXCEPT ![a].cap = drv[r].cap, ![a].decision = "pending"]
                      ELSE approvals
      /\ UNCHANGED <<rules, reviews, snap, routed, performed>>
  BY DEF request
<1>2. Types /\ RunOk(r)
  BY DEF IInv
<1>3. /\ snap[r].status = "running" /\ drv[r].cap = snap[r].pending /\ drv[r].cap \in Capabilities
      /\ drv[r].mode = snap[r].mode /\ snap[r].call \in 1..MaxTurns[r] /\ drv[r].cmd = None
      /\ Ok(r, drv[r].cap)
  BY <1>1, DecidedFacts
<1>4. approvals[a] \in Approval /\ a \in Calls
  BY <1>2, <1>3, RowType
<1>5. drv[r].cap # None /\ drv[r].cap \in Cap
  BY <1>3, PolicyAssumption DEF Cap
<1>6. /\ approvals' \in [Calls -> Approval] /\ \A c \in Calls \ {a} : approvals'[c] = approvals[c]
      /\ approvals[a] # Unasked => approvals'[a] = approvals[a]
      /\ approvals[a] = Unasked =>
           approvals'[a].cap = drv[r].cap /\ approvals'[a].decision = "pending"
  <2>1. CASE approvals[a] = Unasked
    <3>1. approvals' = [approvals EXCEPT ![a].cap = drv[r].cap, ![a].decision = "pending"]
      BY <1>1, <2>1
    <3>2. approvals'[a] = [Unasked EXCEPT !.cap = drv[r].cap, !.decision = "pending"]
      BY <1>2, <1>4, <2>1, <3>1 DEF Types
    <3>3. approvals'[a] = [cap |-> drv[r].cap, decision |-> "pending", scope |-> "none", by |-> None,
                           edit |-> None]
      BY <3>2 DEF Unasked
    <3>4. approvals'[a] \in Approval
      BY <1>5, <3>3 DEF Approval, Cap
    <3>5. DOMAIN approvals' = Calls /\ \A c \in Calls \ {a} : approvals'[c] = approvals[c]
      BY <1>2, <3>1 DEF Types
    <3>6. approvals' \in [Calls -> Approval]
      BY <1>2, <1>4, <3>1, <3>4, <3>5 DEF Types
    <3> QED BY <2>1, <3>3, <3>5, <3>6
  <2>2. CASE approvals[a] # Unasked
    BY <1>1, <1>2, <2>2 DEF Types
  <2> QED BY <2>1, <2>2
<1>7. /\ drv' \in [Runs -> Driver] /\ \A q \in Runs \ {r} : drv'[q] = drv[q]
      /\ drv'[r].step = "wait" /\ drv'[r].cap = drv[r].cap /\ drv'[r].mode = drv[r].mode
      /\ drv'[r].cmd = None
  BY <1>1, <1>2, <1>3, Goes
<1>8. Unasked.decision = "none" /\ Unasked.cap = None
  BY DEF Unasked
<1>9. approvals'[a] # Unasked /\ approvals'[a].cap = drv[r].cap
  <2>1. approvals[a] # Unasked => approvals[a].cap = snap[r].pending
    BY <1>2, <1>3, <1>5 DEF RunOk, AsksOk
  <2> QED BY <1>3, <1>6, <1>8, <2>1
<1>10. \A n \in 1..MaxTurns[r] : <<r, n>> \in Calls /\ (n # snap[r].call => approvals'[<<r, n>>] = approvals[<<r, n>>])
  BY <1>2, <1>6, RowType
<1>11. Only(r)
  <2>1. \A q \in Runs \ {r} : \A n \in 1..MaxTurns[q] : approvals'[<<q, n>>] = approvals[<<q, n>>]
    BY <1>2, <1>6, RowType
  <2>2. \A n \in 1..MaxTurns[r] :
         /\ approvals[<<r, n>>] # Unasked => approvals'[<<r, n>>].cap = approvals[<<r, n>>].cap
         /\ approvals[<<r, n>>].decision = "allow" => approvals'[<<r, n>>] = approvals[<<r, n>>]
    BY <1>6, <1>8, <1>10
  <2>3. snap[r].call >= snap[r].call
    BY <1>3, CallsOf
  <2> QED BY <1>1, <1>7, <2>1, <2>2, <2>3 DEF Only
<1>12. Types'
  BY <1>1, <1>2, <1>3, <1>6, <1>7, TypesAfter, CallsOf DEF Types
<1>13. AsksOk(r)'
  <2>1. AsksOk(r)
    BY <1>2 DEF RunOk
  <2>2. \A n \in 1..MaxTurns[r] :
         approvals'[<<r, n>>] # Unasked =>
           /\ n <= snap[r].call /\ approvals'[<<r, n>>].cap \in Capabilities
           /\ n = snap[r].call /\ snap[r].pending # None => approvals'[<<r, n>>].cap = snap[r].pending
    <3>1. snap[r].call <= snap[r].call
      BY <1>3, CallsOf
    <3> QED BY <1>3, <1>9, <1>10, <2>1, <3>1 DEF AsksOk
  <2>3. \A cap \in snap[r].approved : \E n \in 1..snap[r].call :
         /\ approvals'[<<r, n>>].cap = cap /\ approvals'[<<r, n>>].decision = "allow"
         /\ approvals'[<<r, n>>].scope # "once"
    <3>1. \A n \in 1..snap[r].call : approvals[<<r, n>>].decision = "allow" =>
            approvals'[<<r, n>>] = approvals[<<r, n>>]
      <4>1. \A n \in 1..snap[r].call : n \in 1..MaxTurns[r]
        BY <1>3, CallsOf
      <4> QED BY <1>11, <4>1 DEF Only
    <3> QED BY <2>1, <3>1 DEF AsksOk
  <2> QED BY <1>1, <1>3, <2>1, <2>2, <2>3 DEF AsksOk
<1>14. DriveOk(r)'
  <2>1. Ok(r, snap[r].pending)'
    BY <1>1, <1>3 DEF Ok, fixedDenial, isHostControlCommand, isForbiddenNetworkTarget, denied
  <2> QED BY <1>1, <1>3, <1>5, <1>7, <1>9, <2>1 DEF DriveOk, Row
<1>15. CommandsOk(r)'
  BY <1>7 DEF CommandsOk
<1> QED BY <1>1, <1>11, <1>12, <1>13, <1>14, <1>15, StepOf DEF RunOk

-----------------------------------------------------------------------------
\* A command that is carried out.

LEMMA CommandFacts ==
  ASSUME IInv, NEW r \in Runs, drv[r].cmd # None
  PROVE  /\ drv[r].cmd \in Routed /\ CommandOk(drv[r].cmd) /\ drv[r].cmd.run = r
         /\ drv[r].cmd.call = snap[r].call /\ snap[r].call \in 1..MaxTurns[r]
         /\ snap[r].pending \in Capabilities /\ drv[r].cap \in Cap
         /\ Row(r) \in Approval /\ Row(r) # Unasked /\ Row(r).cap = snap[r].pending
<1>1. RunOk(r) /\ drv[r].cmd \in Routed /\ drv[r].cap \in Cap /\ snap[r].pending \in Cap
      /\ snap[r].call \in Nat /\ snap[r].call <= MaxTurns[r] /\ MaxTurns[r] \in Nat
  BY DrvType, SnapType, CallsOf DEF IInv
<1>2. /\ CommandOk(drv[r].cmd) /\ drv[r].cmd.run = r /\ drv[r].cmd.call = snap[r].call
      /\ snap[r].pending # None /\ Row(r) # Unasked
  BY <1>1 DEF RunOk, CommandsOk
<1>3. snap[r].call >= 1
  BY <1>1, <1>2 DEF RunOk, AsksOk
<1>4. snap[r].call \in 1..MaxTurns[r]
  BY <1>1, <1>3
<1>5. Row(r) \in Approval
  BY <1>4, RowType DEF Row, IInv
<1>6. Row(r).cap = snap[r].pending
  BY <1>1, <1>2, <1>4 DEF RunOk, AsksOk, Row
<1> QED BY <1>1, <1>2, <1>4, <1>5, <1>6 DEF Cap

\* A command moves on while its Run waits.
LEMMA CommandMoves ==
  ASSUME IInv, NEW r \in Runs, drv[r].cmd # None, drv[r].step \in {"decided", "rule"},
         goto(r, "decide"), drv[r].step = "decided" => drv[r].verdict # "deny",
         UNCHANGED <<approvals, reviews, snap>>
  PROVE  /\ drv' \in [Runs -> Driver] /\ \A q \in Runs \ {r} : drv'[q] = drv[q]
         /\ RunOk(r)'
<1>1. Types /\ RunOk(r)
  BY DEF IInv
<1>2. /\ drv' \in [Runs -> Driver] /\ \A q \in Runs \ {r} : drv'[q] = drv[q]
      /\ drv'[r].step = "decide" /\ drv'[r].cap = drv[r].cap /\ drv'[r].cmd = drv[r].cmd
  BY <1>1, Goes
<1>3. AsksOk(r)'
  BY <1>1, AsksKept DEF RunOk, AsksOk, IInv, Types
<1>4. DriveOk(r)'
  <2>1. Ok(r, drv[r].cap)
    BY <1>1 DEF RunOk, DriveOk
  <2>2. Ok(r, drv'[r].cap)
    BY <1>2, <2>1
  <2> QED BY <1>2, <2>2 DEF DriveOk, Ok, fixedDenial, isHostControlCommand,
                           isForbiddenNetworkTarget, denied
<1>5. CommandsOk(r)'
  BY <1>1, <1>2 DEF RunOk, CommandsOk, CommandOk, Row
<1> QED BY <1>2, <1>3, <1>4, <1>5 DEF RunOk

LEMMA AffirmStep ==
  ASSUME IInv, NEW r \in Runs, affirmEdit(r)
  PROVE  IInv'
<1>1. /\ drv[r].step = "decided" /\ drv[r].cmd # None
      /\ UNCHANGED <<rules, approvals, reviews, snap, routed, performed>>
      /\ End(r) \/ (drv[r].verdict # "deny" /\ goto(r, "decide"))
  BY DEF affirmEdit, stores
<1>2. CASE End(r)
  BY <1>1, <1>2, EndStep
<1>3. CASE drv[r].verdict # "deny" /\ goto(r, "decide")
  <2>1. /\ drv' \in [Runs -> Driver] /\ \A q \in Runs \ {r} : drv'[q] = drv[q]
        /\ RunOk(r)'
    BY <1>1, <1>3, CommandMoves
  <2>2. Types' /\ Only(r)
    BY <1>1, <2>1, OnlyUnchanged, TypesAfter, SnapType DEF IInv, Types
  <2> QED BY <1>1, <2>1, <2>2, StepOf
<1> QED BY <1>1, <1>2, <1>3

\* The rules after some were deactivated and some were added.
Off(x) == [x EXCEPT !.active = FALSE]
Same(x, y) == y.source = x.source /\ y.cap = x.cap /\ y.decision = x.decision /\ y.by = x.by

LEMMA OffSame ==
  ASSUME NEW x \in Rule
  PROVE  Off(x) \in Rule /\ Same(x, Off(x)) /\ Off(x).active = FALSE /\ Same(x, x)
BY RuleType DEF Off, Same

LEMMA Replaced ==
  ASSUME RulesOk, NEW S \in SUBSET rules, NEW N \in SUBSET Rule,
         rules' = (rules \ S) \cup {Off(x) : x \in S} \cup N,
         \A x, y \in N : x.source = y.source => x = y,
         \A x \in rules, y \in N : x.source # y.source
  PROVE  /\ rules' \subseteq Rule
         /\ \A x \in rules : \E y \in rules' : Same(x, y)
         /\ \A y \in rules' : y \in N \/ \E x \in rules : Same(x, y) /\ (y = x \/ ~y.active)
         /\ \A x, y \in rules' : x.source = y.source => x = y
<1>1. rules \subseteq Rule /\ \A x, y \in rules : x.source = y.source => x = y
  BY DEF RulesOk
<1>2. \A x \in S : Off(x) \in Rule /\ Same(x, Off(x)) /\ Off(x).active = FALSE
  BY <1>1, OffSame
<1>3. \A x \in rules : Same(x, x)
  BY DEF Same
<1>4. \A y \in rules' : y \in N \/ \E x \in rules : Same(x, y) /\ (y = x \/ ~y.active)
  BY <1>2, <1>3
<1>5. \A x \in rules : \E y \in rules' : Same(x, y)
  BY <1>2, <1>3
<1>6. rules' \subseteq Rule
  BY <1>1, <1>2
<1>7. ASSUME NEW x \in rules', NEW y \in rules', x.source = y.source
      PROVE  x = y
  <2>1. \A z \in rules' : z \in rules \ S \/ z \in N \/ (\E w \in S : z = Off(w) /\ z.source = w.source)
    BY <1>2 DEF Same
  <2>2. CASE x \in N
    <3>1. \A w \in S : w.source # x.source
      BY <2>2
    <3> QED BY <1>7, <2>1, <2>2, <3>1
  <2>3. CASE y \in N
    <3>1. \A w \in S : w.source # y.source
      BY <2>3
    <3> QED BY <1>7, <2>1, <2>3, <3>1
  <2>4. CASE x \notin N /\ y \notin N
    BY <1>1, <1>7, <2>1, <2>4
  <2> QED BY <2>2, <2>3, <2>4
<1> QED BY <1>4, <1>5, <1>6, <1>7

\* An administrator's decision becomes a rule, once.
LEMMA SetRuleFacts ==
  ASSUME IInv, NEW r \in Runs, setRule(r), ~End(r)
  PROVE  LET rule == newRule(drv[r].cmd, drv[r].cap)
         IN  /\ drv[r].step = "rule" /\ drv[r].cmd # None /\ goto(r, "decide")
             /\ UNCHANGED <<approvals, reviews, snap, routed, performed>>
             /\ rule \in Rule /\ rule.source = <<r, snap[r].call>> /\ rule.cap = snap[r].pending
             /\ rule.by = drv[r].cmd.by /\ RoleOf[rule.by] = "admin" /\ Row(r).cap = rule.cap
             /\ rules' = set(rule)
<1> DEFINE rule == newRule(drv[r].cmd, drv[r].cap)
<1>1. /\ drv[r].step = "rule" /\ UNCHANGED <<approvals, reviews, snap, routed, performed>>
      /\ rules' = set(rule) /\ goto(r, "decide")
  BY DEF setRule
<1>2. RunOk(r) /\ drv[r].cmd # None
  BY <1>1 DEF IInv, RunOk, DriveOk
<1>3. /\ drv[r].cmd \in Routed /\ CommandOk(drv[r].cmd) /\ drv[r].cmd.run = r
      /\ drv[r].cmd.call = snap[r].call /\ snap[r].call \in 1..MaxTurns[r]
      /\ snap[r].pending \in Capabilities /\ Row(r).cap = snap[r].pending
  BY <1>2, CommandFacts
<1>4. drv[r].cmd.scope = "project" /\ drv[r].cap = snap[r].pending
  BY <1>1, <1>2 DEF RunOk, CommandsOk
<1>5. drv[r].cmd.by \in Users /\ RoleOf[drv[r].cmd.by] = "admin" /\ <<r, snap[r].call>> \in Calls
  BY <1>3, <1>4, RoutedType, CallsOf DEF CommandOk
<1>6. rule = [source |-> <<r, snap[r].call>>, cap |-> snap[r].pending, by |-> drv[r].cmd.by,
              active |-> TRUE,
              decision |-> IF drv[r].cmd.type = "approve" THEN "allow" ELSE "deny"]
  BY <1>3, <1>4 DEF newRule
<1>7. rule \in Rule /\ rule.source = <<r, snap[r].call>> /\ rule.cap = snap[r].pending
      /\ rule.by = drv[r].cmd.by
  BY <1>3, <1>5, <1>6 DEF Rule
<1> HIDE DEF rule
<1> SUFFICES
             /\ drv[r].step = "rule" /\ drv[r].cmd # None /\ goto(r, "decide")
             /\ UNCHANGED <<approvals, reviews, snap, routed, performed>>
             /\ rule \in Rule /\ rule.source = <<r, snap[r].call>> /\ rule.cap = snap[r].pending
             /\ rule.by = drv[r].cmd.by /\ RoleOf[rule.by] = "admin" /\ Row(r).cap = rule.cap
             /\ rules' = set(rule)
  BY DEF rule
<1> QED BY <1>1, <1>2, <1>3, <1>5, <1>7

LEMMA SetIs ==
  ASSUME RulesOk, NEW rule \in Rule, rules' = set(rule)
  PROVE  \/ UNCHANGED rules
         \/ /\ \A x \in rules : x.source # rule.source
            /\ \E S \in SUBSET rules : rules' = (rules \ S) \cup {Off(x) : x \in S} \cup {rule}
<1> SUFFICES ASSUME \A x \in rules : x.source # rule.source
             PROVE  \E S \in SUBSET rules : rules' = (rules \ S) \cup {Off(x) : x \in S} \cup {rule}
  BY DEF set
<1> DEFINE S == {y \in rules : y.cap = rule.cap /\ y.active}
<1>1. rules' = {x \in rules : x.cap # rule.cap \/ ~x.active} \cup {Off(x) : x \in S} \cup {rule}
  BY DEF set, Off
<1>2. {x \in rules : x.cap # rule.cap \/ ~x.active} = rules \ S
  OBVIOUS
<1> QED BY <1>1, <1>2

LEMMA SetRuleStep ==
  ASSUME IInv, NEW r \in Runs, setRule(r)
  PROVE  IInv'
<1>1. CASE End(r)
  <2>1. UNCHANGED <<approvals, reviews, snap, routed, performed>> /\ drv[r].step = "rule"
    BY DEF setRule
  <2>2. drv' # [drv EXCEPT ![r].step = "decide"]
    <3>1. drv'[r].step = "idle"
      BY <1>1, Ends DEF IInv
    <3>2. ([drv EXCEPT ![r].step = "decide"])[r].step = "decide"
      BY DrvType DEF IInv, Types, Driver
    <3> QED BY <3>1, <3>2
  <2>3. UNCHANGED rules
    BY <2>2 DEF setRule, goto
  <2> QED BY <1>1, <2>1, <2>3, EndStep
<1>2. CASE ~End(r)
  <2> DEFINE rule == newRule(drv[r].cmd, drv[r].cap)
  <2>1. /\ drv[r].step = "rule" /\ drv[r].cmd # None /\ goto(r, "decide")
        /\ UNCHANGED <<approvals, reviews, snap, routed, performed>>
        /\ rule \in Rule /\ rule.source = <<r, snap[r].call>> /\ rule.cap = snap[r].pending
        /\ rule.by = drv[r].cmd.by /\ RoleOf[rule.by] = "admin" /\ Row(r).cap = rule.cap
        /\ rules' = set(rule)
    BY <1>2, SetRuleFacts
  <2> HIDE DEF rule
  <2>2. RulesOk
    BY DEF IInv
  <2>3. /\ rules' \subseteq Rule /\ (\A x \in rules : \E y \in rules' : Same(x, y))
        /\ (\A y \in rules' : y = rule \/ \E x \in rules : Same(x, y))
        /\ (\A x, y \in rules' : x.source = y.source => x = y)
    <3>1. CASE UNCHANGED rules
      BY <2>2, <3>1 DEF RulesOk, Same
    <3>2. CASE ~UNCHANGED rules
      <4>1. PICK S \in SUBSET rules : rules' = (rules \ S) \cup {Off(x) : x \in S} \cup {rule}
        BY <2>1, <2>2, <3>2, SetIs
      <4> DEFINE N == {rule}
      <4>2. \A x \in rules, y \in N : x.source # y.source
        BY <2>1, <2>2, <3>2, SetIs
      <4>3. N \in SUBSET Rule /\ \A x, y \in N : x.source = y.source => x = y
        BY <2>1
      <4>4. rules' = (rules \ S) \cup {Off(x) : x \in S} \cup N
        BY <4>1
      <4>5. \A y \in N : y = rule
        OBVIOUS
      <4> HIDE DEF N
      <4>6. /\ rules' \subseteq Rule
            /\ \A x \in rules : \E y \in rules' : Same(x, y)
            /\ \A y \in rules' : y \in N \/ \E x \in rules : Same(x, y) /\ (y = x \/ ~y.active)
            /\ \A x, y \in rules' : x.source = y.source => x = y
        BY <2>2, <4>2, <4>3, <4>4, Replaced
      <4> QED BY <4>5, <4>6
    <3> QED BY <3>1, <3>2
  <2>4. /\ drv' \in [Runs -> Driver] /\ (\A q \in Runs \ {r} : drv'[q] = drv[q]) /\ RunOk(r)'
    BY <2>1, CommandMoves
  <2>5. Types'
    BY <2>1, <2>4, TypesAfter, SnapType DEF IInv, Types
  <2>6. Only(r)
    BY <2>1, <2>3, <2>4, SnapType DEF Only, Same, IInv
  <2>7. RulesOk'
    <3>1. ASSUME NEW y \in rules' PROVE RoleOf[y.by] = "admin" /\ approvals[y.source].cap = y.cap
      <4>1. CASE y = rule
        BY <2>1, <4>1 DEF Row
      <4>2. CASE \E x \in rules : Same(x, y)
        BY <2>2, <4>2 DEF RulesOk, Same
      <4> QED BY <2>3, <4>1, <4>2
    <3> QED BY <2>1, <2>3, <3>1 DEF RulesOk
  <2>8. \A q \in Runs : RunOk(q)'
    BY <2>4, <2>6, Others
  <2>9. \A c \in routed' : CommandOk(c)'
    BY <2>1 DEF IInv, CommandOk
  <2> QED BY <2>1, <2>5, <2>6, <2>7, <2>8, <2>9, PerformedAfter DEF IInv
<1> QED BY <1>1, <1>2

\* The row a decision leaves.
Decision(r) ==
    [cap |-> Row(r).cap, decision |-> IF drv[r].cmd.type = "reject" THEN "deny" ELSE "allow",
     scope |-> drv[r].cmd.scope, by |-> drv[r].cmd.by, edit |-> drv[r].cmd.edit]

LEMMA DecisionIs ==
  ASSUME IInv, NEW r \in Runs, drv[r].cmd # None
  PROVE  LET row == Decision(r)
         IN  /\ row \in Approval /\ row # Unasked /\ row.cap = snap[r].pending
             /\ row.decision = IF drv[r].cmd.type = "reject" THEN "deny" ELSE "allow"
             /\ row.scope = drv[r].cmd.scope /\ row.edit = drv[r].cmd.edit
<1>1. /\ drv[r].cmd \in Routed /\ Row(r).cap = snap[r].pending /\ snap[r].pending \in Capabilities
  BY CommandFacts
<1>2. /\ drv[r].cmd.scope \in {"once", "run", "project"} /\ drv[r].cmd.edit \in Cap
      /\ drv[r].cmd.by \in Users
  BY <1>1, RoutedType
<1> QED BY <1>1, <1>2 DEF Decision, Approval, Cap, Unasked

\* The first decision of an approval, or its exact repetition.
LEMMA DecideStep ==
  ASSUME IInv, NEW r \in Runs, decide(r)
  PROVE  IInv'
<1> DEFINE a == <<r, snap[r].call>>
           row == Decision(r)
<1>1. drv[r].step = "decide" /\ UNCHANGED <<rules, reviews, snap, routed, performed>>
  BY DEF decide
<1>2. Types /\ RunOk(r) /\ drv[r].cmd # None
  BY <1>1 DEF IInv, RunOk, DriveOk
<1>3. /\ drv[r].cmd \in Routed /\ CommandOk(drv[r].cmd) /\ drv[r].cmd.run = r
      /\ drv[r].cmd.call = snap[r].call /\ snap[r].call \in 1..MaxTurns[r]
      /\ snap[r].pending \in Capabilities /\ Row(r) # Unasked
      /\ Row(r).cap = snap[r].pending
  BY <1>2, CommandFacts
<1>4. /\ row \in Approval /\ row # Unasked /\ row.cap = snap[r].pending
      /\ row.decision = IF drv[r].cmd.type = "reject" THEN "deny" ELSE "allow"
      /\ row.scope = drv[r].cmd.scope /\ row.edit = drv[r].cmd.edit
  BY <1>2, DecisionIs
<1>5. IF Row(r).decision = "pending" \/ Row(r) = row
      THEN approvals' = [approvals EXCEPT ![a] = row] /\ goto(r, "save")
      ELSE End(r) /\ UNCHANGED approvals
  BY <1>3 DEF decide, Decision, Row
<1> HIDE DEF row
<1>6. CASE ~(Row(r).decision = "pending" \/ Row(r) = row)
  BY <1>1, <1>5, <1>6, EndStep
<1>7. CASE Row(r).decision = "pending" \/ Row(r) = row
  <2>1. /\ drv' \in [Runs -> Driver] /\ \A q \in Runs \ {r} : drv'[q] = drv[q]
        /\ drv'[r].step = "save" /\ drv'[r].cap = drv[r].cap /\ drv'[r].cmd = drv[r].cmd
    BY <1>2, <1>5, <1>7, Goes
  <2>2. a \in Calls
    BY <1>2, <1>3, RowType
  <2>3. /\ approvals' \in [Calls -> Approval] /\ approvals'[a] = row
        /\ \A c \in Calls \ {a} : approvals'[c] = approvals[c]
    BY <1>2, <1>4, <1>5, <1>7, <2>2 DEF Types
  <2>4. \A n \in 1..MaxTurns[r] :
          <<r, n>> \in Calls /\ (n # snap[r].call => approvals'[<<r, n>>] = approvals[<<r, n>>])
    BY <1>2, <2>3, RowType
  <2>5. approvals[a].decision = "allow" => approvals'[a] = approvals[a]
    BY <1>7, <2>3 DEF Row
  <2>6. Only(r)
    <3>1. \A q \in Runs \ {r} : \A n \in 1..MaxTurns[q] : approvals'[<<q, n>>] = approvals[<<q, n>>]
      BY <1>2, <2>3, RowType
    <3>2. \A n \in 1..MaxTurns[r] :
           /\ approvals[<<r, n>>] # Unasked => approvals'[<<r, n>>].cap = approvals[<<r, n>>].cap
           /\ approvals[<<r, n>>].decision = "allow" => approvals'[<<r, n>>] = approvals[<<r, n>>]
      BY <1>3, <1>4, <2>3, <2>4, <2>5 DEF Row
    <3>3. snap[r].call >= snap[r].call
      BY <1>3, CallsOf
    <3> QED BY <1>1, <2>1, <3>1, <3>2, <3>3 DEF Only
  <2>7. Types'
    BY <1>1, <1>2, <1>3, <2>1, <2>3, TypesAfter, CallsOf DEF Types
  <2>8. AsksOk(r)'
    <3>1. AsksOk(r)
      BY <1>2 DEF RunOk
    <3>2. \A n \in 1..MaxTurns[r] :
           approvals'[<<r, n>>] # Unasked =>
             /\ n <= snap[r].call /\ approvals'[<<r, n>>].cap \in Capabilities
             /\ n = snap[r].call /\ snap[r].pending # None => approvals'[<<r, n>>].cap = snap[r].pending
      <4>1. snap[r].call <= snap[r].call
        BY <1>3, CallsOf
      <4> QED BY <1>3, <1>4, <2>3, <2>4, <3>1, <4>1 DEF AsksOk
    <3>3. \A cap \in snap[r].approved : \E n \in 1..snap[r].call :
           /\ approvals'[<<r, n>>].cap = cap /\ approvals'[<<r, n>>].decision = "allow"
           /\ approvals'[<<r, n>>].scope # "once"
      <4>1. \A n \in 1..snap[r].call : n \in 1..MaxTurns[r]
        BY <1>3, CallsOf
      <4>2. \A n \in 1..snap[r].call : approvals[<<r, n>>].decision = "allow" =>
              approvals'[<<r, n>>] = approvals[<<r, n>>]
        BY <2>6, <4>1 DEF Only
      <4> QED BY <3>1, <4>2 DEF AsksOk
    <3>4. snap[r].status = "waiting_approval" =>
            snap[r].pending # None /\ Row(r)' # Unasked /\ Ok(r, snap[r].pending)
      BY <1>1, <1>4, <2>3, <3>1 DEF AsksOk, Row
    <3> QED BY <1>1, <3>1, <3>2, <3>3, <3>4 DEF AsksOk, Ok, fixedDenial, isHostControlCommand,
                isForbiddenNetworkTarget, denied
  <2>9. DriveOk(r)'
    <3>1. Ok(r, drv'[r].cap)
      BY <1>1, <1>2, <2>1 DEF RunOk, DriveOk
    <3> QED BY <1>2, <2>1, <3>1 DEF DriveOk, Ok, fixedDenial, isHostControlCommand,
                                    isForbiddenNetworkTarget, denied
  <2>10. CommandsOk(r)'
    <3>1. Row(r)' = row
      BY <1>1, <2>3 DEF Row
    <3> QED BY <1>1, <1>2, <1>4, <2>1, <3>1 DEF RunOk, CommandsOk, CommandOk
  <2> QED BY <1>1, <2>6, <2>7, <2>8, <2>9, <2>10, StepOf DEF RunOk
<1> QED BY <1>6, <1>7

\* What the stored Run remembers of a decision.
Remembered(r) ==
    LET c == drv[r].cmd
    IN  [mode |-> snap[r].mode, status |-> "running", call |-> snap[r].call, pending |-> snap[r].pending,
         approved |-> IF c.type = "approve" /\ c.scope # "once"
                      THEN snap[r].approved \cup {snap[r].pending} ELSE snap[r].approved,
         denied |-> IF c.type = "reject" /\ c.scope # "once"
                    THEN snap[r].denied \cup {snap[r].pending} ELSE snap[r].denied]

LEMMA RememberIs ==
  ASSUME Types, NEW r \in Runs, snap[r].pending \in Capabilities
  PROVE  remember(r) = Remembered(r) /\ Remembered(r) \in Snapshot
<1>1. snap[r] \in Snapshot
  BY SnapType
<1>2. remember(r) = Remembered(r)
  <2> DEFINE a == IF drv[r].cmd.type = "approve" /\ drv[r].cmd.scope # "once"
                  THEN snap[r].approved \cup {snap[r].pending} ELSE snap[r].approved
             d == IF drv[r].cmd.type = "reject" /\ drv[r].cmd.scope # "once"
                  THEN snap[r].denied \cup {snap[r].pending} ELSE snap[r].denied
  <2>1. remember(r) = [snap[r] EXCEPT !.status = "running", !.approved = a, !.denied = d]
    BY DEF remember
  <2>2. Remembered(r) = [mode |-> snap[r].mode, status |-> "running", call |-> snap[r].call,
                         pending |-> snap[r].pending, approved |-> a, denied |-> d]
    BY DEF Remembered
  <2> HIDE DEF a, d
  <2>3. ASSUME NEW x, x = [snap[r] EXCEPT !.status = "running", !.approved = a, !.denied = d]
        PROVE  x = [mode |-> snap[r].mode, status |-> "running", call |-> snap[r].call,
                    pending |-> snap[r].pending, approved |-> a, denied |-> d]
    BY <1>1, <2>3 DEF Snapshot
  <2> QED BY <2>1, <2>2, <2>3
<1>3. Remembered(r) \in Snapshot
  BY <1>1 DEF Remembered, Snapshot, Cap
<1> QED BY <1>2, <1>3

LEMMA SaveStep ==
  ASSUME IInv, NEW r \in Runs, saveDecision(r)
  PROVE  IInv'
<1> DEFINE c == drv[r].cmd
           step == IF c.type = "reject" THEN "rejected" ELSE "approved"
<1>1. /\ drv[r].step = "save" /\ snap' = [snap EXCEPT ![r] = remember(r)] /\ goto(r, step)
      /\ UNCHANGED <<rules, approvals, reviews, routed, performed>>
  BY DEF saveDecision
<1>2. Types /\ RunOk(r) /\ c # None
  BY <1>1 DEF IInv, RunOk, DriveOk
<1>3. /\ c \in Routed /\ CommandOk(c) /\ c.call = snap[r].call /\ snap[r].call \in 1..MaxTurns[r]
      /\ snap[r].pending \in Capabilities /\ Row(r).cap = snap[r].pending /\ snap[r].call \in Nat
  BY <1>2, CommandFacts, SnapType
<1>4. /\ Row(r).decision = IF c.type = "reject" THEN "deny" ELSE "allow"
      /\ Row(r).scope = c.scope /\ Row(r).edit = c.edit
  BY <1>1, <1>2 DEF RunOk, CommandsOk
<1>5. remember(r) = Remembered(r) /\ Remembered(r) \in Snapshot
  BY <1>2, <1>3, RememberIs
<1>6. /\ snap' \in [Runs -> Snapshot] /\ \A q \in Runs \ {r} : snap'[q] = snap[q]
      /\ snap'[r] = Remembered(r)
  BY <1>1, <1>2, <1>5 DEF Types
<1>7. /\ snap'[r].mode = snap[r].mode /\ snap'[r].status = "running" /\ snap'[r].call = snap[r].call
      /\ snap'[r].pending = snap[r].pending
      /\ \A cap \in snap'[r].approved :
            cap \in snap[r].approved \/ (cap = snap[r].pending /\ c.type = "approve" /\ c.scope # "once")
  BY <1>6 DEF Remembered
<1>8. step \in {"rejected", "approved"} /\ (step = "approved" => c.type # "reject")
  OBVIOUS
<1> HIDE DEF step
<1>9. /\ drv' \in [Runs -> Driver] /\ \A q \in Runs \ {r} : drv'[q] = drv[q]
      /\ drv'[r].step = step /\ drv'[r].cap = drv[r].cap /\ drv'[r].cmd = c
  BY <1>1, <1>2, <1>8, Goes
<1>10. snap[r].call >= snap[r].call /\ snap[r].call <= MaxTurns[r] /\ snap[r].call \in 1..snap[r].call
  BY <1>3, CallsOf
<1>11. Types' /\ Only(r)
  BY <1>1, <1>2, <1>6, <1>7, <1>9, <1>10, OnlyUnchanged, TypesAfter DEF Types
<1>12. AsksOk(r)'
  <2>1. AsksOk(r)
    BY <1>2 DEF RunOk
  <2>2. \A cap \in snap'[r].approved : \E n \in 1..snap[r].call :
           /\ approvals[<<r, n>>].cap = cap /\ approvals[<<r, n>>].decision = "allow"
           /\ approvals[<<r, n>>].scope # "once"
    <3> SUFFICES ASSUME NEW cap \in snap'[r].approved
                 PROVE  \E n \in 1..snap[r].call :
                           /\ approvals[<<r, n>>].cap = cap /\ approvals[<<r, n>>].decision = "allow"
                           /\ approvals[<<r, n>>].scope # "once"
      OBVIOUS
    <3>1. CASE cap \in snap[r].approved
      BY <2>1, <3>1 DEF AsksOk
    <3>2. CASE cap = snap[r].pending /\ c.type = "approve" /\ c.scope # "once"
      <4>1. /\ approvals[<<r, snap[r].call>>].cap = cap
            /\ approvals[<<r, snap[r].call>>].decision = "allow"
            /\ approvals[<<r, snap[r].call>>].scope # "once"
        BY <1>3, <1>4, <3>2 DEF Row
      <4> QED BY <1>10, <4>1
    <3> QED BY <1>7, <3>1, <3>2
  <2> QED BY <1>1, <1>7, <2>1, <2>2 DEF AsksOk
<1>13. DriveOk(r)'
  <2>1. Ok(r, drv'[r].cap)
    BY <1>1, <1>2, <1>9 DEF RunOk, DriveOk
  <2> QED BY <1>2, <1>7, <1>8, <1>9, <2>1 DEF DriveOk, Ok, fixedDenial, isHostControlCommand,
                                  isForbiddenNetworkTarget, denied
<1>14. CommandsOk(r)'
  <2>1. Row(r)' = Row(r)
    BY <1>1, <1>7 DEF Row
  <2> QED BY <1>1, <1>2, <1>3, <1>4, <1>7, <1>8, <1>9, <2>1 DEF RunOk, CommandsOk, CommandOk
<1> QED BY <1>1, <1>11, <1>12, <1>13, <1>14, StepOf DEF RunOk

\* What was approved is performed; the next call follows.
LEMMA AfterStep ==
  ASSUME IInv, NEW r \in Runs, afterDecision(r)
  PROVE  IInv'
<1> DEFINE p == [run |-> r, call |-> snap[r].call, cap |-> drv[r].cap, why |-> "approval"]
<1>1. /\ snap' = [snap EXCEPT ![r].pending = None]
      /\ drv' = [drv EXCEPT ![r] = [Idle EXCEPT !.step = "loop"]]
      /\ UNCHANGED <<rules, approvals, reviews, routed>>
      /\ \/ drv[r].step = "approved" /\ performed' = performed \cup {p}
         \/ drv[r].step = "rejected" /\ UNCHANGED performed
  BY DEF afterDecision, Performs
<1>2. Types /\ RunOk(r) /\ snap[r].status = "running"
  BY <1>1 DEF IInv, RunOk, DriveOk
<1>3. /\ drv' \in [Runs -> Driver] /\ \A q \in Runs \ {r} : drv'[q] = drv[q]
      /\ drv'[r].step = "loop" /\ drv'[r].cmd = None
  <2>1. [Idle EXCEPT !.step = "loop"] = [step |-> "loop", cap |-> None, mode |-> "none",
                                         verdict |-> "none", why |-> "none", cmd |-> None]
    BY DEF Idle
  <2>2. drv'[r] = [step |-> "loop", cap |-> None, mode |-> "none", verdict |-> "none",
                   why |-> "none", cmd |-> None]
        /\ DOMAIN drv' = Runs /\ \A q \in Runs \ {r} : drv'[q] = drv[q]
    BY <1>1, <1>2, <2>1 DEF Types
  <2>3. drv'[r] \in Driver /\ drv'[r].step = "loop" /\ drv'[r].cmd = None
    BY <2>2 DEF Driver, Cap
  <2>4. drv' \in [Runs -> Driver]
    BY <1>1, <1>2, <2>2, <2>3 DEF Types
  <2> QED BY <2>2, <2>3, <2>4
<1>4. CASE drv[r].step = "rejected" /\ UNCHANGED performed
  BY <1>1, <1>2, <1>3, <1>4, NextCall
<1>5. CASE drv[r].step = "approved" /\ performed' = performed \cup {p}
  <2>1. drv[r].cmd # None /\ Ok(r, drv[r].cap)
    BY <1>2, <1>5 DEF RunOk, DriveOk
  <2>2. /\ drv[r].cmd \in Routed /\ snap[r].call \in 1..MaxTurns[r] /\ Row(r).cap = snap[r].pending
        /\ CommandOk(drv[r].cmd)
    BY <2>1, CommandFacts
  <2>3. /\ Row(r).decision = "allow" /\ Row(r).edit = drv[r].cmd.edit
        /\ drv[r].cmd.edit = None => drv[r].cap = snap[r].pending
        /\ drv[r].cmd.edit # None =>
             drv[r].cap = drv[r].cmd.edit /\ <<drv[r].cap, snap[r].pending>> \in Narrower
    BY <1>2, <1>5, <2>1 DEF RunOk, CommandsOk
  <2>4. Justified(p)
    BY <2>2, <2>3 DEF Justified, Row
  <2>5. snap[r].call >= 1
    BY <2>2, CallsOf
  <2> HIDE DEF p
  <2>6. p \in {[run |-> r, call |-> snap[r].call, cap |-> drv[r].cap, why |-> "approval"]}
    BY DEF p
  <2> QED BY <1>1, <1>2, <1>3, <1>5, <2>1, <2>4, <2>5, <2>6, NextCall
<1> QED BY <1>1, <1>4, <1>5

-----------------------------------------------------------------------------
\* Commands, rules that are revoked, and Workers that die.

\* A drive that takes up a command, or refuses it.
TakenUp(c, cap, mode, step) ==
    drv' = [drv EXCEPT ![c.run] = [Idle EXCEPT !.cmd = c, !.cap = cap, !.mode = mode, !.step = step]]

LEMMA TakenUpIs ==
  ASSUME Types, NEW c \in Routed, NEW cap \in Cap, NEW mode \in Modes3,
         NEW step \in {"authorize", "rule", "decide"}, TakenUp(c, cap, mode, step)
  PROVE  /\ drv' \in [Runs -> Driver] /\ \A q \in Runs \ {c.run} : drv'[q] = drv[q]
         /\ drv'[c.run].step = step /\ drv'[c.run].cap = cap /\ drv'[c.run].cmd = c
<1>1. c.run \in Runs
  BY RoutedType
<1>2. ASSUME NEW x, x = [Idle EXCEPT !.cmd = c, !.cap = cap, !.mode = mode, !.step = step]
      PROVE  x = [step |-> step, cap |-> cap, mode |-> mode, verdict |-> "none", why |-> "none",
                  cmd |-> c]
  BY <1>2 DEF Idle
<1>3. /\ drv'[c.run] = [step |-> step, cap |-> cap, mode |-> mode, verdict |-> "none",
                        why |-> "none", cmd |-> c]
      /\ DOMAIN drv' = Runs /\ \A q \in Runs \ {c.run} : drv'[q] = drv[q]
  BY <1>1, <1>2 DEF Types, TakenUp
<1>4. drv'[c.run] \in Driver /\ drv'[c.run].step = step /\ drv'[c.run].cap = cap
      /\ drv'[c.run].cmd = c
  BY <1>3 DEF Driver
<1>5. drv' \in [Runs -> Driver]
  BY <1>1, <1>3, <1>4 DEF Types, TakenUp
<1> QED BY <1>3, <1>4, <1>5

LEMMA CommandStep ==
  ASSUME IInv, NEW c \in routed, command(c)
  PROVE  IInv'
<1> DEFINE r == c.run
           cap == IF c.edit = None THEN snap[r].pending ELSE c.edit
           mode == IF c.edit \in Commands THEN "auto_review" ELSE snap[r].mode
           step == IF c.edit # None THEN "authorize"
                   ELSE IF c.scope = "project" THEN "rule" ELSE "decide"
           refused == \/ snap[r].status # "waiting_approval" \/ snap[r].call # c.call
                      \/ c.edit # None /\ ~narrowToolCall(snap[r].pending, c.edit)
<1>1. /\ UNCHANGED <<rules, approvals, reviews, snap, performed>>
      /\ routed' = routed \ {c} /\ drv[r] = Idle
      /\ \/ refused /\ End(r)
         \/ ~refused /\ TakenUp(c, cap, mode, step)
  BY DEF command, stores, End, TakenUp
<1>2. Types /\ c \in Routed /\ CommandOk(c) /\ r \in Runs
  BY RoutedType DEF IInv, Types
<1>3. CASE refused /\ End(r)
  BY <1>1, <1>2, <1>3, EndStep
<1>4. CASE ~refused /\ TakenUp(c, cap, mode, step)
  <2>1. /\ snap[r].status = "waiting_approval" /\ snap[r].call = c.call
        /\ c.edit # None => <<c.edit, snap[r].pending>> \in Narrower
    BY <1>4 DEF narrowToolCall
  <2>2. /\ cap \in Cap /\ mode \in Modes3 /\ step \in {"authorize", "rule", "decide"}
        /\ snap[r].call \in Nat /\ snap[r].call <= MaxTurns[r]
    BY <1>2, RoutedType, SnapType DEF Modes3
  <2>3. /\ c.edit = None => cap = snap[r].pending
        /\ c.edit # None => cap = c.edit /\ step = "authorize"
        /\ step = "rule" => c.scope = "project"
    OBVIOUS
  <2> HIDE DEF cap, mode, step, refused
  <2>4. /\ drv' \in [Runs -> Driver] /\ \A q \in Runs \ {r} : drv'[q] = drv[q]
        /\ drv'[r].step = step /\ drv'[r].cap = cap /\ drv'[r].cmd = c
    BY <1>2, <1>4, <2>2, TakenUpIs
  <2>5. RunOk(r)
    BY <1>2 DEF IInv
  <2>6. snap[r].pending # None /\ Row(r) # Unasked /\ Ok(r, snap[r].pending)
    BY <2>1, <2>5 DEF RunOk, AsksOk
  <2>7. Types' /\ Only(r)
    BY <1>1, <1>2, <2>2, <2>4, OnlyUnchanged, TypesAfter DEF Types
  <2>8. AsksOk(r)'
    BY <1>1, <2>6, <1>2, AsksKept
  <2>9. DriveOk(r)'
    <3>1. step # "authorize" => Ok(r, drv'[r].cap)
      BY <2>2, <2>3, <2>4, <2>6
    <3>2. c # None
      BY <1>2, RoutedType
    <3> QED BY <2>2, <2>4, <3>1, <3>2 DEF DriveOk, Ok, fixedDenial, isHostControlCommand,
                                    isForbiddenNetworkTarget, denied
  <2>10. CommandsOk(r)'
    <3>1. Row(r)' = Row(r)
      BY <1>1 DEF Row
    <3> QED BY <1>1, <1>2, <2>1, <2>2, <2>3, <2>4, <2>6, <3>1 DEF CommandsOk, CommandOk
  <2>11. \A q \in Runs : RunOk(q)'
    BY <1>2, <2>7, <2>8, <2>9, <2>10, Others DEF RunOk
  <2>12. \A x \in routed' : CommandOk(x)'
    BY <1>1 DEF IInv, CommandOk
  <2> QED BY <1>1, <1>2, <2>7, <2>11, <2>12, RulesKept, PerformedAfter DEF IInv
<1> QED BY <1>1, <1>3, <1>4

\* A command that is routed, for a Run that is left alone.
LEMMA RouteStep ==
  ASSUME IInv, NEW u \in Users, route(u)
  PROVE  IInv'
<1>1. /\ UNCHANGED <<rules, approvals, reviews, snap, drv, performed>>
      /\ \E r \in Runs, body \in parseMinimalRunCommand :
          /\ body.scope = "project" => RoleOf[u] = "admin"
          /\ routed' = routed \cup {[run |-> r, call |-> snap[r].call, type |-> body.type,
                    scope |-> body.scope, edit |-> body.edit, by |-> u]}
  BY DEF route, stores
<1>2. PICK r \in Runs, body \in parseMinimalRunCommand :
          /\ body.scope = "project" => RoleOf[u] = "admin"
          /\ routed' = routed \cup {[run |-> r, call |-> snap[r].call, type |-> body.type,
                    scope |-> body.scope, edit |-> body.edit, by |-> u]}
  BY <1>1
<1> DEFINE c == [run |-> r, call |-> snap[r].call, type |-> body.type,
                 scope |-> body.scope, edit |-> body.edit, by |-> u]
<1>3. /\ body.type \in {"approve", "reject", "edit_approve"}
      /\ body.scope \in {"once", "run", "project"} /\ body.edit \in Capabilities \cup {None}
      /\ body.type = "edit_approve" <=> body.edit # None
  BY PolicyAssumption DEF parseMinimalRunCommand
<1>4. c \in Routed /\ c.scope = body.scope /\ c.by = u /\ c.type = body.type /\ c.edit = body.edit
  BY <1>3, SnapType DEF IInv, Routed
<1>5. CommandOk(c)
  BY <1>2, <1>3, <1>4 DEF CommandOk
<1>6. routed' = routed \cup {c}
  BY <1>2
<1> HIDE DEF c
<1>7. Types'
  BY <1>1, <1>4, <1>6 DEF IInv, Types
<1>8. \A x \in routed' : CommandOk(x)'
  BY <1>5, <1>6 DEF IInv, CommandOk
<1>9. Only(r)
  <2>1. snap[r].call >= snap[r].call
    BY SnapType DEF IInv
  <2> QED BY <1>1, <2>1, OnlyUnchanged
<1>10. \A q \in Runs : RunOk(q)'
  <2> SUFFICES ASSUME NEW q \in Runs PROVE RunOk(q)'
    OBVIOUS
  <2>1. RunOk(q)
    BY DEF IInv
  <2> QED BY <1>1, <2>1 DEF RunOk, AsksOk, DriveOk, CommandsOk, CommandOk, Row, Ok, fixedDenial,
             isHostControlCommand, isForbiddenNetworkTarget, denied
<1> QED BY <1>1, <1>7, <1>8, <1>9, <1>10, RulesKept, PerformedAfter DEF IInv

\* A rule that is revoked stays, inactive.
LEMMA RevokedIs ==
  ASSUME RulesOk, NEW u \in Users, revoke(u)
  PROVE  \E S \in SUBSET rules : rules' = (rules \ S) \cup {Off(x) : x \in S} \cup {}
<1>1. PICK x \in rules : rules' = (rules \ {x}) \cup {[x EXCEPT !.active = FALSE]}
  BY DEF revoke
<1> DEFINE S == {x}
<1>2. S \in SUBSET rules /\ {Off(y) : y \in S} = {[x EXCEPT !.active = FALSE]}
  BY DEF Off
<1>3. rules' = (rules \ S) \cup {Off(y) : y \in S} \cup {}
  BY <1>1, <1>2
<1> QED BY <1>2, <1>3

LEMMA RevokeRules ==
  ASSUME RulesOk, NEW u \in Users, revoke(u)
  PROVE  /\ rules' \subseteq Rule
         /\ \A x \in rules : \E y \in rules' : Same(x, y)
         /\ \A y \in rules' : \E x \in rules : Same(x, y) /\ (y = x \/ ~y.active)
         /\ \A x, y \in rules' : x.source = y.source => x = y
<1> DEFINE N == {}
<1>1. PICK S \in SUBSET rules : rules' = (rules \ S) \cup {Off(x) : x \in S} \cup N
  BY RevokedIs
<1>2. N \in SUBSET Rule /\ \A y \in N : FALSE
  OBVIOUS
<1> HIDE DEF N
<1>3. /\ rules' \subseteq Rule
      /\ \A x \in rules : \E y \in rules' : Same(x, y)
      /\ \A y \in rules' : y \in N \/ \E x \in rules : Same(x, y) /\ (y = x \/ ~y.active)
      /\ \A x, y \in rules' : x.source = y.source => x = y
  BY <1>1, <1>2, Replaced
<1> QED BY <1>2, <1>3

LEMMA RevokeStep ==
  ASSUME IInv, NEW u \in Users, revoke(u)
  PROVE  IInv'
<1>1. UNCHANGED <<approvals, reviews, snap, drv, routed, performed>>
  BY DEF revoke
<1>2. RulesOk /\ Types
  BY DEF IInv
<1>3. /\ rules' \subseteq Rule
      /\ \A x \in rules : \E y \in rules' : Same(x, y)
      /\ \A y \in rules' : \E x \in rules : Same(x, y)
      /\ \A x, y \in rules' : x.source = y.source => x = y
  BY <1>2, RevokeRules
<1>4. \A x \in rules : \E y \in rules' :
        y.source = x.source /\ y.cap = x.cap /\ y.decision = x.decision /\ y.by = x.by
  BY <1>3 DEF Same
<1>5. Types'
  BY <1>1, <1>2 DEF Types
<1>6. RulesOk'
  BY <1>1, <1>2, <1>3 DEF RulesOk, Same
<1>7. \A q \in Runs : RunOk(q)'
  <2> SUFFICES ASSUME NEW q \in Runs PROVE RunOk(q)'
    OBVIOUS
  <2>1. RunOk(q)
    BY DEF IInv
  <2>2. AsksOk(q)' /\ CommandsOk(q)'
    BY <1>1, <2>1 DEF RunOk, AsksOk, CommandsOk, CommandOk, Row, Ok, fixedDenial,
       isHostControlCommand, isForbiddenNetworkTarget, denied
  <2>3. DriveOk(q)'
    BY <1>1, <1>4, <2>1 DEF RunOk, DriveOk, Row, Ok, fixedDenial,
       isHostControlCommand, isForbiddenNetworkTarget, denied
  <2> QED BY <2>2, <2>3 DEF RunOk
<1>8. \A c \in routed' : CommandOk(c)'
  BY <1>1 DEF IInv, CommandOk
<1>9. PerformedOk' /\ DenialsHold'
  BY <1>1 DEF IInv, PerformedOk, DenialsHold, fixedDenial, isHostControlCommand,
     isForbiddenNetworkTarget, denied
<1>10. PerformedIsJustified'
  <2> SUFFICES ASSUME NEW p \in performed PROVE Justified(p)'
    BY <1>1 DEF PerformedIsJustified, Justified
  <2>1. Justified(p)
    BY DEF IInv, PerformedIsJustified, Justified
  <2>2. \A x \in rules : \E y \in rules' :
          /\ y.cap = x.cap /\ y.decision = x.decision /\ y.by = x.by
          /\ approvals'[y.source].cap = approvals[x.source].cap
    BY <1>1, <1>4
  <2>3. CASE p.why = "rule"
    BY <2>1, <2>2, <2>3 DEF Justified
  <2>4. CASE p.why # "rule"
    BY <1>1, <2>1, <2>4 DEF Justified
  <2> QED BY <2>3, <2>4
<1> QED BY <1>5, <1>6, <1>7, <1>8, <1>9, <1>10 DEF IInv

LEMMA CrashStep ==
  ASSUME IInv, NEW r \in Runs, Crash(r)
  PROVE  IInv'
BY EndStep DEF Crash, stores

-----------------------------------------------------------------------------
LEMMA Initially ==
  ASSUME Init
  PROVE  IInv
<1>1. /\ rules = {} /\ reviews = {} /\ routed = {} /\ performed = {}
      /\ approvals = [c \in Calls |-> Unasked] /\ drv = [r \in Runs |-> Idle]
      /\ \A r \in Runs : /\ snap[r].mode \in Mode[r] /\ snap[r].status = "running"
                         /\ snap[r].call = 0 /\ snap[r].pending = None /\ snap[r].approved = {}
      /\ snap \in [Runs -> [mode: UNION {Mode[r] : r \in Runs}, status: {"running"},
                            call: {0}, pending: {None}, approved: {{}}, denied: {{}}]]
  BY DEF Init
<1>2. UNION {Mode[r] : r \in Runs} \subseteq Modes3
  BY PolicyAssumption DEF Modes3
<1>3. Unasked \in Approval /\ Idle \in Driver
  BY DEF Unasked, Approval, Idle, Driver, Cap
<1>4. Types
  <2>1. snap \in [Runs -> Snapshot]
    BY <1>1, <1>2 DEF Snapshot, Cap
  <2>2. \A r \in Runs : snap[r].call <= MaxTurns[r]
    BY <1>1, CallsOf
  <2> QED BY <1>1, <1>3, <2>1, <2>2 DEF Types
<1>5. ASSUME NEW r \in Runs PROVE RunOk(r)
  <2>1. drv[r] = Idle
    BY <1>1
  <2>2. \A n \in 1..MaxTurns[r] : approvals[<<r, n>>] = Unasked
    BY <1>1, CallsOf
  <2>3. AsksOk(r)
    BY <1>1, <2>2 DEF AsksOk
  <2> QED BY <2>1, <2>3, IdleOk DEF RunOk
<1> QED BY <1>1, <1>4, <1>5 DEF IInv, RulesOk, PerformedOk, DenialsHold, PerformedIsJustified

LEMMA DriveKeeps ==
  ASSUME IInv, NEW r \in Runs, Drive(r)
  PROVE  IInv'
BY ResumeStep, DriveStep, EvaluateStep, ReviewStep, PerformStep, DeniedStep, PolicyDeniedStep,
   RequestStep, WaitStep, AffirmStep, SetRuleStep, DecideStep, SaveStep, AfterStep DEF Drive

LEMMA Inductive ==
  ASSUME IInv, [Next]_vars
  PROVE  IInv'
<1>1. CASE Next
  BY <1>1, DriveKeeps, CrashStep, RouteStep, RevokeStep, CommandStep DEF Next
<1>2. CASE UNCHANGED vars
  <2>1. UNCHANGED <<rules, approvals, reviews, snap, drv, routed, performed>>
    BY <1>2 DEF vars
  <2>2. Types' /\ RulesOk' /\ PerformedOk'
    BY <2>1 DEF IInv, Types, RulesOk, PerformedOk
  <2>3. \A c \in routed' : CommandOk(c)'
    BY <2>1 DEF IInv, CommandOk
  <2>4. ASSUME NEW r \in Runs PROVE RunOk(r)'
    <3>1. RunOk(r)
      BY DEF IInv
    <3> QED BY <2>1, <3>1 DEF RunOk, AsksOk, DriveOk, CommandsOk, CommandOk, Row, Ok, fixedDenial,
               isHostControlCommand, isForbiddenNetworkTarget, denied
  <2>5. DenialsHold'
    BY <2>1 DEF IInv, DenialsHold, fixedDenial, isHostControlCommand, isForbiddenNetworkTarget, denied
  <2>6. PerformedIsJustified'
    <3> SUFFICES ASSUME NEW p \in performed PROVE Justified(p)'
      BY <2>1 DEF PerformedIsJustified, Justified
    <3>1. Justified(p)
      BY DEF IInv, PerformedIsJustified, Justified
    <3> QED BY <2>1, <3>1 DEF Justified
  <2> QED BY <2>2, <2>3, <2>4, <2>5, <2>6 DEF IInv
<1> QED BY <1>1, <1>2

LEMMA Always == Spec => []IInv
BY Initially, Inductive, PTL DEF Spec

\* Whatever the approvals, the rules of other Runs and the edits, nothing is
\* performed that is denied in every mode or that its Run denies (DenialsHold).
THEOREM DenialsAlwaysHold == Spec => []DenialsHold
<1>1. IInv => DenialsHold
  BY DEF IInv
<1> QED BY <1>1, Always, PTL

\* Whatever is performed goes back to somebody who could allow it
\* (PerformedIsJustified).
THEOREM PerformedAlwaysJustified == Spec => []PerformedIsJustified
<1>1. IInv => PerformedIsJustified
  BY DEF IInv
<1> QED BY <1>1, Always, PTL

\* A step leaves the rules alone, revokes one, or sets a new one.
LEMMA RulesMove ==
  ASSUME IInv, [Next]_vars
  PROVE  \/ UNCHANGED rules
         \/ \E u \in Users : revoke(u)
         \/ \E r \in Runs : setRule(r)
BY DEF Next, vars, Drive, Crash, route, command, stores, resume, drive, evaluate, review,
   performWith, deniedForRun, policyDenied, request, waitForApproval, affirmEdit, decide,
   saveDecision, afterDecision

LEMMA SetRules ==
  ASSUME IInv, NEW r \in Runs, setRule(r), ~UNCHANGED rules
  PROVE  \A y \in rules' : (\A x \in rules : x.source # y.source)
                           \/ (\E x \in rules : Same(x, y) /\ (y = x \/ ~y.active))
<1> DEFINE rule == newRule(drv[r].cmd, drv[r].cap)
<1>1. ~End(r)
  <2> SUFFICES ASSUME End(r) PROVE FALSE
    OBVIOUS
  <2>1. drv'[r].step = "idle"
    BY Ends DEF IInv
  <2>2. goto(r, "decide")
    BY DEF setRule
  <2>3. drv'[r].step = "decide"
    BY <2>2, Goes DEF IInv
  <2> QED BY <2>1, <2>3
<1>2. rule \in Rule /\ rules' = set(rule)
  BY <1>1, SetRuleFacts
<1> HIDE DEF rule
<1>3. RulesOk
  BY DEF IInv
<1>4. PICK S \in SUBSET rules : rules' = (rules \ S) \cup {Off(x) : x \in S} \cup {rule}
  BY <1>2, <1>3, SetIs
<1>5. \A x \in rules : x.source # rule.source
  BY <1>2, <1>3, SetIs
<1> DEFINE N == {rule}
<1>6. \A y \in N : y = rule
  OBVIOUS
<1>7. N \in SUBSET Rule /\ rules' = (rules \ S) \cup {Off(x) : x \in S} \cup N
  BY <1>2, <1>4
<1> HIDE DEF N
<1>8. \A y \in rules' : y \in N \/ \E x \in rules : Same(x, y) /\ (y = x \/ ~y.active)
  BY <1>3, <1>5, <1>6, <1>7, Replaced
<1> QED BY <1>5, <1>6, <1>8

LEMMA StaysSuperseded ==
  ASSUME IInv, [Next]_vars, NEW x \in rules, ~x.active, NEW y \in rules', y.source = x.source
  PROVE  ~y.active
<1>1. \A z \in rules : z.source = x.source => z = x
  BY DEF IInv, RulesOk
<1>2. CASE UNCHANGED rules
  BY <1>1, <1>2
<1>3. CASE ~UNCHANGED rules
  <2>1. \/ \A z \in rules : z.source # y.source
        \/ \E z \in rules : Same(z, y) /\ (y = z \/ ~y.active)
    <3>1. CASE \E u \in Users : revoke(u)
      BY <3>1, RevokeRules DEF IInv
    <3>2. CASE \E r \in Runs : setRule(r)
      BY <1>3, <3>2, SetRules
    <3> QED BY <1>3, <3>1, <3>2, RulesMove
  <2> QED BY <1>1, <2>1 DEF Same
<1> QED BY <1>2, <1>3

\* A rule that was replaced or revoked stays so, however often the decision it came
\* from is repeated (SupersededStaysSuperseded).
THEOREM SupersededForGood == Spec => SupersededStaysSuperseded
<1>1. IInv /\ [Next]_vars =>
        [\A x \in rules : ~x.active => \A y \in rules' : y.source = x.source => ~y.active]_vars
  BY StaysSuperseded
<1> QED BY <1>1, Always, PTL DEF Spec, SupersededStaysSuperseded
=============================================================================
