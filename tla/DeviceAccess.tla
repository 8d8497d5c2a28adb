---------------------------- MODULE DeviceAccess ----------------------------
(***************************************************************************)
(* Who the Worker takes a request to come from and what it lets it do:     *)
(* the GitHub sign-in (apps/worker/src/github-oauth.ts), the sessions and  *)
(* memberships (postgres-access-control.ts), the binding of devices with a *)
(* one-time code (packages/device-binding), the device credential as a     *)
(* second way to authenticate (device-access.ts) and the routes that       *)
(* create Runs and change memberships (api.ts).  Every statement is a step *)
(* of its own; a handler keeps what it read over its next awaits.          *)
(***************************************************************************)
EXTENDS Naturals, FiniteSets

CONSTANTS
    Users, NoOne,       \* GitHub accounts; NoOne stands for "none of these"
    Projects,           \* the registered projects
    Admins,             \* the accounts with a bootstrap administrator's email
    States,             \* OAuth login states that may be drawn
    Sessions,           \* session tokens that may be drawn
    Codes,              \* device codes that may be drawn
    Devices,            \* device ids that may be drawn
    Slots,              \* requests served at a time
    MaxRequests,        \* bound: requests in all
    MaxOfEach,          \* bound: requests of the desktop, and of browsers
    Expiring,           \* bound: the codes and devices whose time may pass
    MaxLiveCodes,       \* maxLiveCodesPerUser
    Founded,            \* the memberships the database holds at Init
    SignedIn,           \* the accounts with a session at Init
    Minted, Bound,      \* the codes and the devices the database holds at Init
    Changes, Asked,     \* the membership changes and the Runs requests may ask for
    PredicatePassed     \* isDeviceAuthorizedForProject reaches the API handler

VARIABLES
    users,      \* the accounts that have a row
    members,    \* the role of each account in each project
    claimed,    \* bootstrap_admin_assigned of each project
    states,     \* oauth_login_states
    sessions,   \* auth_sessions
    codes,      \* device_binding_codes
    lock,       \* the request that holds the advisory lock of an account
    devices,    \* device_binding_devices
    runs,       \* the Runs created
    req,        \* the request each slot is serving
    arrived,    \* requests of the desktop and of browsers so far
    (* history *)
    dead,       \* credentials that were revoked, signed out or have expired
    redeemed    \* what each one-time secret was exchanged for

tables == <<users, members, claimed, states, sessions, codes, lock, devices, runs>>
serverVars == <<tables, req, arrived, dead, redeemed>>

Roles == <<"viewer", "developer", "admin">>
roleRank(role) == IF role = "none" THEN 0 ELSE CHOOSE i \in DOMAIN Roles : Roles[i] = role
Modes == {"request_approval", "full_access"}

Session == [user: Users \cup {NoOne}, status: {"none", "live", "gone"}]
Code == [user: Users \cup {NoOne}, project: Projects \cup {NoOne},
         consumed: BOOLEAN, expired: BOOLEAN]
Device == [user: Users \cup {NoOne}, project: Projects \cup {NoOne},
           revoked: BOOLEAN, expired: BOOLEAN]
Run == [creator: Users, project: Projects, mode: Modes, device: Devices \cup {NoOne}]
Ops == {"none", "login", "logout", "createCode", "exchange", "revoke", "member",
        "createRun"}
Steps == {"none", "redeem", "provider", "bootstrap", "session", "authenticate", "touch",
          "mark", "routed", "insert", "consume", "device", "apply", "done",
          "save", "remove", "clear"}

Idle == [op |-> "none", step |-> "none", cred |-> NoOne, user |-> NoOne,
         about |-> NoOne, late |-> FALSE, own |-> FALSE, answer |-> "none"]

NoDevice == [user |-> NoOne, project |-> NoOne, revoked |-> FALSE, expired |-> FALSE]
NoCode == [user |-> NoOne, project |-> NoOne, consumed |-> FALSE, expired |-> FALSE]
NoSession == [user |-> NoOne, status |-> "none"]

ASSUME AccessAssumption ==
    /\ MaxRequests \in Nat /\ MaxOfEach \in Nat /\ MaxLiveCodes \in Nat \ {0}
    /\ IsFiniteSet(Codes) /\ IsFiniteSet(Devices) /\ Expiring \subseteq Codes \cup Devices
    /\ Admins \subseteq Users /\ NoOne \notin Users \cup Slots \cup Sessions \cup Devices
    /\ States \cap Codes = {} /\ Sessions \cap Devices = {}
    /\ Founded \in [Projects -> [Users -> {"none", "viewer", "developer", "admin"}]]
    /\ Minted \in [Codes -> {NoCode} \cup
            [user: Users, project: Projects, consumed: BOOLEAN, expired: BOOLEAN]]
    /\ \A u \in Users : Cardinality({c \in Codes : Minted[c].user = u}) <= MaxLiveCodes
    /\ Bound \in [Devices -> {NoDevice} \cup
            [user: Users, project: Projects, revoked: BOOLEAN, expired: BOOLEAN]]
    /\ Changes \subseteq [project: Projects, user: Users,
                          role: {"none", "viewer", "developer", "admin"}]
    /\ Asked \subseteq [project: Projects, mode: Modes, local: BOOLEAN]
    /\ PredicatePassed \in BOOLEAN

live(c) == codes[c].user # NoOne /\ ~codes[c].consumed /\ ~codes[c].expired
unusedCodes == {c \in Codes : codes[c] = NoCode}
unusedDevices == {d \in Devices : devices[d] = NoDevice}
unusedSessions == {x \in Sessions : sessions[x] = NoSession}

TypeOK ==
    /\ users \subseteq Users
    /\ members \in [Projects -> [Users -> {"none", "viewer", "developer", "admin"}]]
    /\ claimed \in [Projects -> BOOLEAN]
    /\ states \in [States -> {"none", "issued", "gone"}]
    /\ sessions \in [Sessions -> Session]
    /\ codes \in [Codes -> Code] /\ devices \in [Devices -> Device]
    /\ lock \in [Users -> Slots \cup {NoOne}]
    /\ runs \subseteq Run
    /\ arrived \in [BOOLEAN -> Nat] /\ dead \subseteq Sessions \cup Devices
    /\ \A r \in Slots : req[r].op \in Ops /\ req[r].step \in Steps

-----------------------------------------------------------------------------
(* Requests *)

\* A new database, or one an earlier process left: the members have signed in
\* before, a project with members has had its administrator assigned, and codes
\* were minted or devices bound with them.
Init ==
    /\ \/ /\ users = {} /\ sessions = [x \in Sessions |-> NoSession]
          /\ members = [p \in Projects |-> [u \in Users |-> "none"]]
          /\ codes = [c \in Codes |-> NoCode] /\ devices = [d \in Devices |-> NoDevice]
       \/ /\ users = {u \in Users : \E p \in Projects : Founded[p][u] # "none"}
          /\ members = Founded
          /\ \/ codes = Minted /\ devices = [d \in Devices |-> NoDevice]
             \/ codes = [c \in Codes |-> NoCode] /\ devices = Bound
          /\ sessions \in {f \in [Sessions -> {NoSession} \cup [user: users, status: {"live"}]] :
                \A u \in Users : Cardinality({x \in Sessions : f[x].user = u}) =
                                    IF u \in SignedIn THEN 1 ELSE 0}
    /\ claimed = [p \in Projects |-> \E u \in Users : members[p][u] # "none"]
    /\ states = [s \in States |-> "none"]
    /\ lock = [u \in Users |-> NoOne] /\ runs = {}
    /\ req = [r \in Slots |-> Idle] /\ arrived = [own \in BOOLEAN |-> 0]
    /\ dead = {} /\ redeemed = {}

\* own: the request is the desktop's, which acts on the response.
Arrive(r, op, step, cred, about, own) ==
    /\ req[r] = Idle /\ arrived[own] < MaxOfEach /\ arrived[TRUE] + arrived[FALSE] < MaxRequests
    /\ arrived' = [arrived EXCEPT ![own] = @ + 1]
    /\ req' = [req EXCEPT ![r] = [Idle EXCEPT !.op = op, !.step = step, !.cred = cred,
            !.about = about, !.own = own,
            !.late = \/ cred \in dead
                     \/ op \in {"login", "exchange"} /\ \E y \in redeemed : y.secret = about]]
    /\ UNCHANGED <<tables, dead, redeemed>>

At(r, op, step) == req[r].op = op /\ req[r].step = step
goto(r, step) == req' = [req EXCEPT ![r].step = step]
respond(r, answer) == req' = [req EXCEPT ![r] =
    IF req[r].own THEN [req[r] EXCEPT !.step = "done", !.answer = answer, !.user = NoOne]
    ELSE Idle]
Yields(r, secret, product) ==
    redeemed' = redeemed \cup {[secret |-> secret, product |-> product, late |-> req[r].late]}

atServer(r) == req[r].step \notin {"none", "done", "save", "remove", "clear"}

\* The process dies: its requests end where they are, its transactions roll back.
Crash ==
    /\ \E r \in Slots : atServer(r)
    /\ req' = [r \in Slots |-> IF atServer(r) THEN Idle ELSE req[r]]
    /\ lock' = [u \in Users |-> NoOne]
    /\ UNCHANGED <<users, members, claimed, states, sessions, codes, devices, runs,
                   arrived, dead, redeemed>>

-----------------------------------------------------------------------------
(* Signing in with GitHub *)

\* begin(): a state is drawn and stored.
begin(s) ==
    /\ states[s] = "none" /\ states' = [states EXCEPT ![s] = "issued"]
    /\ UNCHANGED <<users, members, claimed, sessions, codes, lock, devices, runs, req,
                   arrived, dead, redeemed>>

\* Slip: the state is looked at, and consumed with the session.
consumeLoginStateLater(r) ==
    /\ At(r, "login", "redeem") /\ states[req[r].about] = "issued"
    /\ goto(r, "provider") /\ UNCHANGED states

\* One UPDATE finds the state unconsumed, unless its time has passed, and
\* consumes it.
consumeLoginState(r) ==
    /\ At(r, "login", "redeem")
    /\ states' = [states EXCEPT ![req[r].about] = "gone"]
    /\ \/ states[req[r].about] = "issued" /\ goto(r, "provider")
       \/ respond(r, "refused")

login(r) ==
    /\ consumeLoginState(r)
    /\ UNCHANGED <<users, members, claimed, sessions, codes, lock, devices, runs,
                   arrived, dead, redeemed>>

\* GitHub names the account; the account's row is written.
provisionUser(r, u) ==
    /\ At(r, "login", "provider")
    /\ users' = users \cup {u}
    /\ req' = [req EXCEPT ![r].user = u,
                          ![r].step = IF u \in Admins THEN "bootstrap" ELSE "session"]
    /\ UNCHANGED <<members, claimed, states, sessions, codes, lock, devices, runs, arrived,
                   dead, redeemed>>

\* GitHub does not answer, or the account may not sign in.
providerFails(r) ==
    /\ At(r, "login", "provider") /\ respond(r, "refused")
    /\ UNCHANGED <<tables, arrived, dead, redeemed>>

\* For each project one statement claims it and inserts the membership; a row
\* that is there already makes the insert, and with it the sign-in, fail.
bootstrapProjectAdmin(r, p) ==
    /\ At(r, "login", "bootstrap") /\ ~claimed[p]
    /\ IF members[p][req[r].user] = "none"
       THEN /\ claimed' = [claimed EXCEPT ![p] = TRUE]
            /\ members' = [members EXCEPT ![p][req[r].user] = "admin"]
            /\ UNCHANGED req
       ELSE respond(r, "refused") /\ UNCHANGED <<claimed, members>>
    /\ UNCHANGED <<users, states, sessions, codes, lock, devices, runs, arrived, dead, redeemed>>

bootstrapEnds(r) ==
    /\ At(r, "login", "bootstrap") /\ \A p \in Projects : claimed[p]
    /\ goto(r, "session")
    /\ UNCHANGED <<tables, arrived, dead, redeemed>>

issueSession(r, x) ==
    /\ At(r, "login", "session") /\ x \in unusedSessions
    /\ sessions' = [sessions EXCEPT ![x] = [user |-> req[r].user, status |-> "live"]]
    /\ Yields(r, req[r].about, x) /\ respond(r, "ok")
    /\ UNCHANGED <<users, members, claimed, states, codes, lock, devices, runs, arrived, dead>>

\* Logout authenticates nobody: it revokes whatever session was presented.
revokeRequestSession(r) ==
    /\ At(r, "logout", "redeem")
    /\ sessions' = [x \in Sessions |->
            IF x = req[r].cred THEN [sessions[x] EXCEPT !.status = "gone"] ELSE sessions[x]]
    /\ dead' = dead \cup ({req[r].cred} \cap Sessions) /\ respond(r, "ok")
    /\ UNCHANGED <<users, members, claimed, states, codes, lock, devices, runs, arrived, redeemed>>

-----------------------------------------------------------------------------
(* Authentication *)

Principal(r, u) == req' = [req EXCEPT ![r].user = u, ![r].step = "routed"]

\* Slip: a device is asked for its revocation only, as touchDevice does.
authenticateUnexpiring(r) ==
    /\ req[r].step = "authenticate"
    /\ LET cred == req[r].cred
       IN  CASE cred \in Sessions /\ sessions[cred].status = "live" ->
                    Principal(r, sessions[cred].user)
             [] cred \in Devices /\ ~devices[cred].revoked ->
                    goto(r, "touch")
             [] OTHER -> respond(r, "unauthorized")
    /\ UNCHANGED <<tables, arrived, dead, redeemed>>

\* A session is asked for first; a token that is none is looked up as a device.
authenticate(r) ==
    /\ req[r].step = "authenticate"
    /\ LET cred == req[r].cred
       IN  CASE cred \in Sessions /\ sessions[cred].status = "live" ->
                    Principal(r, sessions[cred].user)
             [] cred \in Devices /\ ~devices[cred].revoked /\ ~devices[cred].expired ->
                    goto(r, "touch")
             [] OTHER -> respond(r, "unauthorized")
    /\ UNCHANGED <<tables, arrived, dead, redeemed>>

\* The time of a session is looked at here and nowhere else.
sessionExpired(r) ==
    /\ req[r].step = "authenticate" /\ req[r].cred \in Sessions
    /\ sessions[req[r].cred].status = "live"
    /\ sessions' = [sessions EXCEPT ![req[r].cred].status = "gone"]
    /\ dead' = dead \cup {req[r].cred} /\ respond(r, "unauthorized")
    /\ UNCHANGED <<users, members, claimed, states, codes, lock, devices, runs, arrived, redeemed>>

\* touchDevice reads the row once more, for its revocation only.
touchDevice(r) ==
    /\ req[r].step = "touch"
    /\ IF devices[req[r].cred].revoked THEN respond(r, "unauthorized") ELSE goto(r, "mark")
    /\ UNCHANGED <<tables, arrived, dead, redeemed>>

\* The update touches last_used_at alone.
markDeviceLastUsed(r) ==
    /\ req[r].step = "mark"
    /\ UNCHANGED devices /\ Principal(r, devices[req[r].cred].user)
    /\ UNCHANGED <<users, members, claimed, states, sessions, codes, lock, runs, arrived,
                   dead, redeemed>>

-----------------------------------------------------------------------------
(* Binding a device *)

liveCodes(u) == {c \in Codes : live(c) /\ codes[c].user = u}

\* Slip: the live codes are counted without the lock.
countUnlocked(r) ==
    LET u == req[r].user
    IN  /\ At(r, "createCode", "routed")
        /\ IF Cardinality(liveCodes(u)) >= MaxLiveCodes
           THEN respond(r, "refused") ELSE goto(r, "insert")
        /\ UNCHANGED lock

\* lecoding_reserve_device_binding_code: the lock of the account, then the count.
count(r) ==
    LET u == req[r].user
    IN  /\ At(r, "createCode", "routed") /\ lock[u] = NoOne
        /\ IF Cardinality(liveCodes(u)) >= MaxLiveCodes
           THEN respond(r, "refused") /\ UNCHANGED lock
           ELSE goto(r, "insert") /\ lock' = [lock EXCEPT ![u] = r]

reserveCodeSlot(r) ==
    /\ count(r)
    /\ UNCHANGED <<users, members, claimed, states, sessions, codes, devices, runs, arrived,
                   dead, redeemed>>

\* The insert commits, which frees the lock.
insertCode(r, c) ==
    /\ At(r, "createCode", "insert") /\ c \in unusedCodes
    /\ codes' = [codes EXCEPT ![c] = [NoCode EXCEPT !.user = req[r].user,
                                                    !.project = req[r].about]]
    /\ lock' = [lock EXCEPT ![req[r].user] = NoOne] /\ respond(r, "ok")
    /\ UNCHANGED <<users, members, claimed, states, sessions, devices, runs, arrived, dead,
                   redeemed>>

\* findCode: unknown, used and expired codes are refused.
exchangeCode(r) ==
    /\ At(r, "exchange", "redeem")
    /\ IF live(req[r].about) THEN goto(r, "consume") ELSE respond(r, "refused")
    /\ UNCHANGED <<tables, arrived, dead, redeemed>>

\* The update asks for no state of the row.
consume(r) == goto(r, "insert") /\ codes' = [codes EXCEPT ![req[r].about].consumed = TRUE]

markCodeConsumed(r) ==
    /\ At(r, "exchange", "consume") /\ consume(r)
    /\ UNCHANGED <<users, members, claimed, states, sessions, lock, devices, runs, arrived,
                   dead, redeemed>>

insertDevice(r, d) ==
    LET code == req[r].about
    IN  /\ At(r, "exchange", "insert") /\ d \in unusedDevices
        /\ devices' = [devices EXCEPT ![d] = [NoDevice EXCEPT
                !.user = codes[code].user, !.project = codes[code].project]]
        /\ Yields(r, code, d)
        /\ req' = [req EXCEPT ![r] = IF req[r].own
                THEN [req[r] EXCEPT !.step = "done", !.answer = "ok", !.about = d] ELSE Idle]
        /\ UNCHANGED <<users, members, claimed, states, sessions, codes, lock, runs, arrived,
                       dead>>

\* Another account's device is unknown.  A device never changes hands, so that
\* reading the row and updating it are one step.
revokeDevice(r) ==
    /\ At(r, "revoke", "routed")
    /\ IF devices[req[r].about].user = req[r].user
       THEN /\ devices' = [devices EXCEPT ![req[r].about].revoked = TRUE]
            /\ dead' = dead \cup {req[r].about} /\ respond(r, "ok")
       ELSE respond(r, "refused") /\ UNCHANGED <<devices, dead>>
    /\ UNCHANGED <<users, members, claimed, states, sessions, codes, lock, runs, arrived, redeemed>>

-----------------------------------------------------------------------------
(* The routes of api.ts *)

roleFor(u, p) == members[p][u]
hasProjectRole(u, p, minimum) == roleRank(roleFor(u, p)) >= roleRank(minimum)

\* The role is read once and decides; what follows an await does not ask again.
routeMember(r) ==
    /\ At(r, "member", "routed")
    /\ IF hasProjectRole(req[r].user, req[r].about.project, "admin")
       THEN goto(r, "apply") ELSE respond(r, "refused")
    /\ UNCHANGED <<tables, arrived, dead, redeemed>>

\* set() upserts and fails for an account without a row; remove() deletes.
setMembership(r) ==
    LET to == req[r].about
    IN  /\ At(r, "member", "apply")
        /\ IF to.user \in users \/ to.role = "none"
           THEN members' = [members EXCEPT ![to.project][to.user] = to.role] /\ respond(r, "ok")
           ELSE UNCHANGED members /\ respond(r, "refused")
        /\ UNCHANGED <<users, claimed, states, sessions, codes, lock, devices, runs, arrived,
                       dead, redeemed>>

routeCreateRun(r) ==
    LET asked == req[r].about
        role == roleFor(req[r].user, asked.project)
    IN  /\ At(r, "createRun", "routed")
        /\ IF \/ roleRank(role) < roleRank("developer")
              \/ asked.mode = "full_access" /\ role # "admin"
              \/ asked.device # NoOne /\ ~PredicatePassed
           THEN respond(r, "refused")
           ELSE goto(r, IF asked.device = NoOne THEN "apply" ELSE "device")
        /\ UNCHANGED <<tables, arrived, dead, redeemed>>

\* Slip: the promise itself is tested, and a promise is never false.
deviceAuthorizedUnawaited(u, p, d) == TRUE

\* The devices of the account that were not revoked.
deviceAuthorized(u, p, d) ==
    devices[d].user = u /\ devices[d].project = p /\ ~devices[d].revoked

isDeviceAuthorizedForProject(r) ==
    /\ At(r, "createRun", "device")
    /\ IF deviceAuthorized(req[r].user, req[r].about.project, req[r].about.device)
       THEN goto(r, "apply") ELSE respond(r, "refused")
    /\ UNCHANGED <<tables, arrived, dead, redeemed>>

startRun(r) ==
    /\ At(r, "createRun", "apply")
    /\ runs' = runs \cup {[creator |-> req[r].user, project |-> req[r].about.project,
                           mode |-> req[r].about.mode, device |-> req[r].about.device]}
    /\ respond(r, "ok")
    /\ UNCHANGED <<users, members, claimed, states, sessions, codes, lock, devices, arrived,
                   dead, redeemed>>

\* A local Run names a device that exists, maybe of somebody else.
runRequests ==
    {q \in [project: Projects, mode: Modes, device: (Devices \ unusedDevices) \cup {NoOne}] :
        \E a \in Asked : /\ a.project = q.project /\ a.mode = q.mode
                         /\ a.local = (q.device # NoOne)}

-----------------------------------------------------------------------------
(* Time *)

expireCode(c) ==
    /\ live(c) /\ codes' = [codes EXCEPT ![c].expired = TRUE]
    /\ UNCHANGED <<users, members, claimed, states, sessions, lock, devices, runs, req, arrived,
                   dead, redeemed>>

expireDevice(d) ==
    /\ d \notin unusedDevices /\ ~devices[d].expired
    /\ devices' = [devices EXCEPT ![d].expired = TRUE] /\ dead' = dead \cup {d}
    /\ UNCHANGED <<users, members, claimed, states, sessions, codes, lock, runs, req, arrived,
                   redeemed>>

Serve(r) ==
    \/ login(r) \/ (\E u \in Users : provisionUser(r, u)) \/ providerFails(r)
    \/ (\E p \in Projects : bootstrapProjectAdmin(r, p)) \/ bootstrapEnds(r)
    \/ (\E x \in Sessions : issueSession(r, x)) \/ revokeRequestSession(r)
    \/ authenticate(r) \/ sessionExpired(r) \/ touchDevice(r) \/ markDeviceLastUsed(r)
    \/ reserveCodeSlot(r) \/ (\E c \in Codes : insertCode(r, c))
    \/ exchangeCode(r) \/ markCodeConsumed(r) \/ (\E d \in Devices : insertDevice(r, d))
    \/ revokeDevice(r)
    \/ routeMember(r) \/ setMembership(r)
    \/ routeCreateRun(r) \/ isDeviceAuthorizedForProject(r) \/ startRun(r)

Expire ==
    \/ \E c \in Codes \cap Expiring : expireCode(c)
    \/ \E d \in Devices \cap Expiring : expireDevice(d)

\* What a browser sends: a callback of the sign-in, or a session.  Codes are
\* minted and devices revoked by the desktop, whose requests the Worker treats
\* alike.
BrowserRequest(r) ==
    \/ \E s \in States : states[s] # "none" /\ Arrive(r, "login", "redeem", NoOne, s, FALSE)
    \/ \E x \in Sessions :
        /\ sessions[x] # NoSession
        /\ \/ Arrive(r, "logout", "redeem", x, NoOne, FALSE)
           \/ \E change \in Changes : Arrive(r, "member", "authenticate", x, change, FALSE)
           \/ \E run \in runRequests : Arrive(r, "createRun", "authenticate", x, run, FALSE)

-----------------------------------------------------------------------------
(* Properties *)

\* A one-time secret that has been redeemed yields nothing to a request that
\* comes later, and a login state yields one session even to callbacks that
\* overlap ("Device code already used", device-binding/src/index.ts:354).
RedeemedOnce ==
    /\ \A y \in redeemed : ~y.late
    /\ \A y, z \in redeemed : y.secret = z.secret /\ y.secret \in States => y = z

\* A request that arrives after its credential was revoked, signed out or has
\* expired is nobody's, however it races what other requests write.
RefusedAfterRevocation ==
    \A r \in Slots : req[r].late /\ req[r].cred # NoOne => req[r].user = NoOne

\* A Run is sent to a device of the account that created it, bound to its project.
OwnDeviceOnly ==
    \A run \in runs : run.device # NoOne =>
        /\ devices[run.device].user = run.creator
        /\ devices[run.device].project = run.project

\* Requests that overlap cannot leave an account with more live codes than its
\* budget ("concurrent issuers cannot collectively exceed maxLiveCodesPerUser").
LiveCodesBounded == \A u \in Users : Cardinality(liveCodes(u)) <= MaxLiveCodes

=============================================================================
