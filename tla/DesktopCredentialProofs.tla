----------------------- MODULE DesktopCredentialProofs -----------------------
(***************************************************************************)
(* Proofs about DesktopCredential, and with it about DeviceAccess, for any *)
(* accounts, projects, codes, devices, requests and launches: what one     *)
(* request checked still holds when it acts on it, because what it relies  *)
(* on only ever changes one way.                                           *)
(***************************************************************************)
EXTENDS DesktopCredential, FiniteSetTheorems, WellFoundedInduction, TLAPS

Answers == {"none", "ok", "refused", "unauthorized"}
RunAsk == [project: Projects, mode: Modes, device: Devices \cup {NoOne}]

Abouts == States \cup Codes \cup Projects \cup Devices \cup Changes \cup RunAsk \cup {NoOne}

Request == [op: Ops, step: Steps, cred: Sessions \cup Devices \cup {NoOne},
            user: Users \cup {NoOne}, about: Abouts,
            late: BOOLEAN, own: BOOLEAN, answer: Answers]

Types ==
    /\ DesktopTypeOK
    /\ req \in [Slots -> Request]
    /\ redeemed \subseteq [secret: States \cup Codes, product: Sessions \cup Devices,
                           late: BOOLEAN]

\* A row that was drawn belongs to somebody, and a credential that died shows it.
SessionsShow ==
    \A x \in Sessions : /\ x \in dead => sessions[x].status = "gone"
                        /\ sessions[x].status = "live" => sessions[x].user \in Users
RowsShow ==
    /\ \A c \in Codes : codes[c].user = NoOne => codes[c] = NoCode
    /\ \A d \in Devices : /\ devices[d].user = NoOne => devices[d] = NoDevice
                          /\ d \in dead => devices[d].revoked \/ devices[d].expired

World == SessionsShow /\ RowsShow

\* What a request has found out by now, of states st, codes cd, devices dv and dead
\* credentials dd: a sign-in,
GoodLogin(q, st) == q.op = "login" =>
    /\ q.about \in States /\ q.cred = NoOne /\ ~q.own
    /\ q.step \in {"redeem", "provider", "bootstrap", "session"}
    /\ q.late \/ q.step # "redeem" => st[q.about] = "gone"
    /\ q.step # "redeem" => ~q.late
    /\ q.step \in {"bootstrap", "session"} => q.user \in Users

\* the exchange of a code,
GoodExchange(q, cd, dv) == q.op = "exchange" =>
    /\ q.cred = NoOne /\ q.step \in {"redeem", "consume", "insert", "done", "save"}
    /\ q.step \in {"redeem", "consume", "insert"} =>
            q.about \in Codes /\ cd[q.about].user # NoOne
    /\ q.step = "redeem" /\ q.late => cd[q.about].consumed
    /\ q.step \in {"consume", "insert"} => ~q.late
    /\ q.step = "insert" => cd[q.about].consumed
    /\ q.step = "save" \/ (q.step = "done" /\ q.answer = "ok") =>
            q.about \in Devices /\ dv[q.about].user # NoOne

\* what is asked of an authenticated account,
Authenticated == {"createCode", "revoke", "member", "createRun"}

GoodAsk(q, dv) ==
    /\ q.op = "createCode" => q.about \in Projects
    /\ q.op = "revoke" => q.about \in Devices /\ dv[q.about].user # NoOne
    /\ q.op = "member" => q.about \in Changes
    /\ q.op = "createRun" =>
         /\ q.about \in RunAsk
         /\ q.about.device # NoOne => dv[q.about.device].user # NoOne
         /\ q.about.device # NoOne /\ q.step = "apply" =>
                /\ dv[q.about.device].user = q.user
                /\ dv[q.about.device].project = q.about.project
    /\ q.cred \in Devices => dv[q.cred].user # NoOne
    /\ q.step \in {"authenticate", "touch", "mark"} => q.op \in Authenticated
    /\ q.step \in {"touch", "mark"} => q.cred \in Devices
    /\ q.op \in Authenticated /\ q.step \in {"routed", "insert", "apply", "device"} =>
            q.user \in Users
    /\ q.step = "save" => q.op = "exchange"
    /\ q.step \in {"done", "save", "clear"} => q.own

\* and a request whose credential was dead when it came.
GoodLate(q, dd) == q.late /\ q.cred # NoOne =>
    /\ q.user = NoOne /\ q.cred \in dd
    /\ q.step \in {"authenticate", "redeem", "done", "clear"}
    /\ q.step = "redeem" => q.op = "logout"

Good(q, st, cd, dv, dd) ==
    GoodLogin(q, st) /\ GoodExchange(q, cd, dv) /\ GoodAsk(q, dv) /\ GoodLate(q, dd)

Requests == \A r \in Slots : Good(req[r], states, codes, devices, dead)

\* A login state belongs to the one request that consumed it, until it is redeemed.
Past(q) == q.op = "login" /\ q.step # "redeem"

SecretsSpent ==
    \A y \in redeemed : /\ y.secret \in States => states[y.secret] = "gone"
                        /\ y.secret \in Codes => codes[y.secret].consumed
PastAlone ==
    \A r \in Slots : Past(req[r]) =>
        /\ \A y \in redeemed : y.secret # req[r].about
        /\ \A s \in Slots : Past(req[s]) /\ req[s].about = req[r].about => s = r

SecretInv == RedeemedOnce /\ SecretsSpent /\ PastAlone

\* Whoever is about to insert a code counted under the lock it still holds.
Inserting(q) == q.op = "createCode" /\ q.step = "insert"

LockInv ==
    /\ LiveCodesBounded
    /\ \A r \in Slots : Inserting(req[r]) =>
         /\ lock[req[r].user] = r
         /\ Cardinality(liveCodes(req[r].user)) < MaxLiveCodes

\* What the desktop holds, in its two files and in memory, are devices there are; a
\* migration deletes what has its copy; only a desktop that is up has requests.
FileInv ==
    /\ SavedIsKept
    /\ \A b \in Backends : \A d \in file[b] : devices[d].user # NoOne
    /\ cached # NoOne => devices[cached].user # NoOne
    /\ launch = "copy" => file["encryptedFile"] \ file["safeStorage"] # {}
    /\ launch = "delete" => /\ file["encryptedFile"] \subseteq file["safeStorage"]
                            /\ file["encryptedFile"] # {}
    /\ \A r \in Slots : req[r].own => launch = "up"

IInv == /\ Types /\ World /\ Requests /\ SecretInv /\ LockInv /\ OwnDeviceOnly /\ FileInv

-----------------------------------------------------------------------------
(* What only changes one way, and what that leaves of the invariant.        *)

Onward(st, cd, dv, dd, st1, cd1, dv1, dd1) ==
    /\ \A s \in States : st[s] = "gone" => st1[s] = "gone"
    /\ \A c \in Codes : /\ cd[c].user # NoOne => cd1[c].user # NoOne
                        /\ cd[c].consumed => cd1[c].consumed
    /\ \A d \in Devices : dv[d].user # NoOne =>
            dv1[d].user = dv[d].user /\ dv1[d].project = dv[d].project
    /\ dd \subseteq dd1

Later == Onward(states, codes, devices, dead, states', codes', devices', dead')

(* What a request found out stays so.                                       *)
LEMMA GoodOnward ==
  ASSUME NEW q \in Request,
         NEW st, NEW cd, NEW dv, NEW dd, NEW st1, NEW cd1, NEW dv1, NEW dd1,
         Good(q, st, cd, dv, dd), Onward(st, cd, dv, dd, st1, cd1, dv1, dd1)
  PROVE  Good(q, st1, cd1, dv1, dd1)
<1> USE DEF Onward
<1>1. GoodLogin(q, st1)
  BY DEF Good, GoodLogin
<1>2. GoodExchange(q, cd1, dv1)
  BY DEF Good, GoodExchange
<1>3. GoodAsk(q, dv1)
  <2>1. q.op = "createRun" /\ q.about.device # NoOne => q.about.device \in Devices
    BY DEF Good, GoodAsk, RunAsk
  <2>2. q.op = "createRun" =>
         /\ q.about \in RunAsk
         /\ q.about.device # NoOne => dv1[q.about.device].user # NoOne
         /\ q.about.device # NoOne /\ q.step = "apply" =>
                /\ dv1[q.about.device].user = q.user
                /\ dv1[q.about.device].project = q.about.project
    BY <2>1 DEF Good, GoodAsk
  <2>3. q.op = "revoke" => q.about \in Devices /\ dv1[q.about].user # NoOne
    BY DEF Good, GoodAsk
  <2>4. q.cred \in Devices => dv1[q.cred].user # NoOne
    BY DEF Good, GoodAsk
  <2> QED BY <2>2, <2>3, <2>4 DEF Good, GoodAsk
<1>4. GoodLate(q, dd1)
  BY DEF Good, GoodLate
<1> QED BY <1>1, <1>2, <1>3, <1>4 DEF Good

Others(r) ==
    /\ req' \in [Slots -> Request]
    /\ \A s \in Slots \ {r} : req'[s] = req[s]

(* Only the request that acts has to be looked at.                          *)
LEMMA RequestsStep ==
  ASSUME Types, Requests, Later, NEW r \in Slots, Others(r),
         Good(req'[r], states', codes', devices', dead')
  PROVE  Requests'
<1> SUFFICES ASSUME NEW s \in Slots
             PROVE  Good(req'[s], states', codes', devices', dead')
  BY DEF Requests
<1>1. CASE s = r
  BY <1>1
<1>2. CASE s # r
  <2>1. req'[s] = req[s] /\ req[s] \in Request
    BY <1>2 DEF Others, Types
  <2>2. Good(req[s], states, codes, devices, dead)
    BY DEF Requests
  <2>3. Good(req[s], states', codes', devices', dead')
    BY <2>1, <2>2, GoodOnward DEF Later
  <2> QED BY <2>1, <2>3
<1> QED BY <1>1, <1>2

LEMMA SecretStep ==
  ASSUME Types, SecretInv, Later, redeemed' = redeemed,
         \A s \in Slots : Past(req'[s]) => Past(req[s]) /\ req'[s].about = req[s].about
  PROVE  SecretInv'
<1>1. RedeemedOnce'
  BY DEF SecretInv, RedeemedOnce
<1>2. SecretsSpent'
  BY DEF SecretInv, SecretsSpent, Later, Onward
<1>3. PastAlone'
  BY DEF SecretInv, PastAlone
<1> QED BY <1>1, <1>2, <1>3 DEF SecretInv

LEMMA LiveCodesType ==
  ASSUME Types, NEW u
  PROVE  IsFiniteSet(liveCodes(u)) /\ Cardinality(liveCodes(u)) \in Nat
<1>1. liveCodes(u) \subseteq Codes
  BY DEF liveCodes
<1> QED BY <1>1, AccessAssumption, FS_Subset, FS_CardinalityType

LEMMA LockStep ==
  ASSUME Types, LockInv, lock' = lock,
         \A u \in Users : liveCodes(u)' \subseteq liveCodes(u),
         \A s \in Slots : Inserting(req'[s]) =>
            /\ Inserting(req[s]) /\ req'[s].user = req[s].user /\ req[s].user \in Users
  PROVE  LockInv'
<1>1. ASSUME NEW u \in Users
      PROVE  /\ Cardinality(liveCodes(u)') \in Nat /\ Cardinality(liveCodes(u)) \in Nat
             /\ Cardinality(liveCodes(u)') <= Cardinality(liveCodes(u))
  <2>1. IsFiniteSet(liveCodes(u))
    BY LiveCodesType
  <2>2. IsFiniteSet(liveCodes(u)') /\ Cardinality(liveCodes(u)') <= Cardinality(liveCodes(u))
    BY <2>1, FS_Subset
  <2> QED BY <2>1, <2>2, FS_CardinalityType
<1>2. LiveCodesBounded'
  <2> SUFFICES ASSUME NEW u \in Users PROVE Cardinality(liveCodes(u)') <= MaxLiveCodes
    BY DEF LiveCodesBounded
  <2>1. Cardinality(liveCodes(u)) <= MaxLiveCodes
    BY DEF LockInv, LiveCodesBounded
  <2> QED BY <1>1, <2>1, AccessAssumption
<1>3. ASSUME NEW s \in Slots, Inserting(req[s])'
      PROVE  (/\ lock[req[s].user] = s
              /\ Cardinality(liveCodes(req[s].user)) < MaxLiveCodes)'
  <2>1. PICK u \in Users : u = req[s].user /\ u = req'[s].user /\ Inserting(req[s])
    BY <1>3
  <2>2. lock'[u] = s /\ Cardinality(liveCodes(u)) < MaxLiveCodes
    BY <2>1 DEF LockInv
  <2>3. Cardinality(liveCodes(u)') < MaxLiveCodes
    BY <1>1, <2>2, AccessAssumption
  <2> QED BY <2>1, <2>2, <2>3
<1> QED BY <1>2, <1>3 DEF LockInv

LEMMA RunsStep ==
  ASSUME Types, OwnDeviceOnly, Later, runs' = runs
  PROVE  OwnDeviceOnly'
<1> SUFFICES ASSUME NEW run \in runs, run.device # NoOne
             PROVE  /\ devices'[run.device].user = run.creator
                    /\ devices'[run.device].project = run.project
  BY DEF OwnDeviceOnly
<1>1. run.device \in Devices /\ run.creator \in Users
  BY DEF Types, DesktopTypeOK, TypeOK, Run
<1>2. devices[run.device].user = run.creator /\ devices[run.device].project = run.project
  BY DEF OwnDeviceOnly
<1> QED BY <1>1, <1>2, AccessAssumption DEF Later, Onward

LEMMA FileStep ==
  ASSUME Types, FileInv, Later, UNCHANGED desktopVars,
         \A s \in Slots : req'[s].own => launch = "up"
  PROVE  FileInv'
<1> USE DEF desktopVars
<1>1. SavedIsKept'
  BY DEF FileInv, SavedIsKept
<1>2. \A b \in Backends : \A d \in file'[b] : devices'[d].user # NoOne
  <2> SUFFICES ASSUME NEW b \in Backends, NEW d \in file[b] PROVE devices'[d].user # NoOne
    OBVIOUS
  <2>1. d \in Devices /\ devices[d].user # NoOne
    BY DEF FileInv, Types, DesktopTypeOK
  <2> QED BY <2>1 DEF Later, Onward
<1>3. cached' # NoOne => devices'[cached'].user # NoOne
  BY DEF FileInv, Types, DesktopTypeOK, Later, Onward
<1> QED BY <1>1, <1>2, <1>3 DEF FileInv

LEMMA WorldStep ==
  ASSUME World, UNCHANGED <<sessions, codes, devices, dead>>
  PROVE  World'
BY DEF World, SessionsShow, RowsShow

LEMMA Standing ==
  ASSUME UNCHANGED <<states, codes, devices, dead>>
  PROVE  Later
BY DEF Later, Onward

LEMMA SecretSlot ==
  ASSUME IInv, NEW r \in Slots, Others(r), Later, redeemed' = redeemed,
         Past(req'[r]) => Past(req[r]) /\ req'[r].about = req[r].about
  PROVE  SecretInv'
<1>1. \A s \in Slots : Past(req'[s]) => Past(req[s]) /\ req'[s].about = req[s].about
  BY DEF Others
<1> QED BY <1>1, SecretStep DEF IInv

LEMMA LockSlot ==
  ASSUME IInv, NEW r \in Slots, Others(r), lock' = lock, ~Inserting(req'[r]),
         \A u \in Users : liveCodes(u)' \subseteq liveCodes(u)
  PROVE  LockInv'
<1>1. \A s \in Slots : Inserting(req'[s]) =>
          /\ Inserting(req[s]) /\ req'[s].user = req[s].user /\ req[s].user \in Users
  BY DEF Others, IInv, Requests, Good, GoodAsk, Inserting, Authenticated
<1> QED BY <1>1, LockStep DEF IInv

(* One request acts; what it does to secrets and locks is shown apart.      *)
LEMMA SlotStep ==
  ASSUME IInv, NEW r \in Slots, Others(r), Later, DesktopTypeOK', World',
         redeemed' \subseteq [secret: States \cup Codes, product: Sessions \cup Devices,
                             late: BOOLEAN],
         Good(req'[r], states', codes', devices', dead'), req'[r].own => launch = "up",
         runs' = runs, UNCHANGED desktopVars, SecretInv', LockInv'
  PROVE  IInv'
<1>1. Types'
  BY DEF Types, Others
<1>2. Requests'
  BY RequestsStep DEF IInv
<1>3. OwnDeviceOnly'
  BY RunsStep DEF IInv
<1>4. FileInv'
  <2>1. \A s \in Slots : req'[s].own => launch = "up"
    BY DEF Others, IInv, FileInv
  <2> QED BY <2>1, FileStep DEF IInv
<1> QED BY <1>1, <1>2, <1>3, <1>4 DEF IInv

(* A request that only looks, writes an account or a membership, or answers. *)
LEMMA Quiet ==
  ASSUME IInv, NEW r \in Slots, Others(r), DesktopTypeOK',
         UNCHANGED <<states, sessions, codes, lock, devices, runs, dead, redeemed>>,
         UNCHANGED desktopVars,
         Good(req'[r], states, codes, devices, dead),
         Past(req'[r]) => Past(req[r]) /\ req'[r].about = req[r].about,
         ~Inserting(req'[r]),
         req'[r].own => launch = "up"
  PROVE  IInv'
<1>1. Later
  BY Standing
<1>2. World'
  BY WorldStep DEF IInv
<1>3. SecretInv'
  BY <1>1, SecretSlot
<1>4. LockInv'
  <2>1. \A u \in Users : liveCodes(u)' \subseteq liveCodes(u)
    BY DEF liveCodes, live
  <2> QED BY <2>1, LockSlot
<1>5. redeemed' \subseteq [secret: States \cup Codes, product: Sessions \cup Devices,
                          late: BOOLEAN]
  BY DEF IInv, Types
<1> QED BY <1>1, <1>2, <1>3, <1>4, <1>5, SlotStep

LEMMA Goto ==
  ASSUME Types, NEW r \in Slots, NEW step \in Steps, goto(r, step)
  PROVE  /\ Others(r) /\ req'[r] \in Request
         /\ req'[r] = [req[r] EXCEPT !.step = step]
<1>1. req \in [Slots -> Request]
  BY DEF Types
<1>2. [req[r] EXCEPT !.step = step] \in Request
  BY <1>1 DEF Request
<1>3. req' = [req EXCEPT ![r] = [req[r] EXCEPT !.step = step]]
  BY DEF goto
<1> HIDE DEF goto
<1> QED BY <1>1, <1>2, <1>3 DEF Others

LEMMA IdleIsGood == Idle \in Request /\ Good(Idle, states, codes, devices, dead)
<1>1. Idle \in Request
  BY DEF Idle, Request, Ops, Steps, Answers, Abouts
<1>2. NoOne \notin Devices
  BY AccessAssumption
<1> QED BY <1>1, <1>2 DEF Idle, Good, GoodLogin, GoodExchange, GoodAsk, GoodLate, Authenticated

(* A response leaves nothing open.                                          *)
LEMMA Respond ==
  ASSUME IInv, NEW r \in Slots, NEW a \in Answers, respond(r, a),
         req[r].op = "exchange" => a # "ok"
  PROVE  /\ Others(r) /\ Good(req'[r], states, codes, devices, dead)
         /\ ~Past(req'[r]) /\ ~Inserting(req'[r])
         /\ req'[r].own => launch = "up"
<1>1. req \in [Slots -> Request] /\ req[r] \in Request
  BY DEF IInv, Types
<1>2. CASE req[r].own
  <2> DEFINE q == [req[r] EXCEPT !.step = "done", !.answer = a, !.user = NoOne]
  <2>1. req' = [req EXCEPT ![r] = q]
    BY <1>2 DEF respond
  <2>2. q \in Request /\ q.op = req[r].op /\ q.cred = req[r].cred /\ q.own /\ q.step = "done"
    BY <1>1, <1>2 DEF Request, Steps
  <2>3. Others(r) /\ req'[r] = q
    BY <1>1, <2>1, <2>2 DEF Others
  <2>4. Good(req[r], states, codes, devices, dead)
    BY DEF IInv, Requests
  <2>5. req[r].op # "login"
    BY <1>2, <2>4 DEF Good, GoodLogin
  <2>6. GoodLogin(q, states) /\ GoodExchange(q, codes, devices)
    BY <1>1, <2>4, <2>5 DEF Good, GoodLogin, GoodExchange, Request
  <2>7. GoodAsk(q, devices)
    BY <1>1, <1>2, <2>4 DEF Good, GoodAsk, Request, Authenticated
  <2>8. GoodLate(q, dead)
    BY <1>1, <2>4 DEF Good, GoodLate, Request
  <2>9. launch = "up"
    BY <1>2 DEF IInv, FileInv
  <2> QED BY <2>2, <2>3, <2>5, <2>6, <2>7, <2>8, <2>9 DEF Good, Past, Inserting
<1>3. CASE ~req[r].own
  <2>1. req' = [req EXCEPT ![r] = Idle]
    BY <1>3 DEF respond
  <2>2. Others(r) /\ req'[r] = Idle
    BY <1>1, <2>1, IdleIsGood DEF Others
  <2> QED BY <2>2, IdleIsGood DEF Past, Inserting, Idle
<1> QED BY <1>2, <1>3

LEMMA QuietRespond ==
  ASSUME IInv, NEW r \in Slots, NEW a \in Answers, respond(r, a),
         req[r].op = "exchange" => a # "ok", DesktopTypeOK',
         UNCHANGED <<states, sessions, codes, lock, devices, runs, dead, redeemed>>,
         UNCHANGED desktopVars
  PROVE  IInv'
<1>1. /\ Others(r) /\ Good(req'[r], states, codes, devices, dead)
      /\ ~Past(req'[r]) /\ ~Inserting(req'[r])
      /\ req'[r].own => launch = "up"
  BY Respond
<1> QED BY <1>1, Quiet

(* What an action does to the types when it leaves the desktop alone.       *)
LEMMA DesktopTypeStep ==
  ASSUME Types, TypeOK', UNCHANGED desktopVars
  PROVE  DesktopTypeOK'
BY DEF Types, DesktopTypeOK, desktopVars

LEMMA TypeStep ==
  ASSUME Types, UNCHANGED <<tables, arrived, dead>>, req' \in [Slots -> Request]
  PROVE  TypeOK'
<1>1. \A s \in Slots : req'[s].op \in Ops /\ req'[s].step \in Steps
  BY DEF Request
<1> QED BY <1>1 DEF Types, DesktopTypeOK, TypeOK, tables

LEMMA QuietGoto ==
  ASSUME IInv, NEW r \in Slots, NEW step \in Steps, goto(r, step), DesktopTypeOK',
         UNCHANGED <<states, sessions, codes, lock, devices, runs, dead, redeemed>>,
         UNCHANGED desktopVars,
         Good([req[r] EXCEPT !.step = step], states, codes, devices, dead),
         req[r].op = "login" => req[r].step # "redeem",
         ~(req[r].op = "createCode" /\ step = "insert")
  PROVE  IInv'
<1>1. /\ Others(r) /\ req'[r] \in Request
      /\ req'[r] = [req[r] EXCEPT !.step = step]
  BY Goto DEF IInv
<1>2. req[r] \in Request
  BY DEF IInv, Types
<1>3. /\ req'[r].op = req[r].op /\ req'[r].step = step /\ req'[r].about = req[r].about
      /\ req'[r].own = req[r].own
  BY <1>1, <1>2 DEF Request
<1>4. Past(req'[r]) => Past(req[r]) /\ req'[r].about = req[r].about
  BY <1>3 DEF Past
<1>5. req'[r].own => launch = "up"
  BY <1>3 DEF IInv, FileInv
<1> QED BY <1>1, <1>3, <1>4, <1>5, Quiet DEF Inserting

(* An answer to a request that took something away.                         *)
LEMMA TakeRespond ==
  ASSUME IInv, NEW r \in Slots, NEW a \in Answers, respond(r, a),
         req[r].op = "exchange" => a # "ok",
         TypeOK', World', Later, UNCHANGED <<lock, runs, redeemed>>, UNCHANGED desktopVars,
         \A u \in Users : liveCodes(u)' \subseteq liveCodes(u)
  PROVE  IInv'
<1>1. /\ Others(r) /\ Good(req'[r], states, codes, devices, dead)
      /\ ~Past(req'[r]) /\ ~Inserting(req'[r]) /\ (req'[r].own => launch = "up")
  BY Respond
<1>2. req'[r] \in Request
  BY <1>1 DEF Others
<1>3. Good(req'[r], states', codes', devices', dead')
  BY <1>1, <1>2, GoodOnward DEF Later
<1>4. DesktopTypeOK'
  BY DesktopTypeStep DEF IInv
<1>5. SecretInv' /\ LockInv'
  BY <1>1, SecretSlot, LockSlot
<1>6. redeemed' \subseteq [secret: States \cup Codes, product: Sessions \cup Devices,
                          late: BOOLEAN]
  BY DEF IInv, Types
<1> QED BY <1>1, <1>3, <1>4, <1>5, <1>6, SlotStep

LEMMA OpsStep ==
  ASSUME NEW r \in Slots, Others(r)
  PROVE  \A s \in Slots : req'[s].op \in Ops /\ req'[s].step \in Steps
BY DEF Others, Request

(* A handler that only reads: it goes on, or it answers.                    *)
LEMMA LookRespond ==
  ASSUME IInv, NEW r \in Slots, NEW a \in Answers, respond(r, a),
         req[r].op = "exchange" => a # "ok",
         UNCHANGED <<tables, arrived, dead, redeemed>>, UNCHANGED desktopVars
  PROVE  IInv'
<1>1. Others(r)
  BY Respond
<1>2. DesktopTypeOK'
  BY <1>1, TypeStep, DesktopTypeStep DEF IInv, Others
<1> QED BY <1>2, QuietRespond DEF tables

LEMMA LookGoto ==
  ASSUME IInv, NEW r \in Slots, NEW step \in Steps, goto(r, step),
         Good([req[r] EXCEPT !.step = step], states, codes, devices, dead),
         req[r].op # "login", ~(req[r].op = "createCode" /\ step = "insert"),
         UNCHANGED <<tables, arrived, dead, redeemed>>, UNCHANGED desktopVars
  PROVE  IInv'
<1>1. Others(r)
  BY Goto DEF IInv
<1>2. DesktopTypeOK'
  BY <1>1, TypeStep, DesktopTypeStep DEF IInv, Others
<1> QED BY <1>2, QuietGoto DEF tables

-----------------------------------------------------------------------------
(* Signing in.                                                              *)

LEMMA ProvisionNext ==
  ASSUME IInv, NEW r \in Slots, NEW u \in Users, provisionUser(r, u), UNCHANGED desktopVars
  PROVE  IInv'
<1> DEFINE q == [req[r] EXCEPT !.user = u,
                               !.step = IF u \in Admins THEN "bootstrap" ELSE "session"]
<1>1. req \in [Slots -> Request] /\ req[r] \in Request
  BY DEF IInv, Types
<1>2. req' = [req EXCEPT ![r] = q]
  BY DEF provisionUser
<1>3. /\ q \in Request /\ q.op = "login" /\ q.step \in {"bootstrap", "session"} /\ q.user = u
      /\ q.about = req[r].about /\ q.cred = req[r].cred /\ q.late = req[r].late
      /\ q.own = req[r].own
  BY <1>1 DEF Request, provisionUser, At, Steps
<1>4. Others(r) /\ req'[r] = q
  BY <1>1, <1>2, <1>3 DEF Others
<1>5. Good(req[r], states, codes, devices, dead)
  BY DEF IInv, Requests
<1>6. Good(q, states, codes, devices, dead)
  <2>1. GoodLogin(q, states)
    BY <1>3, <1>5 DEF Good, GoodLogin, provisionUser, At
  <2>2. GoodExchange(q, codes, devices)
    BY <1>3 DEF GoodExchange
  <2>3. GoodAsk(q, devices)
    BY <1>3, <1>5 DEF Good, GoodAsk, Authenticated
  <2>4. GoodLate(q, dead)
    BY <1>3, <2>1 DEF GoodLogin, GoodLate
  <2> QED BY <2>1, <2>2, <2>3, <2>4 DEF Good
<1>7. TypeOK'
  <2>1. \A s \in Slots : req'[s].op \in Ops /\ req'[s].step \in Steps
    BY <1>4 DEF Others, Request
  <2> QED BY <2>1 DEF provisionUser, IInv, Types, DesktopTypeOK, TypeOK
<1>8. DesktopTypeOK'
  BY <1>7, DesktopTypeStep DEF IInv
<1>9. Past(req'[r]) => Past(req[r]) /\ req'[r].about = req[r].about
  BY <1>3, <1>4 DEF Past, provisionUser, At
<1>10. ~Inserting(req'[r]) /\ (req'[r].own => launch = "up")
  BY <1>3, <1>4 DEF Inserting, IInv, FileInv
<1> QED BY <1>4, <1>6, <1>8, <1>9, <1>10, Quiet DEF provisionUser

LEMMA ProviderFailsNext ==
  ASSUME IInv, NEW r \in Slots, providerFails(r), UNCHANGED desktopVars
  PROVE  IInv'
<1>1. respond(r, "refused") /\ "refused" \in Answers
  BY DEF providerFails, Answers
<1>2. req[r].op = "login"
  BY DEF providerFails, At
<1> QED BY <1>1, <1>2, LookRespond DEF providerFails

MemberRoles == {"none", "viewer", "developer", "admin"}

LEMMA MembersType ==
  ASSUME NEW m \in [Projects -> [Users -> MemberRoles]], NEW p \in Projects,
         NEW u \in Users, NEW role \in MemberRoles
  PROVE  [m EXCEPT ![p][u] = role] \in [Projects -> [Users -> MemberRoles]]
<1>1. [m[p] EXCEPT ![u] = role] \in [Users -> MemberRoles]
  OBVIOUS
<1>2. [m EXCEPT ![p] = [m[p] EXCEPT ![u] = role]] \in [Projects -> [Users -> MemberRoles]]
  BY <1>1
<1> QED BY <1>2

LEMMA BootstrapEndsNext ==
  ASSUME IInv, NEW r \in Slots, bootstrapEnds(r), UNCHANGED desktopVars
  PROVE  IInv'
<1>1. goto(r, "session") /\ "session" \in Steps
  BY DEF bootstrapEnds, Steps
<1>2. Others(r)
  BY <1>1, Goto DEF IInv
<1>3. DesktopTypeOK'
  BY <1>2, TypeStep, DesktopTypeStep DEF IInv, Others, bootstrapEnds
<1>4. /\ req[r] \in Request /\ Good(req[r], states, codes, devices, dead)
      /\ req[r].op = "login" /\ req[r].step = "bootstrap"
  BY DEF IInv, Types, Requests, bootstrapEnds, At
<1>5. Good([req[r] EXCEPT !.step = "session"], states, codes, devices, dead)
  BY <1>4 DEF Good, GoodLogin, GoodExchange, GoodAsk, GoodLate, Request, Authenticated
<1> QED BY <1>1, <1>3, <1>4, <1>5, QuietGoto DEF bootstrapEnds, tables

LEMMA BootstrapNext ==
  ASSUME IInv, NEW r \in Slots, NEW p \in Projects, bootstrapProjectAdmin(r, p),
         UNCHANGED desktopVars
  PROVE  IInv'
<1>1. /\ req[r] \in Request /\ req \in [Slots -> Request]
      /\ Good(req[r], states, codes, devices, dead)
      /\ req[r].op = "login" /\ req[r].step = "bootstrap"
  BY DEF IInv, Types, Requests, bootstrapProjectAdmin, At
<1>2. req[r].user \in Users
  BY <1>1 DEF Good, GoodLogin
<1>3. members' \in [Projects -> [Users -> {"none", "viewer", "developer", "admin"}]]
      /\ claimed' \in [Projects -> BOOLEAN]
  <2>1. /\ members \in [Projects -> [Users -> MemberRoles]]
        /\ claimed \in [Projects -> BOOLEAN] /\ "admin" \in MemberRoles
    BY DEF IInv, Types, DesktopTypeOK, TypeOK, MemberRoles
  <2>2. members' \in [Projects -> [Users -> MemberRoles]]
    <3>1. [members EXCEPT ![p][req[r].user] = "admin"] \in [Projects -> [Users -> MemberRoles]]
      BY <1>2, <2>1, MembersType
    <3>2. members' = [members EXCEPT ![p][req[r].user] = "admin"] \/ members' = members
      BY DEF bootstrapProjectAdmin
    <3> QED BY <2>1, <3>1, <3>2
  <2> QED BY <2>1, <2>2 DEF bootstrapProjectAdmin, MemberRoles
<1>4. req' \in [Slots -> Request] => DesktopTypeOK'
  <2> SUFFICES ASSUME req' \in [Slots -> Request] PROVE DesktopTypeOK'
    OBVIOUS
  <2>1. \A s \in Slots : req'[s].op \in Ops /\ req'[s].step \in Steps
    BY DEF Request
  <2>2. TypeOK'
    BY <1>3, <2>1 DEF bootstrapProjectAdmin, IInv, Types, DesktopTypeOK, TypeOK
  <2> QED BY <2>2, DesktopTypeStep DEF IInv
<1>5. CASE respond(r, "refused")
  <2>1. Others(r)
    BY <1>5, Respond, <1>1 DEF Answers
  <2> QED BY <1>1, <1>4, <1>5, <2>1, QuietRespond
         DEF bootstrapProjectAdmin, Others, Answers
<1>6. CASE req' = req
  <2>1. /\ Others(r) /\ req'[r] = req[r] /\ Past(req'[r]) /\ ~Inserting(req'[r])
        /\ req'[r].own => launch = "up"
    BY <1>1, <1>6 DEF Others, Past, Inserting, IInv, FileInv
  <2>2. UNCHANGED <<states, sessions, codes, lock, devices, runs, dead, redeemed>>
    BY DEF bootstrapProjectAdmin
  <2>3. DesktopTypeOK'
    BY <1>4, <2>1 DEF Others
  <2>4. Good(req'[r], states, codes, devices, dead)
    BY <1>1, <2>1
  <2> QED BY <2>1, <2>2, <2>3, <2>4, Quiet DEF Past
<1> QED BY <1>5, <1>6 DEF bootstrapProjectAdmin

-----------------------------------------------------------------------------
(* Authentication.                                                          *)

(* The account of a request is known from here on.                          *)
LEMMA PrincipalNext ==
  ASSUME IInv, NEW r \in Slots, NEW u \in Users, Principal(r, u),
         req[r].op \in Authenticated, ~req[r].late \/ req[r].cred = NoOne,
         UNCHANGED <<tables, arrived, dead, redeemed>>, UNCHANGED desktopVars
  PROVE  IInv'
<1> DEFINE q == [req[r] EXCEPT !.user = u, !.step = "routed"]
<1>1. req \in [Slots -> Request] /\ req[r] \in Request
  BY DEF IInv, Types
<1>2. req' = [req EXCEPT ![r] = q]
  BY DEF Principal
<1>3. /\ q \in Request /\ q.op = req[r].op /\ q.step = "routed" /\ q.user = u
      /\ q.about = req[r].about /\ q.cred = req[r].cred /\ q.late = req[r].late
      /\ q.own = req[r].own
  BY <1>1 DEF Request, Steps
<1>4. Others(r) /\ req'[r] = q
  BY <1>1, <1>2, <1>3 DEF Others
<1>5. Good(req[r], states, codes, devices, dead)
  BY DEF IInv, Requests
<1>6. Good(q, states, codes, devices, dead)
  <2>1. GoodLogin(q, states) /\ GoodExchange(q, codes, devices)
    BY <1>3 DEF GoodLogin, GoodExchange, Authenticated
  <2>2. GoodAsk(q, devices)
    BY <1>3, <1>5 DEF Good, GoodAsk, Authenticated
  <2>3. GoodLate(q, dead)
    BY <1>3 DEF GoodLate
  <2> QED BY <2>1, <2>2, <2>3 DEF Good
<1>7. DesktopTypeOK'
  BY <1>4, TypeStep, DesktopTypeStep DEF IInv, Others
<1>8. ~Past(req'[r]) /\ ~Inserting(req'[r]) /\ (req'[r].own => launch = "up")
  BY <1>3, <1>4 DEF Past, Inserting, Authenticated, IInv, FileInv
<1> QED BY <1>4, <1>6, <1>7, <1>8, Quiet DEF tables

(* A live session is nobody's that was signed out, a device that is neither *)
(* revoked nor expired is nobody's that died.                               *)
LEMMA AuthenticateNext ==
  ASSUME IInv, NEW r \in Slots, authenticate(r), UNCHANGED desktopVars
  PROVE  IInv'
<1> DEFINE cred == req[r].cred
<1>1. /\ req[r] \in Request /\ Good(req[r], states, codes, devices, dead)
      /\ req[r].step = "authenticate"
  BY DEF IInv, Types, Requests, authenticate
<1>2. req[r].op \in Authenticated
  BY <1>1 DEF Good, GoodAsk
<1>3. CASE cred \in Sessions /\ sessions[cred].status = "live"
  <2>1. sessions[cred].user \in Users /\ cred \notin dead
    BY <1>3 DEF IInv, World, SessionsShow, RowsShow
  <2>2. ~req[r].late \/ cred = NoOne
    BY <1>1, <2>1 DEF Good, GoodLate
  <2>3. Principal(r, sessions[cred].user)
    BY <1>3, AccessAssumption DEF authenticate
  <2> QED BY <1>2, <2>1, <2>2, <2>3, PrincipalNext DEF authenticate
<1>4. CASE /\ ~(cred \in Sessions /\ sessions[cred].status = "live")
           /\ cred \in Devices /\ ~devices[cred].revoked /\ ~devices[cred].expired
  <2>1. cred \notin dead
    BY <1>4 DEF IInv, World, SessionsShow, RowsShow
  <2>2. ~req[r].late \/ cred = NoOne
    BY <1>1, <2>1 DEF Good, GoodLate
  <2>3. goto(r, "touch") /\ "touch" \in Steps
    BY <1>4 DEF authenticate, Steps
  <2> DEFINE q == [req[r] EXCEPT !.step = "touch"]
  <2>4. /\ q.op = req[r].op /\ q.step = "touch" /\ q.about = req[r].about
        /\ q.cred = cred /\ q.late = req[r].late /\ q.own = req[r].own
    BY <1>1 DEF Request
  <2>5. Good(q, states, codes, devices, dead)
    BY <1>1, <1>2, <1>4, <2>2, <2>4
       DEF Good, GoodLogin, GoodExchange, GoodAsk, GoodLate, Authenticated
  <2> QED BY <1>2, <2>3, <2>5, LookGoto DEF authenticate, Authenticated
<1>5. CASE /\ ~(cred \in Sessions /\ sessions[cred].status = "live")
           /\ ~(cred \in Devices /\ ~devices[cred].revoked /\ ~devices[cred].expired)
  <2>1. respond(r, "unauthorized") /\ "unauthorized" \in Answers
    BY <1>5 DEF authenticate, Answers
  <2> QED BY <1>2, <2>1, LookRespond DEF authenticate, Authenticated
<1> QED BY <1>3, <1>4, <1>5

LEMMA TouchNext ==
  ASSUME IInv, NEW r \in Slots, touchDevice(r), UNCHANGED desktopVars
  PROVE  IInv'
<1>1. /\ req[r] \in Request /\ Good(req[r], states, codes, devices, dead)
      /\ req[r].step = "touch" /\ req[r].op \in Authenticated
  BY DEF IInv, Types, Requests, touchDevice, Good, GoodAsk
<1>2. CASE respond(r, "unauthorized")
  BY <1>1, <1>2, LookRespond DEF touchDevice, Answers, Authenticated
<1>3. CASE goto(r, "mark")
  <2> DEFINE q == [req[r] EXCEPT !.step = "mark"]
  <2>1. /\ q.op = req[r].op /\ q.step = "mark" /\ q.about = req[r].about
        /\ q.cred = req[r].cred /\ q.late = req[r].late /\ q.own = req[r].own
    BY <1>1 DEF Request
  <2>2. Good(q, states, codes, devices, dead)
    BY <1>1, <2>1 DEF Good, GoodLogin, GoodExchange, GoodAsk, GoodLate, Authenticated
  <2>3. "mark" \in Steps
    BY DEF Steps
  <2> QED BY <1>1, <1>3, <2>2, <2>3, LookGoto DEF touchDevice, Authenticated
<1> QED BY <1>2, <1>3 DEF touchDevice

LEMMA MarkNext ==
  ASSUME IInv, NEW r \in Slots, markDeviceLastUsed(r), UNCHANGED desktopVars
  PROVE  IInv'
<1>1. /\ req[r] \in Request /\ Good(req[r], states, codes, devices, dead)
      /\ req[r].step = "mark" /\ req[r].op \in Authenticated
      /\ req[r].cred \in Devices /\ devices[req[r].cred].user # NoOne
  BY DEF IInv, Types, Requests, markDeviceLastUsed, Good, GoodAsk
<1>2. devices[req[r].cred].user \in Users
  BY <1>1 DEF IInv, Types, DesktopTypeOK, TypeOK, Device
<1>3. ~req[r].late \/ req[r].cred = NoOne
  BY <1>1 DEF Good, GoodLate
<1> QED BY <1>1, <1>2, <1>3, PrincipalNext DEF markDeviceLastUsed, tables

-----------------------------------------------------------------------------
(* The routes.                                                              *)

LEMMA ExchangeCodeNext ==
  ASSUME IInv, NEW r \in Slots, exchangeCode(r), UNCHANGED desktopVars
  PROVE  IInv'
<1>1. /\ req[r] \in Request /\ Good(req[r], states, codes, devices, dead)
      /\ req[r].step = "redeem" /\ req[r].op = "exchange"
  BY DEF IInv, Types, Requests, exchangeCode, At
<1>2. CASE respond(r, "refused")
  BY <1>2, LookRespond DEF exchangeCode, Answers
<1>3. CASE goto(r, "consume") /\ live(req[r].about)
  <2> DEFINE q == [req[r] EXCEPT !.step = "consume"]
  <2>1. /\ q.op = "exchange" /\ q.step = "consume" /\ q.about = req[r].about
        /\ q.cred = req[r].cred /\ q.late = req[r].late /\ q.own = req[r].own
    BY <1>1 DEF Request
  <2>2. ~req[r].late
    BY <1>1, <1>3 DEF Good, GoodExchange, live
  <2>3. Good(q, states, codes, devices, dead)
    BY <1>1, <2>1, <2>2 DEF Good, GoodLogin, GoodExchange, GoodAsk, GoodLate, Authenticated
  <2>4. "consume" \in Steps
    BY DEF Steps
  <2> QED BY <1>1, <1>3, <2>3, <2>4, LookGoto DEF exchangeCode
<1> QED BY <1>2, <1>3 DEF exchangeCode

(* Going on with an account.                                                *)
LEMMA RouteGoto ==
  ASSUME IInv, NEW r \in Slots, NEW step \in {"apply", "device"}, goto(r, step),
         req[r].op \in {"member", "createRun"}, req[r].step \in {"routed", "device"},
         /\ req[r].op = "createRun" /\ step = "apply" /\ req[r].about.device # NoOne =>
              /\ devices[req[r].about.device].user = req[r].user
              /\ devices[req[r].about.device].project = req[r].about.project,
         UNCHANGED <<tables, arrived, dead, redeemed>>, UNCHANGED desktopVars
  PROVE  IInv'
<1> DEFINE q == [req[r] EXCEPT !.step = step]
<1>1. req[r] \in Request /\ Good(req[r], states, codes, devices, dead)
  BY DEF IInv, Types, Requests
<1>2. /\ q.op = req[r].op /\ q.step = step /\ q.about = req[r].about /\ q.user = req[r].user
      /\ q.cred = req[r].cred /\ q.late = req[r].late /\ q.own = req[r].own
  BY <1>1 DEF Request
<1>3. GoodLogin(q, states) /\ GoodExchange(q, codes, devices)
  BY <1>2 DEF GoodLogin, GoodExchange
<1>4. GoodAsk(q, devices)
  BY <1>1, <1>2 DEF Good, GoodAsk, Authenticated
<1>5. GoodLate(q, dead)
  BY <1>1, <1>2 DEF Good, GoodLate
<1>6. step \in Steps
  BY DEF Steps
<1> QED BY <1>3, <1>4, <1>5, <1>6, LookGoto DEF Good

LEMMA RouteMemberNext ==
  ASSUME IInv, NEW r \in Slots, routeMember(r), UNCHANGED desktopVars
  PROVE  IInv'
<1>1. req[r].op = "member" /\ req[r].step = "routed"
  BY DEF routeMember, At
<1>2. CASE goto(r, "apply")
  BY <1>1, <1>2, RouteGoto DEF routeMember
<1>3. CASE respond(r, "refused")
  BY <1>1, <1>3, LookRespond DEF routeMember, Answers
<1> QED BY <1>2, <1>3 DEF routeMember

LEMMA RouteCreateRunNext ==
  ASSUME IInv, NEW r \in Slots, routeCreateRun(r), UNCHANGED desktopVars
  PROVE  IInv'
<1>1. req[r].op = "createRun" /\ req[r].step = "routed"
  BY DEF routeCreateRun, At
<1>2. CASE goto(r, "apply") /\ req[r].about.device = NoOne
  BY <1>1, <1>2, RouteGoto DEF routeCreateRun
<1>3. CASE goto(r, "device")
  BY <1>1, <1>3, RouteGoto DEF routeCreateRun
<1>4. CASE respond(r, "refused")
  BY <1>1, <1>4, LookRespond DEF routeCreateRun, Answers
<1> QED BY <1>2, <1>3, <1>4 DEF routeCreateRun

(* The device was asked for its account and its project.                    *)
LEMMA DeviceAuthorizedNext ==
  ASSUME IInv, NEW r \in Slots, isDeviceAuthorizedForProject(r), UNCHANGED desktopVars
  PROVE  IInv'
<1>1. req[r].op = "createRun" /\ req[r].step = "device"
  BY DEF isDeviceAuthorizedForProject, At
<1>2. CASE goto(r, "apply") /\ deviceAuthorized(req[r].user, req[r].about.project,
                                                req[r].about.device)
  BY <1>1, <1>2, RouteGoto DEF isDeviceAuthorizedForProject, deviceAuthorized
<1>3. CASE respond(r, "refused")
  BY <1>1, <1>3, LookRespond DEF isDeviceAuthorizedForProject, Answers
<1> QED BY <1>2, <1>3 DEF isDeviceAuthorizedForProject

LEMMA SetMembershipNext ==
  ASSUME IInv, NEW r \in Slots, setMembership(r), UNCHANGED desktopVars
  PROVE  IInv'
<1> DEFINE to == req[r].about
<1>1. /\ req[r] \in Request /\ Good(req[r], states, codes, devices, dead)
      /\ req[r].op = "member"
  BY DEF IInv, Types, Requests, setMembership, At
<1>2. to \in Changes
  BY <1>1 DEF Good, GoodAsk
<1>3. to.project \in Projects /\ to.user \in Users /\ to.role \in MemberRoles
  BY <1>2, AccessAssumption DEF MemberRoles
<1>4. members \in [Projects -> [Users -> MemberRoles]]
  BY DEF IInv, Types, DesktopTypeOK, TypeOK, MemberRoles
<1>5. [members EXCEPT ![to.project][to.user] = to.role] \in [Projects -> [Users -> MemberRoles]]
  BY <1>3, <1>4, MembersType
<1>6. members' \in [Projects -> [Users -> MemberRoles]]
  BY <1>4, <1>5 DEF setMembership
<1>7. PICK a \in {"ok", "refused"} : respond(r, a)
  BY DEF setMembership
<1>8. Others(r)
  BY <1>1, <1>7, Respond DEF Answers
<1>9. \A s \in Slots : req'[s].op \in Ops /\ req'[s].step \in Steps
  BY <1>8 DEF Others, Request
<1>10. TypeOK'
  BY <1>6, <1>9 DEF setMembership, IInv, Types, DesktopTypeOK, TypeOK, MemberRoles
<1>11. DesktopTypeOK'
  BY <1>10, DesktopTypeStep DEF IInv
<1> QED BY <1>1, <1>7, <1>11, QuietRespond DEF setMembership, Answers

(* A Run is created with the device the request was found to own.           *)
LEMMA StartRunNext ==
  ASSUME IInv, NEW r \in Slots, startRun(r), UNCHANGED desktopVars
  PROVE  IInv'
<1> DEFINE asked == req[r].about
           run == [creator |-> req[r].user, project |-> asked.project,
                   mode |-> asked.mode, device |-> asked.device]
<1>1. /\ req[r] \in Request /\ Good(req[r], states, codes, devices, dead)
      /\ req[r].op = "createRun" /\ req[r].step = "apply"
  BY DEF IInv, Types, Requests, startRun, At
<1>2. asked \in RunAsk /\ req[r].user \in Users
  BY <1>1 DEF Good, GoodAsk, Authenticated
<1>3. run \in Run
  BY <1>2 DEF RunAsk, Run
<1>4. runs' = runs \cup {run}
  BY DEF startRun
<1>5. /\ Others(r) /\ Good(req'[r], states, codes, devices, dead)
      /\ ~Past(req'[r]) /\ ~Inserting(req'[r]) /\ (req'[r].own => launch = "up")
  BY <1>1, Respond DEF startRun, Answers
<1>6. Later
  BY Standing DEF startRun
<1>7. Types'
  <2>1. \A s \in Slots : req'[s].op \in Ops /\ req'[s].step \in Steps
    BY <1>5 DEF Others, Request
  <2>2. TypeOK'
    BY <1>3, <1>4, <2>1 DEF startRun, IInv, Types, DesktopTypeOK, TypeOK
  <2>3. DesktopTypeOK'
    BY <2>2, DesktopTypeStep DEF IInv
  <2> QED BY <1>5, <2>3 DEF Others, startRun, IInv, Types
<1>8. World'
  BY WorldStep DEF IInv, startRun
<1>9. Requests'
  BY <1>5, <1>6, RequestsStep DEF IInv, startRun
<1>10. SecretInv'
  <2>1. \A s \in Slots : Past(req'[s]) => Past(req[s]) /\ req'[s].about = req[s].about
    BY <1>5 DEF Others
  <2> QED BY <1>6, <2>1, SecretStep DEF IInv, startRun
<1>11. LockInv'
  <2>1. \A u \in Users : liveCodes(u)' \subseteq liveCodes(u)
    BY DEF liveCodes, live, startRun
  <2>2. \A s \in Slots : Inserting(req'[s]) =>
            /\ Inserting(req[s]) /\ req'[s].user = req[s].user /\ req[s].user \in Users
    BY <1>5 DEF Others, IInv, Requests, Good, GoodAsk, Inserting, Authenticated
  <2> QED BY <2>1, <2>2, LockStep DEF IInv, startRun
<1>12. OwnDeviceOnly'
  <2> SUFFICES ASSUME NEW x \in runs', x.device # NoOne
               PROVE  /\ devices'[x.device].user = x.creator
                      /\ devices'[x.device].project = x.project
    BY DEF OwnDeviceOnly
  <2>1. CASE x \in runs
    BY <2>1 DEF startRun, IInv, OwnDeviceOnly
  <2>2. CASE x = run
    <3>1. asked.device # NoOne /\ x.device = asked.device
      BY <2>2
    <3>2. devices[asked.device].user = req[r].user /\ devices[asked.device].project = asked.project
      BY <1>1, <3>1 DEF Good, GoodAsk
    <3> QED BY <2>2, <3>2 DEF startRun
  <2> QED BY <1>4, <2>1, <2>2
<1>13. FileInv'
  <2>1. \A s \in Slots : req'[s].own => launch = "up"
    BY <1>5 DEF Others, IInv, FileInv
  <2> QED BY <1>6, <2>1, FileStep DEF IInv
<1> QED BY <1>7, <1>8, <1>9, <1>10, <1>11, <1>12, <1>13 DEF IInv

-----------------------------------------------------------------------------
(* States and sessions.                                                     *)

(* A state that is consumed while it was issued is nobody else's.           *)
LEMMA LoginNext ==
  ASSUME IInv, NEW r \in Slots, login(r), UNCHANGED desktopVars
  PROVE  IInv'
<1> DEFINE s == req[r].about
<1>1. /\ req[r] \in Request /\ Good(req[r], states, codes, devices, dead)
      /\ req[r].op = "login" /\ req[r].step = "redeem"
  BY DEF IInv, Types, Requests, login, consumeLoginState, At
<1>2. s \in States
  BY <1>1 DEF Good, GoodLogin
<1>3. states \in [States -> {"none", "issued", "gone"}]
  BY DEF IInv, Types, DesktopTypeOK, TypeOK
<1>4. states' = [states EXCEPT ![s] = "gone"]
  BY DEF login, consumeLoginState
<1>5. UNCHANGED <<users, members, claimed, sessions, codes, lock, devices, runs, arrived, dead,
                  redeemed>>
  BY DEF login
<1>6. Later
  BY <1>3, <1>4, <1>5 DEF Later, Onward
<1>7. World'
  BY <1>5, WorldStep DEF IInv
<1>8. \A u \in Users : liveCodes(u)' \subseteq liveCodes(u)
  BY <1>5 DEF liveCodes, live
<1>9. Others(r) => TypeOK'
  <2> SUFFICES ASSUME Others(r) PROVE TypeOK'
    OBVIOUS
  <2>1. states' \in [States -> {"none", "issued", "gone"}]
    BY <1>3, <1>4
  <2> QED BY <1>5, <2>1, OpsStep DEF IInv, Types, DesktopTypeOK, TypeOK
<1>10. CASE respond(r, "refused")
  <2>1. Others(r) /\ "refused" \in Answers
    BY <1>1, <1>10, Respond DEF Answers
  <2> QED BY <1>1, <1>5, <1>6, <1>7, <1>8, <1>9, <1>10, <2>1, TakeRespond
<1>11. CASE states[s] = "issued" /\ goto(r, "provider")
  <2>1. /\ Others(r) /\ req'[r] \in Request
        /\ req'[r] = [req[r] EXCEPT !.step = "provider"]
    BY <1>11, Goto DEF IInv, Steps
  <2>2. /\ req'[r].op = "login" /\ req'[r].step = "provider" /\ req'[r].about = s
        /\ req'[r].cred = req[r].cred /\ req'[r].late = req[r].late
        /\ req'[r].own = req[r].own
    BY <1>1, <2>1 DEF Request
  <2>3. ~req[r].late /\ req[r].cred = NoOne /\ ~req[r].own
    BY <1>1, <1>11 DEF Good, GoodLogin
  <2>4. states'[s] = "gone"
    BY <1>2, <1>3, <1>4
  <2>5. Good(req'[r], states', codes', devices', dead')
    BY <1>1, <1>2, <2>2, <2>3, <2>4, AccessAssumption
       DEF Good, GoodLogin, GoodExchange, GoodAsk, GoodLate, Authenticated
  <2>6. SecretInv'
    <3>1. RedeemedOnce'
      BY <1>5 DEF IInv, SecretInv, RedeemedOnce
    <3>2. SecretsSpent'
      BY <1>5, <1>6 DEF IInv, SecretInv, SecretsSpent, Later, Onward
    <3>3. \A y \in redeemed : y.secret # s
      BY <1>2, <1>11 DEF IInv, SecretInv, SecretsSpent
    <3>4. \A q \in Slots : q # r /\ Past(req[q]) => req[q].about # s
      BY <1>2, <1>11 DEF IInv, Requests, Good, GoodLogin, Past
    <3>5. PastAlone'
      <4> SUFFICES ASSUME NEW q \in Slots, Past(req'[q])
                   PROVE  /\ \A y \in redeemed' : y.secret # req'[q].about
                          /\ \A p \in Slots : Past(req'[p]) /\ req'[p].about = req'[q].about
                                                => p = q
        BY DEF PastAlone
      <4>1. CASE q = r
        BY <1>5, <2>1, <2>2, <3>3, <3>4, <4>1 DEF Others
      <4>2. CASE q # r
        <5>1. req'[q] = req[q] /\ Past(req[q]) /\ req[q].about # s
          BY <2>1, <3>4, <4>2 DEF Others
        <5>2. \A y \in redeemed' : y.secret # req'[q].about
          BY <1>5, <5>1 DEF IInv, SecretInv, PastAlone
        <5>3. ASSUME NEW p \in Slots, Past(req'[p]), req'[p].about = req'[q].about
              PROVE  p = q
          <6>1. p # r
            BY <2>2, <5>1, <5>3
          <6>2. req'[p] = req[p]
            BY <2>1, <6>1 DEF Others
          <6> QED BY <5>1, <5>3, <6>2 DEF IInv, SecretInv, PastAlone
        <5> QED BY <5>2, <5>3
      <4> QED BY <4>1, <4>2
    <3> QED BY <3>1, <3>2, <3>5 DEF SecretInv
  <2>7. LockInv'
    BY <1>5, <1>8, <2>1, <2>2, LockSlot DEF Inserting
  <2>8. DesktopTypeOK'
    BY <1>9, <2>1, DesktopTypeStep DEF IInv
  <2>9. redeemed' \subseteq [secret: States \cup Codes, product: Sessions \cup Devices,
                            late: BOOLEAN]
    BY <1>5 DEF IInv, Types
  <2> QED BY <1>5, <1>6, <1>7, <2>1, <2>2, <2>3, <2>5, <2>6, <2>7, <2>8, <2>9, SlotStep
<1> QED BY <1>10, <1>11 DEF login, consumeLoginState

LEMMA IssueSessionNext ==
  ASSUME IInv, NEW r \in Slots, NEW x \in Sessions, issueSession(r, x), UNCHANGED desktopVars
  PROVE  IInv'
<1> DEFINE s == req[r].about
           y0 == [secret |-> s, product |-> x, late |-> req[r].late]
<1>1. /\ req[r] \in Request /\ Good(req[r], states, codes, devices, dead)
      /\ req[r].op = "login" /\ req[r].step = "session" /\ respond(r, "ok")
  BY DEF IInv, Types, Requests, issueSession, At
<1>2. s \in States /\ ~req[r].late /\ states[s] = "gone" /\ req[r].user \in Users
  BY <1>1 DEF Good, GoodLogin
<1>3. redeemed' = redeemed \cup {y0}
  BY DEF issueSession, Yields
<1>4. sessions' = [sessions EXCEPT ![x] = [user |-> req[r].user, status |-> "live"]]
  BY DEF issueSession
<1>5. UNCHANGED <<users, members, claimed, states, codes, lock, devices, runs, arrived, dead>>
  BY DEF issueSession
<1>6. sessions \in [Sessions -> Session] /\ sessions[x] = NoSession
  BY DEF IInv, Types, DesktopTypeOK, TypeOK, issueSession, unusedSessions
<1>7. /\ Others(r) /\ Good(req'[r], states, codes, devices, dead)
      /\ ~Past(req'[r]) /\ ~Inserting(req'[r]) /\ (req'[r].own => launch = "up")
  BY <1>1, Respond DEF Answers
<1>8. Later
  BY <1>5, Standing
<1>9. World'
  <2>1. x \notin dead
    BY <1>6 DEF IInv, World, SessionsShow, RowsShow, NoSession
  <2>2. SessionsShow'
    <3> SUFFICES ASSUME NEW z \in Sessions
                 PROVE  /\ z \in dead' => sessions'[z].status = "gone"
                        /\ sessions'[z].status = "live" => sessions'[z].user \in Users
      BY DEF SessionsShow
    <3>1. CASE z = x
      BY <1>2, <1>4, <1>5, <1>6, <2>1, <3>1
    <3>2. CASE z # x
      BY <1>4, <1>5, <1>6, <3>2 DEF IInv, World, SessionsShow
    <3> QED BY <3>1, <3>2
  <2>3. RowsShow'
    BY <1>5 DEF IInv, World, RowsShow
  <2> QED BY <2>2, <2>3 DEF World
<1>10. SecretInv'
  <2>1. \A y \in redeemed : y.secret # s
    BY <1>1 DEF IInv, SecretInv, PastAlone, Past
  <2>2. RedeemedOnce'
    BY <1>2, <1>3, <2>1 DEF IInv, SecretInv, RedeemedOnce
  <2>3. SecretsSpent'
    BY <1>2, <1>3, <1>5, AccessAssumption DEF IInv, SecretInv, SecretsSpent
  <2>4. \A q \in Slots : Past(req'[q]) =>
            req'[q] = req[q] /\ Past(req[q]) /\ req[q].about # s
    <3> SUFFICES ASSUME NEW q \in Slots, Past(req'[q])
                 PROVE  req'[q] = req[q] /\ Past(req[q]) /\ req[q].about # s
      OBVIOUS
    <3>1. q # r /\ req'[q] = req[q]
      BY <1>7 DEF Others
    <3>2. Past(req[r])
      BY <1>1 DEF Past
    <3> QED BY <3>1, <3>2 DEF IInv, SecretInv, PastAlone
  <2>5. PastAlone'
    BY <1>3, <2>4 DEF IInv, SecretInv, PastAlone
  <2> QED BY <2>2, <2>3, <2>5 DEF SecretInv
<1>11. LockInv'
  <2>1. \A u \in Users : liveCodes(u)' \subseteq liveCodes(u)
    BY <1>5 DEF liveCodes, live
  <2> QED BY <1>5, <1>7, <2>1, LockSlot
<1>12. DesktopTypeOK'
  <2>1. sessions' \in [Sessions -> Session]
    BY <1>2, <1>4, <1>6 DEF Session
  <2>2. TypeOK'
    BY <1>5, <1>7, <2>1, OpsStep DEF IInv, Types, DesktopTypeOK, TypeOK
  <2> QED BY <2>2, DesktopTypeStep DEF IInv
<1>13. redeemed' \subseteq [secret: States \cup Codes, product: Sessions \cup Devices,
                          late: BOOLEAN]
  <2>1. y0 \in [secret: States \cup Codes, product: Sessions \cup Devices, late: BOOLEAN]
    BY <1>1, <1>2 DEF Request
  <2> QED BY <1>3, <2>1 DEF IInv, Types
<1> QED BY <1>5, <1>7, <1>8, <1>9, <1>10, <1>11, <1>12, <1>13, SlotStep

LEMMA LogoutNext ==
  ASSUME IInv, NEW r \in Slots, revokeRequestSession(r), UNCHANGED desktopVars
  PROVE  IInv'
<1>1. /\ req[r].op = "logout" /\ respond(r, "ok")
      /\ UNCHANGED <<users, members, claimed, states, codes, lock, devices, runs, arrived,
                     redeemed>>
      /\ dead' = dead \cup ({req[r].cred} \cap Sessions)
  BY DEF revokeRequestSession, At
<1>2. \A x \in Sessions : sessions'[x] = IF x = req[r].cred
                                         THEN [sessions[x] EXCEPT !.status = "gone"]
                                         ELSE sessions[x]
  BY DEF revokeRequestSession
<1>3. sessions' \in [Sessions -> Session]
  <2>1. sessions \in [Sessions -> Session]
    BY DEF IInv, Types, DesktopTypeOK, TypeOK
  <2>2. \A x \in Sessions : [sessions[x] EXCEPT !.status = "gone"] \in Session
    BY <2>1 DEF Session
  <2> QED BY <2>1, <2>2 DEF revokeRequestSession
<1>4. Later
  BY <1>1 DEF Later, Onward
<1>5. World'
  <2>1. \A x \in Sessions : /\ x \in dead' => sessions'[x].status = "gone"
                            /\ sessions'[x].status = "live" => sessions'[x].user \in Users
    <3> SUFFICES ASSUME NEW x \in Sessions
                 PROVE  /\ x \in dead' => sessions'[x].status = "gone"
                        /\ sessions'[x].status = "live" => sessions'[x].user \in Users
      OBVIOUS
    <3>1. sessions[x] \in Session
      BY DEF IInv, Types, DesktopTypeOK, TypeOK
    <3>2. CASE x = req[r].cred
      BY <1>2, <3>1, <3>2 DEF Session
    <3>3. CASE x # req[r].cred
      BY <1>1, <1>2, <3>3 DEF IInv, World, SessionsShow, RowsShow
    <3> QED BY <3>2, <3>3
  <2>2. \A d \in Devices : d \in dead' => d \in dead
    BY <1>1, AccessAssumption
  <2> QED BY <1>1, <2>1, <2>2 DEF IInv, World, SessionsShow, RowsShow
<1>6. Others(r) /\ "ok" \in Answers
  BY <1>1, Respond DEF Answers
<1>7. TypeOK'
  BY <1>1, <1>3, <1>6, OpsStep DEF IInv, Types, DesktopTypeOK, TypeOK
<1>8. \A u \in Users : liveCodes(u)' \subseteq liveCodes(u)
  BY <1>1 DEF liveCodes, live
<1> QED BY <1>1, <1>4, <1>5, <1>6, <1>7, <1>8, TakeRespond

LEMMA SessionExpiredNext ==
  ASSUME IInv, NEW r \in Slots, sessionExpired(r), UNCHANGED desktopVars
  PROVE  IInv'
<1> DEFINE x == req[r].cred
<1>1. /\ req[r].step = "authenticate" /\ x \in Sessions /\ respond(r, "unauthorized")
      /\ UNCHANGED <<users, members, claimed, states, codes, lock, devices, runs, arrived,
                     redeemed>>
      /\ dead' = dead \cup {x}
      /\ sessions' = [sessions EXCEPT ![x].status = "gone"]
  BY DEF sessionExpired
<1>2. sessions \in [Sessions -> Session]
  BY DEF IInv, Types, DesktopTypeOK, TypeOK
<1>3. \A z \in Sessions : IF z = x THEN sessions'[z].status = "gone"
                                   ELSE sessions'[z] = sessions[z]
  BY <1>1, <1>2 DEF Session
<1>4. Later
  BY <1>1 DEF Later, Onward
<1>5. World'
  <2>1. \A z \in Sessions : /\ z \in dead' => sessions'[z].status = "gone"
                            /\ sessions'[z].status = "live" => sessions'[z].user \in Users
    BY <1>1, <1>3 DEF IInv, World, SessionsShow, RowsShow
  <2>2. \A d \in Devices : d \in dead' => d \in dead
    BY <1>1, AccessAssumption
  <2> QED BY <1>1, <2>1, <2>2 DEF IInv, World, SessionsShow, RowsShow
<1>6. Good(req[r], states, codes, devices, dead)
  BY DEF IInv, Requests
<1>7. req[r].op # "exchange" /\ "unauthorized" \in Answers
  BY <1>1, <1>6 DEF Good, GoodAsk, Authenticated, Answers
<1>8. Others(r)
  BY <1>1, <1>7, Respond
<1>9. TypeOK'
  <2>1. sessions' \in [Sessions -> Session]
    BY <1>1, <1>2 DEF Session
  <2> QED BY <1>1, <1>8, <2>1, OpsStep DEF IInv, Types, DesktopTypeOK, TypeOK
<1>10. \A u \in Users : liveCodes(u)' \subseteq liveCodes(u)
  BY <1>1 DEF liveCodes, live
<1> QED BY <1>1, <1>4, <1>5, <1>7, <1>9, <1>10, TakeRespond

-----------------------------------------------------------------------------
(* Codes.                                                                   *)

LEMMA ReserveNext ==
  ASSUME IInv, NEW r \in Slots, reserveCodeSlot(r), UNCHANGED desktopVars
  PROVE  IInv'
<1>1. /\ req[r] \in Request /\ Good(req[r], states, codes, devices, dead)
      /\ req[r].op = "createCode" /\ req[r].step = "routed"
  BY DEF IInv, Types, Requests, reserveCodeSlot, count, At
<1>2. PICK u \in Users : u = req[r].user
  BY <1>1 DEF Good, GoodAsk, Authenticated
<1>3. UNCHANGED <<users, members, claimed, states, sessions, codes, devices, runs, arrived,
                  dead, redeemed>>
  BY DEF reserveCodeSlot
<1>4. CASE respond(r, "refused") /\ lock' = lock
  BY <1>1, <1>3, <1>4, LookRespond DEF tables, Answers
<1>5. CASE /\ goto(r, "insert") /\ lock' = [lock EXCEPT ![u] = r]
           /\ ~(Cardinality(liveCodes(u)) >= MaxLiveCodes) /\ lock[u] = NoOne
  <2>1. /\ Others(r) /\ req'[r] \in Request
        /\ req'[r] = [req[r] EXCEPT !.step = "insert"]
    BY <1>5, Goto DEF IInv, Steps
  <2>2. /\ req'[r].op = "createCode" /\ req'[r].step = "insert" /\ req'[r].about = req[r].about
        /\ req'[r].cred = req[r].cred /\ req'[r].late = req[r].late /\ req'[r].user = u
        /\ req'[r].own = req[r].own
    BY <1>1, <1>2, <2>1 DEF Request
  <2>3. Good(req'[r], states, codes, devices, dead)
    BY <1>1, <2>2 DEF Good, GoodLogin, GoodExchange, GoodAsk, GoodLate, Authenticated
  <2>4. Later /\ World'
    BY <1>3, Standing, WorldStep DEF IInv
  <2>5. SecretInv'
    BY <1>3, <2>1, <2>2, <2>4, SecretSlot DEF Past
  <2>6. lock \in [Users -> Slots \cup {NoOne}]
    BY DEF IInv, Types, DesktopTypeOK, TypeOK
  <2>7. \A v \in Users : liveCodes(v)' = liveCodes(v)
    BY <1>3 DEF liveCodes, live
  <2>8. LockInv'
    <3>1. LiveCodesBounded'
      BY <2>7 DEF IInv, LockInv, LiveCodesBounded
    <3>2. ASSUME NEW s \in Slots, Inserting(req[s])'
          PROVE  (/\ lock[req[s].user] = s
                  /\ Cardinality(liveCodes(req[s].user)) < MaxLiveCodes)'
      <4>1. CASE s = r
        <5>1. Cardinality(liveCodes(u)) \in Nat /\ MaxLiveCodes \in Nat
          BY LiveCodesType, AccessAssumption DEF IInv
        <5>2. Cardinality(liveCodes(u)') < MaxLiveCodes
          BY <1>2, <1>5, <2>7, <5>1
        <5> QED BY <1>2, <1>5, <2>2, <2>6, <4>1, <5>2
      <4>2. CASE s # r
        <5>1. req'[s] = req[s]
          BY <2>1, <4>2 DEF Others
        <5>2. PICK v \in Users : v = req[s].user
          BY <3>2, <5>1 DEF Inserting, IInv, Requests, Good, GoodAsk, Authenticated
        <5>3. lock[v] = s /\ Cardinality(liveCodes(v)) < MaxLiveCodes
          BY <3>2, <5>1, <5>2 DEF IInv, LockInv
        <5>4. v # u
          BY <1>5, <5>3, AccessAssumption
        <5> QED BY <1>2, <1>5, <2>6, <2>7, <5>1, <5>2, <5>3, <5>4
      <4> QED BY <4>1, <4>2
    <3> QED BY <3>1, <3>2 DEF LockInv
  <2>9. DesktopTypeOK'
    <3>1. lock' \in [Users -> Slots \cup {NoOne}]
      BY <1>5, <2>6
    <3>2. TypeOK'
      BY <1>3, <2>1, <3>1, OpsStep DEF IInv, Types, DesktopTypeOK, TypeOK
    <3> QED BY <3>2, DesktopTypeStep DEF IInv
  <2>10. redeemed' \subseteq [secret: States \cup Codes, product: Sessions \cup Devices,
                             late: BOOLEAN]
    BY <1>3 DEF IInv, Types
  <2>11. req'[r].own => launch = "up"
    BY <2>2 DEF IInv, FileInv
  <2> QED BY <1>3, <2>1, <2>3, <2>4, <2>5, <2>8, <2>9, <2>10, <2>11, SlotStep
<1> QED BY <1>2, <1>4, <1>5 DEF reserveCodeSlot, count

LEMMA InsertCodeNext ==
  ASSUME IInv, NEW r \in Slots, NEW c \in Codes, insertCode(r, c), UNCHANGED desktopVars
  PROVE  IInv'
<1>1. /\ req[r] \in Request /\ Good(req[r], states, codes, devices, dead)
      /\ Inserting(req[r]) /\ respond(r, "ok")
  BY DEF IInv, Types, Requests, insertCode, At, Inserting
<1>2. PICK u \in Users : u = req[r].user /\ req[r].about \in Projects
  BY <1>1 DEF Good, GoodAsk, Authenticated, Inserting
<1> DEFINE row == [NoCode EXCEPT !.user = u, !.project = req[r].about]
<1>3. /\ UNCHANGED <<users, members, claimed, states, sessions, devices, runs, arrived, dead,
                     redeemed>>
      /\ codes' = [codes EXCEPT ![c] = row] /\ lock' = [lock EXCEPT ![u] = NoOne]
      /\ codes[c] = NoCode
  BY <1>2 DEF insertCode, unusedCodes
<1>4. codes \in [Codes -> Code] /\ lock \in [Users -> Slots \cup {NoOne}]
  BY DEF IInv, Types, DesktopTypeOK, TypeOK
<1>5. /\ row \in Code /\ row.user = u /\ row.user # NoOne
      /\ codes[c].user = NoOne /\ ~codes[c].consumed
  <2>1. NoCode \in Code
    BY DEF NoCode, Code
  <2>2. row \in Code
    BY <1>2, <2>1 DEF Code
  <2>3. row.user = u /\ u # NoOne
    BY <2>1, AccessAssumption DEF Code
  <2> QED BY <1>3, <2>2, <2>3 DEF NoCode
<1>6. \A e \in Codes : codes'[e] = IF e = c THEN row ELSE codes[e]
  BY <1>3, <1>4
<1>7. /\ Others(r) /\ Good(req'[r], states, codes, devices, dead)
      /\ ~Past(req'[r]) /\ ~Inserting(req'[r]) /\ (req'[r].own => launch = "up")
  BY <1>1, Respond DEF Answers, Inserting
<1>8. Later
  BY <1>3, <1>5, <1>6 DEF Later, Onward
<1>9. Good(req'[r], states', codes', devices', dead')
  BY <1>7, <1>8, GoodOnward DEF Later, Others
<1>10. World'
  BY <1>3, <1>5, <1>6 DEF IInv, World, SessionsShow, RowsShow
<1>11. SecretInv'
  BY <1>3, <1>7, <1>8, SecretSlot
<1>12. LockInv'
  <2>1. ASSUME NEW v \in Users PROVE liveCodes(v)' \subseteq liveCodes(v) \cup
                                                (IF v = u THEN {c} ELSE {})
    BY <1>5, <1>6 DEF liveCodes, live
  <2>2. \A v \in Users : v # u => liveCodes(v)' \subseteq liveCodes(v)
    BY <2>1
  <2>3. \A v \in Users : v # u => Cardinality(liveCodes(v)') <= Cardinality(liveCodes(v))
    BY <2>2, LiveCodesType, FS_Subset DEF IInv
  <2>4. lock[u] = r /\ Cardinality(liveCodes(u)) < MaxLiveCodes
    BY <1>1, <1>2 DEF IInv, LockInv
  <2>5. \A v \in Users : IsFiniteSet(liveCodes(v)) /\ Cardinality(liveCodes(v)) \in Nat
    BY LiveCodesType DEF IInv
  <2>6. \A v \in Users : IsFiniteSet(liveCodes(v)') /\ Cardinality(liveCodes(v)') \in Nat
    <3> SUFFICES ASSUME NEW v \in Users
                 PROVE IsFiniteSet(liveCodes(v)') /\ Cardinality(liveCodes(v)') \in Nat
      OBVIOUS
    <3>1. liveCodes(v)' \subseteq Codes
      BY DEF liveCodes
    <3> QED BY <3>1, AccessAssumption, FS_Subset, FS_CardinalityType
  <2>7. Cardinality(liveCodes(u)') <= MaxLiveCodes
    <3>1. liveCodes(u)' \subseteq liveCodes(u) \cup {c}
      BY <1>2, <2>1
    <3>2. /\ IsFiniteSet(liveCodes(u) \cup {c})
          /\ Cardinality(liveCodes(u) \cup {c}) <= Cardinality(liveCodes(u)) + 1
      BY <1>2, <2>5, FS_AddElement
    <3>3. /\ Cardinality(liveCodes(u)') <= Cardinality(liveCodes(u) \cup {c})
          /\ Cardinality(liveCodes(u) \cup {c}) \in Nat
      BY <3>1, <3>2, FS_Subset, FS_CardinalityType
    <3> QED BY <1>2, <2>4, <2>5, <2>6, <3>2, <3>3, AccessAssumption
  <2>8. LiveCodesBounded'
    <3> SUFFICES ASSUME NEW v \in Users PROVE Cardinality(liveCodes(v)') <= MaxLiveCodes
      BY DEF LiveCodesBounded
    <3>1. CASE v = u
      BY <2>7, <3>1
    <3>2. CASE v # u
      <4>1. Cardinality(liveCodes(v)) <= MaxLiveCodes
        BY DEF IInv, LockInv, LiveCodesBounded
      <4> QED BY <2>3, <2>5, <2>6, <3>2, <4>1, AccessAssumption
    <3> QED BY <3>1, <3>2
  <2>9. ASSUME NEW s \in Slots, Inserting(req[s])'
        PROVE  (/\ lock[req[s].user] = s
                /\ Cardinality(liveCodes(req[s].user)) < MaxLiveCodes)'
    <3>1. s # r /\ req'[s] = req[s] /\ Inserting(req[s])
      BY <1>7, <2>9 DEF Others
    <3>2. PICK v \in Users : v = req[s].user
      BY <3>1 DEF Inserting, IInv, Requests, Good, GoodAsk, Authenticated
    <3>3. lock[v] = s /\ Cardinality(liveCodes(v)) < MaxLiveCodes
      BY <3>1, <3>2 DEF IInv, LockInv
    <3>4. v # u
      BY <2>4, <3>1, <3>3
    <3>5. lock'[v] = s
      BY <1>3, <1>4, <3>3, <3>4
    <3>6. Cardinality(liveCodes(v)') < MaxLiveCodes
      BY <2>3, <2>5, <2>6, <3>3, <3>4, AccessAssumption
    <3> QED BY <3>1, <3>2, <3>5, <3>6
  <2> QED BY <2>8, <2>9 DEF LockInv
<1>13. DesktopTypeOK'
  <2>1. codes' \in [Codes -> Code] /\ lock' \in [Users -> Slots \cup {NoOne}]
    BY <1>3, <1>4, <1>5
  <2>2. TypeOK'
    BY <1>3, <1>7, <2>1, OpsStep DEF IInv, Types, DesktopTypeOK, TypeOK
  <2> QED BY <2>2, DesktopTypeStep DEF IInv
<1>14. redeemed' \subseteq [secret: States \cup Codes, product: Sessions \cup Devices,
                           late: BOOLEAN]
  BY <1>3 DEF IInv, Types
<1> QED BY <1>3, <1>7, <1>8, <1>9, <1>10, <1>11, <1>12, <1>13, <1>14, SlotStep

LEMMA ConsumeNext ==
  ASSUME IInv, NEW r \in Slots, markCodeConsumed(r), UNCHANGED desktopVars
  PROVE  IInv'
<1> DEFINE c == req[r].about
<1>1. /\ req[r] \in Request /\ Good(req[r], states, codes, devices, dead)
      /\ req[r].op = "exchange" /\ req[r].step = "consume" /\ goto(r, "insert")
  BY DEF IInv, Types, Requests, markCodeConsumed, At, consume
<1>2. c \in Codes /\ codes[c].user # NoOne /\ ~req[r].late /\ req[r].cred = NoOne
  BY <1>1 DEF Good, GoodExchange
<1>3. /\ UNCHANGED <<users, members, claimed, states, sessions, lock, devices, runs, arrived,
                     dead, redeemed>>
      /\ codes' = [codes EXCEPT ![c].consumed = TRUE]
  BY DEF markCodeConsumed, consume
<1>4. codes \in [Codes -> Code]
  BY DEF IInv, Types, DesktopTypeOK, TypeOK
<1>5. \A e \in Codes : /\ codes'[e].user = codes[e].user
                       /\ codes[e].consumed => codes'[e].consumed
                       /\ e # c => codes'[e] = codes[e]
                       /\ codes'[e].expired = codes[e].expired
                       /\ codes'[e] \in Code
  BY <1>3, <1>4 DEF Code
<1>6. codes'[c].consumed
  BY <1>2, <1>3, <1>4 DEF Code
<1>7. /\ Others(r) /\ req'[r] \in Request
      /\ req'[r] = [req[r] EXCEPT !.step = "insert"]
  BY <1>1, Goto DEF IInv, Steps
<1>8. /\ req'[r].op = "exchange" /\ req'[r].step = "insert" /\ req'[r].about = c
      /\ req'[r].cred = NoOne /\ ~req'[r].late /\ req'[r].own = req[r].own
  BY <1>1, <1>2, <1>7 DEF Request
<1>9. Later
  BY <1>3, <1>5 DEF Later, Onward
<1>10. Good(req'[r], states', codes', devices', dead')
  BY <1>2, <1>5, <1>6, <1>8, AccessAssumption
     DEF Good, GoodLogin, GoodExchange, GoodAsk, GoodLate, Authenticated
<1>11. World'
  BY <1>2, <1>3, <1>5 DEF IInv, World, SessionsShow, RowsShow
<1>12. SecretInv'
  BY <1>3, <1>7, <1>8, <1>9, SecretSlot DEF Past
<1>13. LockInv'
  <2>1. \A u \in Users : liveCodes(u)' \subseteq liveCodes(u)
    BY <1>5 DEF liveCodes, live
  <2> QED BY <1>3, <1>7, <1>8, <2>1, LockSlot DEF Inserting
<1>14. DesktopTypeOK'
  <2>1. codes' \in [Codes -> Code]
    BY <1>3, <1>4, <1>5
  <2>2. TypeOK'
    BY <1>3, <1>7, <2>1, OpsStep DEF IInv, Types, DesktopTypeOK, TypeOK
  <2> QED BY <2>2, DesktopTypeStep DEF IInv
<1>15. redeemed' \subseteq [secret: States \cup Codes, product: Sessions \cup Devices,
                           late: BOOLEAN]
  BY <1>3 DEF IInv, Types
<1>16. req'[r].own => launch = "up"
  BY <1>8 DEF IInv, FileInv
<1> QED BY <1>3, <1>7, <1>9, <1>10, <1>11, <1>12, <1>13, <1>14, <1>15, <1>16, SlotStep

-----------------------------------------------------------------------------
(* Devices.                                                                 *)

(* The code is redeemed for a row nobody has; it was consumed before.       *)
LEMMA InsertDeviceNext ==
  ASSUME IInv, NEW r \in Slots, NEW d \in Devices, insertDevice(r, d), UNCHANGED desktopVars
  PROVE  IInv'
<1> DEFINE c == req[r].about
           y0 == [secret |-> c, product |-> d, late |-> req[r].late]
           row == [NoDevice EXCEPT !.user = codes[c].user, !.project = codes[c].project]
           q == [req[r] EXCEPT !.step = "done", !.answer = "ok", !.about = d]
<1>1. /\ req[r] \in Request /\ req \in [Slots -> Request]
      /\ Good(req[r], states, codes, devices, dead)
      /\ req[r].op = "exchange" /\ req[r].step = "insert"
  BY DEF IInv, Types, Requests, insertDevice, At
<1>2. /\ c \in Codes /\ codes[c].user # NoOne /\ codes[c].consumed
      /\ ~req[r].late /\ req[r].cred = NoOne
  BY <1>1 DEF Good, GoodExchange
<1>3. /\ UNCHANGED <<users, members, claimed, states, sessions, codes, lock, runs, arrived, dead>>
      /\ devices' = [devices EXCEPT ![d] = row] /\ devices[d] = NoDevice
      /\ redeemed' = redeemed \cup {y0}
      /\ req' = [req EXCEPT ![r] = IF req[r].own THEN q ELSE Idle]
  BY DEF insertDevice, unusedDevices, Yields
<1>4. devices \in [Devices -> Device] /\ codes \in [Codes -> Code]
  BY DEF IInv, Types, DesktopTypeOK, TypeOK
<1>5. row \in Device /\ row.user # NoOne /\ devices[d].user = NoOne
  <2>1. NoDevice \in Device
    BY DEF NoDevice, Device
  <2>2. codes[c].user \in Users \cup {NoOne} /\ codes[c].project \in Projects \cup {NoOne}
    BY <1>2, <1>4 DEF Code
  <2>3. row \in Device /\ row.user = codes[c].user
    BY <2>1, <2>2 DEF Device
  <2> QED BY <1>2, <1>3, <2>3 DEF NoDevice
<1>6. \A e \in Devices : devices'[e] = IF e = d THEN row ELSE devices[e]
  BY <1>3, <1>4
<1>7. Later
  BY <1>3, <1>5, <1>6 DEF Later, Onward
<1>8. /\ Others(r) /\ Good(req'[r], states', codes', devices', dead')
      /\ ~Past(req'[r]) /\ ~Inserting(req'[r]) /\ (req'[r].own => launch = "up")
  <2>1. CASE req[r].own
    <3>1. /\ q \in Request /\ q.op = "exchange" /\ q.step = "done" /\ q.about = d
          /\ q.cred = NoOne /\ q.own /\ q.answer = "ok" /\ ~q.late
      BY <1>1, <1>2, <2>1 DEF Request, Steps, Answers, Abouts
    <3>2. Others(r) /\ req'[r] = q
      BY <1>1, <1>3, <2>1, <3>1 DEF Others
    <3>3. Good(q, states', codes', devices', dead')
      BY <1>5, <1>6, <3>1, AccessAssumption
         DEF Good, GoodLogin, GoodExchange, GoodAsk, GoodLate, Authenticated
    <3>4. launch = "up"
      BY <2>1 DEF IInv, FileInv
    <3> HIDE DEF q
    <3> QED BY <3>1, <3>2, <3>3, <3>4 DEF Past, Inserting
  <2>2. CASE ~req[r].own
    <3>1. Others(r) /\ req'[r] = Idle
      BY <1>1, <1>3, <2>2, IdleIsGood DEF Others
    <3>2. Good(Idle, states', codes', devices', dead')
      BY <1>7, IdleIsGood, GoodOnward DEF Later
    <3>3. ~Idle.own /\ Idle.op = "none"
      BY DEF Idle
    <3> QED BY <3>1, <3>2, <3>3 DEF Past, Inserting
  <2> QED BY <2>1, <2>2
<1>9. World'
  <2>1. SessionsShow'
    BY <1>3 DEF IInv, World, SessionsShow
  <2>2. RowsShow'
    <3>1. d \notin dead
      BY <1>3 DEF IInv, World, RowsShow, NoDevice
    <3> QED BY <1>3, <1>5, <1>6, <3>1 DEF IInv, World, RowsShow
  <2> QED BY <2>1, <2>2 DEF World
<1>10. SecretInv'
  <2>1. RedeemedOnce'
    <3>1. c \notin States
      BY <1>2, AccessAssumption
    <3> QED BY <1>2, <1>3, <3>1 DEF IInv, SecretInv, RedeemedOnce
  <2>2. SecretsSpent'
    BY <1>2, <1>3, AccessAssumption DEF IInv, SecretInv, SecretsSpent
  <2>3. \A s \in Slots : Past(req'[s]) => req'[s] = req[s] /\ Past(req[s]) /\ req[s].about # c
    <3> SUFFICES ASSUME NEW s \in Slots, Past(req'[s])
                 PROVE  req'[s] = req[s] /\ Past(req[s]) /\ req[s].about # c
      OBVIOUS
    <3>1. s # r /\ req'[s] = req[s]
      BY <1>8 DEF Others
    <3>2. req[s].about \in States
      BY <3>1 DEF IInv, Requests, Good, GoodLogin, Past
    <3> QED BY <1>2, <3>1, <3>2, AccessAssumption
  <2>4. PastAlone'
    BY <1>3, <2>3 DEF IInv, SecretInv, PastAlone
  <2> QED BY <2>1, <2>2, <2>4 DEF SecretInv
<1>11. LockInv'
  <2>1. \A u \in Users : liveCodes(u)' \subseteq liveCodes(u)
    BY <1>3 DEF liveCodes, live
  <2> QED BY <1>3, <1>8, <2>1, LockSlot
<1>12. DesktopTypeOK'
  <2>1. devices' \in [Devices -> Device]
    BY <1>3, <1>4, <1>5
  <2>2. TypeOK'
    BY <1>3, <1>8, <2>1, OpsStep DEF IInv, Types, DesktopTypeOK, TypeOK
  <2> QED BY <2>2, DesktopTypeStep DEF IInv
<1>13. redeemed' \subseteq [secret: States \cup Codes, product: Sessions \cup Devices,
                           late: BOOLEAN]
  <2>1. y0 \in [secret: States \cup Codes, product: Sessions \cup Devices, late: BOOLEAN]
    BY <1>1, <1>2 DEF Request
  <2> QED BY <1>3, <2>1 DEF IInv, Types
<1> QED BY <1>3, <1>7, <1>8, <1>9, <1>10, <1>11, <1>12, <1>13, SlotStep

LEMMA RevokeNext ==
  ASSUME IInv, NEW r \in Slots, revokeDevice(r), UNCHANGED desktopVars
  PROVE  IInv'
<1> DEFINE d == req[r].about
<1>1. /\ req[r] \in Request /\ Good(req[r], states, codes, devices, dead)
      /\ req[r].op = "revoke" /\ req[r].step = "routed"
  BY DEF IInv, Types, Requests, revokeDevice, At
<1>2. d \in Devices /\ devices[d].user # NoOne
  BY <1>1 DEF Good, GoodAsk
<1>3. UNCHANGED <<users, members, claimed, states, sessions, codes, lock, runs, arrived, redeemed>>
  BY DEF revokeDevice
<1>4. CASE respond(r, "refused") /\ UNCHANGED <<devices, dead>>
  BY <1>1, <1>3, <1>4, LookRespond DEF tables, Answers
<1>5. CASE /\ devices' = [devices EXCEPT ![d].revoked = TRUE]
           /\ dead' = dead \cup {d} /\ respond(r, "ok")
  <2>1. devices \in [Devices -> Device]
    BY DEF IInv, Types, DesktopTypeOK, TypeOK
  <2>2. \A e \in Devices : /\ devices'[e].user = devices[e].user
                           /\ devices'[e].project = devices[e].project
                           /\ e # d => devices'[e] = devices[e]
                           /\ devices'[e] \in Device
    BY <1>5, <2>1 DEF Device
  <2>3. devices'[d].revoked
    BY <1>2, <1>5, <2>1 DEF Device
  <2>4. Later
    BY <1>3, <1>5, <2>2 DEF Later, Onward
  <2>5. World'
    <3>1. d \notin Sessions
      BY <1>2, AccessAssumption
    <3>2. SessionsShow'
      BY <1>3, <1>5, <3>1 DEF IInv, World, SessionsShow
    <3>3. RowsShow'
      BY <1>2, <1>3, <1>5, <2>2, <2>3 DEF IInv, World, RowsShow
    <3> QED BY <3>2, <3>3 DEF World
  <2>6. Others(r) /\ "ok" \in Answers
    BY <1>1, <1>5, Respond DEF Answers
  <2>7. TypeOK'
    <3>1. devices' \in [Devices -> Device]
      BY <1>5, <2>1, <2>2
    <3> QED BY <1>2, <1>3, <1>5, <2>6, <3>1, OpsStep DEF IInv, Types, DesktopTypeOK, TypeOK
  <2>8. \A u \in Users : liveCodes(u)' \subseteq liveCodes(u)
    BY <1>3 DEF liveCodes, live
  <2> QED BY <1>1, <1>3, <1>5, <2>4, <2>5, <2>6, <2>7, <2>8, TakeRespond
<1> QED BY <1>4, <1>5 DEF revokeDevice

(* Nothing a request is at changes.                                         *)
LEMMA StillStep ==
  ASSUME IInv, TypeOK', World', Later, UNCHANGED <<lock, runs, req, redeemed>>,
         UNCHANGED desktopVars, \A u \in Users : liveCodes(u)' \subseteq liveCodes(u)
  PROVE  IInv'
<1>1. Types'
  BY DesktopTypeStep DEF IInv, Types
<1>2. Requests'
  <2> SUFFICES ASSUME NEW s \in Slots PROVE Good(req[s], states', codes', devices', dead')
    BY DEF Requests
  <2>1. req[s] \in Request /\ Good(req[s], states, codes, devices, dead)
    BY DEF IInv, Types, Requests
  <2> QED BY <2>1, GoodOnward DEF Later
<1>3. SecretInv'
  BY SecretStep DEF IInv
<1>4. LockInv'
  <2>1. \A s \in Slots : Inserting(req'[s]) =>
            /\ Inserting(req[s]) /\ req'[s].user = req[s].user /\ req[s].user \in Users
    BY DEF IInv, Requests, Good, GoodAsk, Inserting, Authenticated
  <2> QED BY <2>1, LockStep DEF IInv
<1>5. OwnDeviceOnly'
  BY RunsStep DEF IInv
<1>6. FileInv'
  <2>1. \A s \in Slots : req'[s].own => launch = "up"
    BY DEF IInv, FileInv
  <2> QED BY <2>1, FileStep DEF IInv
<1> QED BY <1>1, <1>2, <1>3, <1>4, <1>5, <1>6 DEF IInv

LEMMA BeginNext ==
  ASSUME IInv, NEW s \in States, begin(s), UNCHANGED desktopVars
  PROVE  IInv'
<1>1. /\ states[s] = "none" /\ states' = [states EXCEPT ![s] = "issued"]
      /\ UNCHANGED <<users, members, claimed, sessions, codes, lock, devices, runs, req,
                     arrived, dead, redeemed>>
  BY DEF begin
<1>2. states \in [States -> {"none", "issued", "gone"}]
  BY DEF IInv, Types, DesktopTypeOK, TypeOK
<1>3. Later
  BY <1>1, <1>2 DEF Later, Onward
<1>4. World'
  BY <1>1, WorldStep DEF IInv
<1>5. TypeOK'
  <2>1. states' \in [States -> {"none", "issued", "gone"}]
    BY <1>1, <1>2
  <2> QED BY <1>1, <2>1 DEF IInv, Types, DesktopTypeOK, TypeOK
<1>6. \A u \in Users : liveCodes(u)' \subseteq liveCodes(u)
  BY <1>1 DEF liveCodes, live
<1> QED BY <1>1, <1>3, <1>4, <1>5, <1>6, StillStep

LEMMA ExpireCodeNext ==
  ASSUME IInv, NEW c \in Codes, expireCode(c), UNCHANGED desktopVars
  PROVE  IInv'
<1>1. /\ codes' = [codes EXCEPT ![c].expired = TRUE] /\ codes[c].user # NoOne
      /\ UNCHANGED <<users, members, claimed, states, sessions, lock, devices, runs, req,
                     arrived, dead, redeemed>>
  BY DEF expireCode, live
<1>2. codes \in [Codes -> Code]
  BY DEF IInv, Types, DesktopTypeOK, TypeOK
<1>3. \A e \in Codes : /\ codes'[e].user = codes[e].user
                       /\ codes'[e].consumed = codes[e].consumed
                       /\ e # c => codes'[e] = codes[e]
                       /\ codes[e].expired => codes'[e].expired
                       /\ codes'[e] \in Code
  BY <1>1, <1>2 DEF Code
<1>4. Later
  BY <1>1, <1>3 DEF Later, Onward
<1>5. World'
  <2>1. SessionsShow'
    BY <1>1 DEF IInv, World, SessionsShow
  <2>2. RowsShow'
    BY <1>1, <1>3 DEF IInv, World, RowsShow
  <2> QED BY <2>1, <2>2 DEF World
<1>6. TypeOK'
  <2>1. codes' \in [Codes -> Code]
    BY <1>1, <1>2, <1>3
  <2> QED BY <1>1, <2>1 DEF IInv, Types, DesktopTypeOK, TypeOK
<1>7. \A u \in Users : liveCodes(u)' \subseteq liveCodes(u)
  BY <1>3 DEF liveCodes, live
<1> QED BY <1>1, <1>4, <1>5, <1>6, <1>7, StillStep

LEMMA ExpireDeviceNext ==
  ASSUME IInv, NEW d \in Devices, expireDevice(d), UNCHANGED desktopVars
  PROVE  IInv'
<1>1. /\ devices' = [devices EXCEPT ![d].expired = TRUE] /\ dead' = dead \cup {d}
      /\ devices[d] # NoDevice
      /\ UNCHANGED <<users, members, claimed, states, sessions, codes, lock, runs, req,
                     arrived, redeemed>>
  BY DEF expireDevice, unusedDevices
<1>2. devices \in [Devices -> Device]
  BY DEF IInv, Types, DesktopTypeOK, TypeOK
<1>3. \A e \in Devices : /\ devices'[e].user = devices[e].user
                         /\ devices'[e].project = devices[e].project
                         /\ devices'[e].revoked = devices[e].revoked
                         /\ e # d => devices'[e] = devices[e]
                         /\ devices'[e] \in Device
  BY <1>1, <1>2 DEF Device
<1>4. devices'[d].expired /\ devices[d].user # NoOne
  BY <1>1, <1>2 DEF Device, IInv, World, RowsShow
<1>5. Later
  BY <1>1, <1>3 DEF Later, Onward
<1>6. World'
  <2>1. SessionsShow'
    BY <1>1, AccessAssumption DEF IInv, World, SessionsShow
  <2>2. RowsShow'
    BY <1>1, <1>3, <1>4 DEF IInv, World, RowsShow
  <2> QED BY <2>1, <2>2 DEF World
<1>7. TypeOK'
  <2>1. devices' \in [Devices -> Device]
    BY <1>1, <1>2, <1>3
  <2> QED BY <1>1, <2>1 DEF IInv, Types, DesktopTypeOK, TypeOK
<1>8. \A u \in Users : liveCodes(u)' \subseteq liveCodes(u)
  BY <1>1 DEF liveCodes, live
<1> QED BY <1>1, <1>5, <1>6, <1>7, <1>8, StillStep

-----------------------------------------------------------------------------
(* Requests that end, and those that come.                                  *)

Disowned(s) == atServer(s) /\ req'[s] = [req[s] EXCEPT !.own = FALSE]

(* A process that goes leaves no request worse informed.                    *)
LEMMA Ended ==
  ASSUME IInv, req' \in [Slots -> Request],
         UNCHANGED <<states, sessions, codes, devices, dead, redeemed, runs>>,
         \A s \in Slots : req'[s] = req[s] \/ req'[s] = Idle \/ Disowned(s)
  PROVE  /\ Later /\ World' /\ Requests' /\ SecretInv' /\ OwnDeviceOnly'
         /\ \A s \in Slots : Inserting(req'[s]) =>
              /\ Inserting(req[s]) /\ req'[s].user = req[s].user /\ req[s].user \in Users
<1>1. Later /\ World'
  BY Standing, WorldStep DEF IInv
<1>2. ASSUME NEW s \in Slots
      PROVE  /\ Good(req'[s], states, codes, devices, dead)
             /\ Past(req'[s]) => Past(req[s]) /\ req'[s].about = req[s].about
             /\ Inserting(req'[s]) =>
                  /\ Inserting(req[s]) /\ req'[s].user = req[s].user /\ req[s].user \in Users
  <2>1. req[s] \in Request /\ Good(req[s], states, codes, devices, dead)
    BY DEF IInv, Types, Requests
  <2>2. Inserting(req[s]) => req[s].user \in Users
    BY <2>1 DEF Good, GoodAsk, Authenticated, Inserting
  <2>3. CASE req'[s] = req[s]
    BY <2>1, <2>2, <2>3
  <2>4. CASE req'[s] = Idle
    <3>1. Idle.op = "none"
      BY DEF Idle
    <3> QED BY <2>4, <3>1, IdleIsGood DEF Past, Inserting
  <2>5. CASE Disowned(s)
    <3> DEFINE q == req'[s]
    <3>1. /\ q.op = req[s].op /\ q.step = req[s].step /\ q.about = req[s].about
          /\ q.cred = req[s].cred /\ q.late = req[s].late /\ ~q.own
          /\ q.user = req[s].user /\ q.answer = req[s].answer
      BY <2>1, <2>5 DEF Request, Disowned
    <3>2. q.step \notin {"done", "save", "clear"}
      BY <2>5, <3>1 DEF Disowned, atServer
    <3> HIDE DEF q
    <3>3. Good(q, states, codes, devices, dead)
      BY <2>1, <3>1, <3>2 DEF Good, GoodLogin, GoodExchange, GoodAsk, GoodLate, Authenticated
    <3> QED BY <2>2, <3>1, <3>3 DEF Past, Inserting, q
  <2> QED BY <2>3, <2>4, <2>5
<1>3. Requests'
  BY <1>2 DEF Requests
<1>4. SecretInv'
  BY <1>1, <1>2, SecretStep DEF IInv
<1>5. OwnDeviceOnly'
  BY <1>1, RunsStep DEF IInv
<1> QED BY <1>1, <1>2, <1>3, <1>4, <1>5

(* The locks go with the process, and with them who held one.               *)
LEMMA CrashNext ==
  ASSUME IInv, Crash, UNCHANGED desktopVars
  PROVE  IInv'
<1>1. /\ req' = [r \in Slots |-> IF atServer(r) THEN Idle ELSE req[r]]
      /\ lock' = [u \in Users |-> NoOne]
      /\ UNCHANGED <<users, members, claimed, states, sessions, codes, devices, runs, arrived,
                     dead, redeemed>>
  BY DEF Crash
<1>2. req' \in [Slots -> Request]
  BY <1>1, IdleIsGood DEF IInv, Types
<1>3. \A s \in Slots : req'[s] = req[s] \/ req'[s] = Idle
  BY <1>1
<1>4. /\ Later /\ World' /\ Requests' /\ SecretInv' /\ OwnDeviceOnly'
  BY <1>1, <1>2, <1>3, Ended
<1>5. LockInv'
  <2>1. \A s \in Slots : ~Inserting(req'[s])
    BY <1>1 DEF atServer, Inserting, Idle
  <2>2. LiveCodesBounded'
    BY <1>1 DEF IInv, LockInv, LiveCodesBounded, liveCodes, live
  <2> QED BY <2>1, <2>2 DEF LockInv, Inserting
<1>6. TypeOK'
  <2>1. \A s \in Slots : req'[s].op \in Ops /\ req'[s].step \in Steps
    BY <1>2 DEF Request
  <2> QED BY <1>1, <2>1 DEF IInv, Types, DesktopTypeOK, TypeOK
<1>7. Types'
  BY <1>1, <1>2, <1>6, DesktopTypeStep DEF IInv, Types
<1>8. FileInv'
  <2>1. \A s \in Slots : req'[s].own => launch = "up"
    BY <1>3 DEF IInv, FileInv, Idle
  <2> QED BY <1>4, <2>1, FileStep DEF IInv
<1> QED BY <1>4, <1>5, <1>7, <1>8 DEF IInv

(* A request that comes knows nothing yet, but whether it comes too late.   *)
Coming == {"login", "logout", "exchange"} \cup Authenticated

LEMMA ArriveGood ==
  ASSUME IInv, NEW r \in Slots, NEW op \in Coming, NEW step \in Steps,
         NEW cred \in Sessions \cup Devices \cup {NoOne}, NEW about, NEW own \in BOOLEAN,
         Arrive(r, op, step, cred, about, own),
         step = IF op \in Authenticated THEN "authenticate" ELSE "redeem",
         op \in {"login", "exchange"} => cred = NoOne,
         op = "login" => about \in States /\ ~own,
         op = "exchange" => about \in Codes /\ codes[about].user # NoOne,
         op = "logout" => about = NoOne,
         op = "createCode" => about \in Projects,
         op = "revoke" => about \in Devices /\ devices[about].user # NoOne,
         op = "member" => about \in Changes,
         op = "createRun" => /\ about \in RunAsk
                             /\ about.device # NoOne => devices[about.device].user # NoOne,
         cred \in Devices => devices[cred].user # NoOne
  PROVE  /\ Others(r) /\ Good(req'[r], states, codes, devices, dead)
         /\ ~Past(req'[r]) /\ ~Inserting(req'[r]) /\ req'[r].own = own
         /\ TypeOK'
         /\ UNCHANGED <<tables, dead, redeemed>>
<1>1. PICK late \in BOOLEAN :
        late = (\/ cred \in dead
                \/ op \in {"login", "exchange"} /\ \E y \in redeemed : y.secret = about)
  OBVIOUS
<1> DEFINE q == [Idle EXCEPT !.op = op, !.step = step, !.cred = cred, !.about = about,
                             !.own = own, !.late = late]
<1>2. req' = [req EXCEPT ![r] = q] /\ UNCHANGED <<tables, dead, redeemed>>
  BY <1>1 DEF Arrive
<1>3. about \in Abouts /\ op \in Ops
  BY DEF Coming, Authenticated, Ops, Abouts
<1>4. /\ q \in Request /\ q.op = op /\ q.step = step /\ q.cred = cred /\ q.about = about
      /\ q.own = own /\ q.late = late /\ q.user = NoOne /\ q.answer = "none"
  <2>1. Idle.user = NoOne /\ Idle.answer = "none"
    BY DEF Idle
  <2>2. q \in Request
    BY <1>3, IdleIsGood DEF Request
  <2> QED BY <2>1, <2>2, IdleIsGood DEF Request
<1>5. req \in [Slots -> Request]
  BY DEF IInv, Types
<1>6. Others(r) /\ req'[r] = q
  BY <1>2, <1>4, <1>5 DEF Others
<1>7. late /\ op = "login" => states[about] = "gone"
  <2>1. NoOne \notin dead
    BY AccessAssumption DEF IInv, Types, DesktopTypeOK, TypeOK
  <2> QED BY <1>1, <2>1 DEF IInv, SecretInv, SecretsSpent
<1>8. late /\ op = "exchange" => codes[about].consumed
  <2>1. NoOne \notin dead
    BY AccessAssumption DEF IInv, Types, DesktopTypeOK, TypeOK
  <2> QED BY <1>1, <2>1 DEF IInv, SecretInv, SecretsSpent
<1>9. late /\ cred # NoOne => cred \in dead
  <2>1. op \in {"login", "exchange"} => cred = NoOne
    OBVIOUS
  <2> QED BY <1>1, <2>1
<1> HIDE DEF q
<1>10. GoodLogin(q, states)
  BY <1>4, <1>7 DEF GoodLogin, Authenticated
<1>11. GoodExchange(q, codes, devices)
  BY <1>4, <1>8 DEF GoodExchange, Authenticated
<1>12. GoodAsk(q, devices)
  BY <1>4 DEF GoodAsk, Authenticated
<1>13. GoodLate(q, dead)
  BY <1>4, <1>9 DEF GoodLate, Authenticated, Coming
<1>14. ~Past(q) /\ ~Inserting(q)
  BY <1>4 DEF Past, Inserting, Authenticated
<1>15. TypeOK'
  <2>1. arrived' \in [BOOLEAN -> Nat]
    BY DEF Arrive, IInv, Types, DesktopTypeOK, TypeOK
  <2> QED BY <1>2, <1>6, <2>1, OpsStep DEF IInv, Types, DesktopTypeOK, TypeOK, tables
<1> QED BY <1>2, <1>4, <1>6, <1>10, <1>11, <1>12, <1>13, <1>14, <1>15 DEF Good

LEMMA BrowserNext ==
  ASSUME IInv, NEW r \in Slots, BrowserRequest(r), UNCHANGED desktopVars
  PROVE  IInv'
<1> SUFFICES /\ Others(r) /\ Good(req'[r], states, codes, devices, dead)
             /\ ~Past(req'[r]) /\ ~Inserting(req'[r]) /\ ~req'[r].own
             /\ TypeOK' /\ UNCHANGED <<tables, dead, redeemed>>
  <2>1. DesktopTypeOK' => IInv'
    BY Quiet DEF tables
  <2> QED BY <2>1, DesktopTypeStep DEF IInv
<1>1. /\ NoOne \notin Devices
      /\ \A x \in Sessions : x \notin Devices
  BY AccessAssumption
<1>2. ASSUME NEW s \in States, Arrive(r, "login", "redeem", NoOne, s, FALSE)
      PROVE  /\ Others(r) /\ Good(req'[r], states, codes, devices, dead)
             /\ ~Past(req'[r]) /\ ~Inserting(req'[r]) /\ ~req'[r].own
             /\ TypeOK' /\ UNCHANGED <<tables, dead, redeemed>>
  <2>1. "login" \in Coming /\ "redeem" \in Steps /\ "login" \notin Authenticated
    BY DEF Coming, Steps, Authenticated
  <2> QED BY <1>1, <1>2, <2>1, ArriveGood
<1>3. ASSUME NEW x \in Sessions, Arrive(r, "logout", "redeem", x, NoOne, FALSE)
      PROVE  /\ Others(r) /\ Good(req'[r], states, codes, devices, dead)
             /\ ~Past(req'[r]) /\ ~Inserting(req'[r]) /\ ~req'[r].own
             /\ TypeOK' /\ UNCHANGED <<tables, dead, redeemed>>
  <2>1. "logout" \in Coming /\ "redeem" \in Steps /\ "logout" \notin Authenticated
    BY DEF Coming, Steps, Authenticated
  <2> QED BY <1>1, <1>3, <2>1, ArriveGood
<1>4. ASSUME NEW x \in Sessions, NEW change \in Changes,
             Arrive(r, "member", "authenticate", x, change, FALSE)
      PROVE  /\ Others(r) /\ Good(req'[r], states, codes, devices, dead)
             /\ ~Past(req'[r]) /\ ~Inserting(req'[r]) /\ ~req'[r].own
             /\ TypeOK' /\ UNCHANGED <<tables, dead, redeemed>>
  <2>1. "member" \in Coming /\ "authenticate" \in Steps /\ "member" \in Authenticated
    BY DEF Coming, Steps, Authenticated
  <2> QED BY <1>1, <1>4, <2>1, ArriveGood
<1>5. ASSUME NEW x \in Sessions, NEW run \in runRequests,
             Arrive(r, "createRun", "authenticate", x, run, FALSE)
      PROVE  /\ Others(r) /\ Good(req'[r], states, codes, devices, dead)
             /\ ~Past(req'[r]) /\ ~Inserting(req'[r]) /\ ~req'[r].own
             /\ TypeOK' /\ UNCHANGED <<tables, dead, redeemed>>
  <2>1. "createRun" \in Coming /\ "authenticate" \in Steps /\ "createRun" \in Authenticated
    BY DEF Coming, Steps, Authenticated
  <2>2. /\ run \in RunAsk
        /\ run.device # NoOne => run.device \in Devices /\ devices[run.device] # NoDevice
    BY DEF runRequests, RunAsk, unusedDevices
  <2>3. run.device # NoOne => devices[run.device].user # NoOne
    BY <2>2 DEF IInv, World, RowsShow
  <2> QED BY <1>1, <1>5, <2>1, <2>2, <2>3, ArriveGood
<1> QED BY <1>2, <1>3, <1>4, <1>5 DEF BrowserRequest

-----------------------------------------------------------------------------
(* The files.                                                               *)

LEMMA LeastNat ==
  ASSUME NEW S, S \subseteq Nat, S # {}
  PROVE  Least(S) \in S /\ \A e \in S : Least(S) <= e
<1>1. PICK x \in S : \A y \in S : ~(<<y, x>> \in OpToRel(<, Nat))
  BY NatLessThanWellFounded, WFMin, Zenon
<1>2. \A y \in S : x <= y
  <2> SUFFICES ASSUME NEW y \in S PROVE x <= y
    OBVIOUS
  <2>1. x \in Nat /\ y \in Nat
    OBVIOUS
  <2>2. ~(<<y, x>> \in OpToRel(<, Nat))
    BY <1>1, Zenon
  <2>3. ~(y < x)
    BY <2>1, <2>2 DEF OpToRel
  <2> QED BY ONLY <2>1, <2>3
<1>3. \E d \in S : \A e \in S : d <= e
  BY <1>2
<1> QED BY <1>3 DEF Least

LEMMA FileType ==
  ASSUME IInv, NEW b \in Backends
  PROVE  /\ file[b] \subseteq Devices /\ file[b] \subseteq Nat
         /\ file[b] # {} => Least(file[b]) \in file[b]
<1>1. file[b] \subseteq Devices
  BY DEF IInv, Types, DesktopTypeOK
<1>2. file[b] \subseteq Nat
  BY <1>1, DesktopAssumption
<1> QED BY <1>1, <1>2, LeastNat

(* What the desktop does alone, or with the answer to a request.            *)
LEMMA DesktopStep ==
  ASSUME IInv, NEW r \in Slots, Others(r),
         UNCHANGED <<tables, arrived, dead, redeemed>>,
         Good(req'[r], states, codes, devices, dead), ~Past(req'[r]), ~Inserting(req'[r]),
         DesktopTypeOK', FileInv'
  PROVE  IInv'
<1>1. UNCHANGED <<states, sessions, codes, lock, devices, runs, dead, redeemed>>
  BY DEF tables
<1>2. Later /\ World'
  BY <1>1, Standing, WorldStep DEF IInv
<1>3. Types'
  BY <1>1 DEF IInv, Types, Others
<1>4. Requests'
  BY <1>1, <1>2, RequestsStep DEF IInv
<1>5. SecretInv'
  BY <1>1, <1>2, SecretSlot
<1>6. LockInv'
  <2>1. \A u \in Users : liveCodes(u)' \subseteq liveCodes(u)
    BY <1>1 DEF liveCodes, live
  <2> QED BY <1>1, <2>1, LockSlot
<1>7. OwnDeviceOnly'
  BY <1>1, <1>2, RunsStep DEF IInv
<1> QED BY <1>2, <1>3, <1>4, <1>5, <1>6, <1>7 DEF IInv

LEMMA FilesOnly ==
  ASSUME IInv, UNCHANGED serverVars, DesktopTypeOK', FileInv'
  PROVE  IInv'
<1>1. UNCHANGED <<states, sessions, codes, lock, devices, runs, dead, redeemed, req>>
  BY DEF serverVars, tables
<1>2. Later /\ World'
  BY <1>1, Standing, WorldStep DEF IInv
<1>3. Types'
  BY <1>1 DEF IInv, Types
<1>4. Requests'
  BY <1>1 DEF IInv, Requests
<1>5. SecretInv'
  BY <1>1, <1>2, SecretStep DEF IInv
<1>6. LockInv'
  <2>1. \A u \in Users : liveCodes(u)' \subseteq liveCodes(u)
    BY <1>1 DEF liveCodes, live
  <2>2. \A s \in Slots : Inserting(req'[s]) =>
            /\ Inserting(req[s]) /\ req'[s].user = req[s].user /\ req[s].user \in Users
    BY <1>1 DEF IInv, Requests, Good, GoodAsk, Inserting, Authenticated
  <2> QED BY <1>1, <2>1, <2>2, LockStep DEF IInv
<1>7. OwnDeviceOnly'
  BY <1>1, <1>2, RunsStep DEF IInv
<1> QED BY <1>2, <1>3, <1>4, <1>5, <1>6, <1>7 DEF IInv

LEMMA ServerTypeStep ==
  ASSUME IInv, UNCHANGED serverVars
  PROVE  TypeOK'
BY DEF IInv, Types, DesktopTypeOK, TypeOK, serverVars, tables

LEMMA SelectNext ==
  ASSUME IInv, NEW available \in BOOLEAN, selectSecureStore(available)
  PROVE  IInv'
<1>1. /\ launch = "off" /\ launches < MaxLaunches /\ launches' = launches + 1
      /\ cached' = NoOne /\ UNCHANGED serverVars /\ file' = file /\ kept' = kept
      /\ backend' \in Backends /\ launch' \in {"copy", "purge"}
      /\ launch' = "copy" => file["safeStorage"] = {} /\ file["encryptedFile"] # {}
  BY DEF selectSecureStore, Backends
<1>2. UNCHANGED <<req, devices>>
  BY <1>1 DEF serverVars, tables
<1>3. DesktopTypeOK'
  BY <1>1, ServerTypeStep, DesktopAssumption DEF IInv, Types, DesktopTypeOK
<1>4. FileInv'
  <2>1. SavedIsKept'
    BY <1>1 DEF IInv, FileInv, SavedIsKept
  <2>2. \A s \in Slots : ~req[s].own
    BY <1>1 DEF IInv, FileInv
  <2> QED BY <1>1, <1>2, <2>1, <2>2 DEF IInv, FileInv
<1> QED BY <1>1, <1>3, <1>4, FilesOnly

(* Every entry is in the stronger file before the first leaves the weaker one. *)
LEMMA MigrateNext ==
  ASSUME IInv, migrateLegacyEntries
  PROVE  IInv'
<1> DEFINE safe == file["safeStorage"]
           weak == file["encryptedFile"]
<1>1. /\ UNCHANGED <<req, devices, backend, launches, cached, kept>> /\ UNCHANGED serverVars
  BY DEF migrateLegacyEntries, serverVars, tables
<1>2. /\ file \in [Backends -> SUBSET Devices] /\ "safeStorage" \in Backends
      /\ "encryptedFile" \in Backends /\ safe \subseteq Nat /\ weak \subseteq Nat
      /\ safe \subseteq Devices /\ weak \subseteq Devices
      /\ Backends = {"safeStorage", "encryptedFile"}
  BY FileType DEF IInv, Types, DesktopTypeOK, Backends
<1>3. /\ \A d \in kept : d \in safe \/ d \in weak
      /\ \A d \in safe \cup weak : devices[d].user # NoOne
      /\ \A s \in Slots : ~req[s].own \/ launch = "up"
  BY <1>2 DEF IInv, FileInv, SavedIsKept
<1>4. CASE launch = "copy"
  <2> DEFINE left == weak \ safe
             d == Least(left)
  <2>1. left # {} /\ left \subseteq Nat
    BY <1>2, <1>4 DEF IInv, FileInv
  <2>2. d \in left
    BY <2>1, LeastNat
  <2>3. /\ file' = [file EXCEPT !["safeStorage"] = @ \cup {d}]
        /\ launch' = IF Cardinality(left) = 1 THEN "delete" ELSE "copy"
    BY <1>4 DEF migrateLegacyEntries
  <2>4. file'["safeStorage"] = safe \cup {d} /\ file'["encryptedFile"] = weak
    BY <1>2, <2>3
  <2>5. IsFiniteSet(left)
    <3>1. left \subseteq Devices
      BY <1>2
    <3> QED BY <3>1, AccessAssumption, FS_Subset
  <2>6. Cardinality(left) = 1 => left = {d}
    BY <2>2, <2>5, FS_Singleton
  <2>7. Cardinality(left) # 1 => left \ {d} # {}
    <3> SUFFICES ASSUME left \ {d} = {} PROVE Cardinality(left) = 1
      OBVIOUS
    <3>1. left = {d}
      BY <2>2
    <3> QED BY <3>1, FS_Singleton
  <2> HIDE DEF d, left
  <2>8. launch' = "copy" => file'["encryptedFile"] \ file'["safeStorage"] # {}
    BY <2>3, <2>4, <2>7 DEF left
  <2>9. launch' = "delete" => /\ file'["encryptedFile"] \subseteq file'["safeStorage"]
                              /\ file'["encryptedFile"] # {}
    BY <2>2, <2>3, <2>4, <2>6 DEF left
  <2>10. file' \in [Backends -> SUBSET Devices] /\ launch' \in {"delete", "copy"}
    BY <1>2, <2>2, <2>3 DEF left
  <2>11. DesktopTypeOK'
    BY <1>1, <2>10, ServerTypeStep DEF IInv, Types, DesktopTypeOK
  <2>12. SavedIsKept'
    BY <1>1, <1>2, <1>3, <2>4 DEF SavedIsKept
  <2>13. \A b \in Backends : \A e \in file'[b] : devices'[e].user # NoOne
    BY <1>1, <1>2, <1>3, <2>2, <2>4 DEF left
  <2>14. FileInv'
    BY <1>1, <1>3, <1>4, <2>8, <2>9, <2>10, <2>12, <2>13 DEF IInv, FileInv
  <2> QED BY <1>1, <2>11, <2>14, FilesOnly
<1>5. CASE launch = "delete"
  <2> DEFINE d == Least(weak)
  <2>1. weak # {} /\ weak \subseteq safe
    BY <1>5 DEF IInv, FileInv
  <2>2. d \in weak
    BY <1>2, <2>1, LeastNat
  <2>3. /\ file' = [file EXCEPT !["encryptedFile"] = @ \ {d}]
        /\ launch' = IF file'["encryptedFile"] = {} THEN "purge" ELSE "delete"
    BY <1>5 DEF migrateLegacyEntries
  <2> HIDE DEF d
  <2>4. file'["safeStorage"] = safe /\ file'["encryptedFile"] = weak \ {d}
    BY <1>2, <2>3
  <2>5. file' \in [Backends -> SUBSET Devices] /\ launch' \in {"delete", "purge"}
    BY <1>2, <2>3
  <2>6. DesktopTypeOK'
    BY <1>1, <2>5, ServerTypeStep DEF IInv, Types, DesktopTypeOK
  <2>7. SavedIsKept'
    BY <1>1, <1>2, <1>3, <2>1, <2>4 DEF SavedIsKept
  <2>8. \A b \in Backends : \A e \in file'[b] : devices'[e].user # NoOne
    BY <1>1, <1>2, <1>3, <2>4
  <2>9. launch' = "delete" => /\ file'["encryptedFile"] \subseteq file'["safeStorage"]
                              /\ file'["encryptedFile"] # {}
    BY <2>1, <2>3, <2>4
  <2>10. FileInv'
    BY <1>1, <1>3, <1>5, <2>5, <2>7, <2>8, <2>9 DEF IInv, FileInv
  <2> QED BY <1>1, <2>6, <2>10, FilesOnly
<1> QED BY <1>4, <1>5 DEF migrateLegacyEntries

LEMMA ClearFiles ==
  ASSUME IInv, clearSecureStoreNamespace, devices' = devices
  PROVE  /\ file' \in [Backends -> SUBSET Devices] /\ kept' \subseteq Devices
         /\ SavedIsKept'
         /\ \A b \in Backends : \A d \in file'[b] : devices'[d].user # NoOne
<1>1. /\ file \in [Backends -> SUBSET Devices] /\ backend \in Backends
      /\ kept \subseteq Devices
  BY DEF IInv, Types, DesktopTypeOK
<1>2. file' = [file EXCEPT ![backend] = {}] /\ kept' = kept \ file[backend]
  BY DEF clearSecureStoreNamespace
<1>3. file' \in [Backends -> SUBSET Devices] /\ kept' \subseteq Devices
  BY <1>1, <1>2
<1>4. \A b \in Backends : file'[b] = IF b = backend THEN {} ELSE file[b]
  BY <1>1, <1>2
<1>5. SavedIsKept'
  <2> SUFFICES ASSUME NEW d \in kept' PROVE \E b \in Backends : d \in file'[b]
    BY DEF SavedIsKept
  <2>1. d \in kept /\ d \notin file[backend]
    BY <1>2
  <2>2. PICK b \in Backends : d \in file[b]
    BY <2>1 DEF IInv, FileInv, SavedIsKept
  <2>3. d \in file'[b]
    BY <1>4, <2>1, <2>2
  <2> QED BY <2>3
<1>6. \A b \in Backends : \A d \in file'[b] : devices'[d].user # NoOne
  BY <1>4 DEF IInv, FileInv
<1> QED BY <1>3, <1>5, <1>6

LEMMA PurgeNext ==
  ASSUME IInv, purgeExpired
  PROVE  IInv'
<1>1. /\ launch = "purge" /\ launch' = "up"
      /\ UNCHANGED serverVars /\ UNCHANGED <<backend, launches, cached>>
      /\ clearSecureStoreNamespace \/ UNCHANGED <<file, kept>>
  BY DEF purgeExpired
<1>2. UNCHANGED <<req, devices>>
  BY <1>1 DEF serverVars, tables
<1>3. /\ file' \in [Backends -> SUBSET Devices] /\ kept' \subseteq Devices
      /\ SavedIsKept'
      /\ \A b \in Backends : \A d \in file'[b] : devices'[d].user # NoOne
  <2>1. CASE clearSecureStoreNamespace
    BY <1>2, <2>1, ClearFiles
  <2>2. CASE UNCHANGED <<file, kept>>
    BY <1>2, <2>2 DEF IInv, Types, DesktopTypeOK, FileInv, SavedIsKept
  <2> QED BY <1>1, <2>1, <2>2
<1>4. DesktopTypeOK'
  BY <1>1, <1>3, ServerTypeStep DEF IInv, Types, DesktopTypeOK
<1>5. FileInv'
  BY <1>1, <1>2, <1>3 DEF IInv, FileInv
<1> QED BY <1>1, <1>4, <1>5, FilesOnly

(* The desktop's requests go on without it at the Worker; the rest are its own. *)
LEMMA QuitNext ==
  ASSUME IInv, Quit
  PROVE  IInv'
<1>1. /\ launch # "off" /\ launch' = "off" /\ cached' = NoOne
      /\ UNCHANGED <<tables, arrived, dead, redeemed, file, backend, launches, kept>>
      /\ req' = [r \in Slots |-> IF atServer(r) THEN [req[r] EXCEPT !.own = FALSE] ELSE Idle]
  BY DEF Quit
<1>2. UNCHANGED <<states, sessions, codes, lock, devices, runs, dead, redeemed>>
  BY <1>1 DEF tables
<1>3. req \in [Slots -> Request]
  BY DEF IInv, Types
<1>4. \A s \in Slots : [req[s] EXCEPT !.own = FALSE] \in Request
  BY <1>3 DEF Request
<1>5. req' \in [Slots -> Request]
  BY <1>1, <1>4, IdleIsGood
<1>6. \A s \in Slots : req'[s] = Idle \/ Disowned(s)
  BY <1>1 DEF Disowned
<1>7. /\ Later /\ World' /\ Requests' /\ SecretInv' /\ OwnDeviceOnly'
      /\ \A s \in Slots : Inserting(req'[s]) =>
              /\ Inserting(req[s]) /\ req'[s].user = req[s].user /\ req[s].user \in Users
  BY <1>2, <1>5, <1>6, Ended
<1>8. LockInv'
  <2>1. \A u \in Users : liveCodes(u)' \subseteq liveCodes(u)
    BY <1>2 DEF liveCodes, live
  <2> QED BY <1>2, <1>7, <2>1, LockStep DEF IInv
<1>9. TypeOK'
  <2>1. \A s \in Slots : req'[s].op \in Ops /\ req'[s].step \in Steps
    BY <1>5 DEF Request
  <2> QED BY <1>1, <2>1 DEF IInv, Types, DesktopTypeOK, TypeOK, tables
<1>10. Types'
  BY <1>1, <1>5, <1>9 DEF IInv, Types, DesktopTypeOK
<1>11. FileInv'
  <2>1. \A s \in Slots : ~req'[s].own
    <3> SUFFICES ASSUME NEW s \in Slots PROVE ~req'[s].own
      OBVIOUS
    <3>1. CASE req'[s] = Idle
      BY <3>1 DEF Idle
    <3>2. CASE Disowned(s)
      BY <1>3, <3>2 DEF Disowned, Request
    <3> QED BY <1>6, <3>1, <3>2
  <2>2. SavedIsKept'
    BY <1>1 DEF IInv, FileInv, SavedIsKept
  <2> QED BY <1>1, <1>2, <2>1, <2>2 DEF IInv, FileInv
<1> QED BY <1>7, <1>8, <1>10, <1>11 DEF IInv

(* What is resolved is a device there is.                                   *)
LEMMA ResolvedKnown ==
  ASSUME IInv
  PROVE  /\ resolveDeviceCredential \in Devices \cup {NoOne}
         /\ resolveDeviceCredential # NoOne => devices[resolveDeviceCredential].user # NoOne
<1>1. backend \in Backends /\ cached \in Devices \cup {NoOne}
  BY DEF IInv, Types, DesktopTypeOK
<1>2. /\ storedCredential \in Devices \cup {NoOne}
      /\ storedCredential # NoOne => devices[storedCredential].user # NoOne
  <2>1. CASE file[backend] = {}
    BY <2>1 DEF storedCredential
  <2>2. CASE file[backend] # {}
    <3>1. Least(file[backend]) \in file[backend] /\ file[backend] \subseteq Devices
      BY <1>1, <2>2, FileType
    <3> QED BY <1>1, <2>2, <3>1 DEF storedCredential, IInv, FileInv
  <2> QED BY <2>1, <2>2
<1> QED BY <1>1, <1>2 DEF resolveDeviceCredential, IInv, FileInv

LEMMA DesktopRequestNext ==
  ASSUME IInv, NEW r \in Slots, DesktopRequest(r)
  PROVE  IInv'
<1> DEFINE Came == /\ Others(r) /\ Good(req'[r], states, codes, devices, dead)
                   /\ ~Past(req'[r]) /\ ~Inserting(req'[r])
                   /\ TypeOK' /\ UNCHANGED <<tables, dead, redeemed>>
           cred == resolveDeviceCredential
<1>1. launch = "up" /\ UNCHANGED <<file, backend, launch, launches, kept>>
  BY DEF DesktopRequest
<1>2. /\ cred \in Sessions \cup Devices \cup {NoOne}
      /\ cred \in Devices => devices[cred].user # NoOne
  BY ResolvedKnown, AccessAssumption
<1>3. NoOne \notin Devices /\ TRUE \in BOOLEAN
  BY AccessAssumption
<1>4. Came /\ cached' \in {cached, cred}
  <2>1. CASE Ask(r, "logout", NoOne)
    <3>1. "logout" \in Coming /\ "redeem" \in Steps /\ "logout" \notin Authenticated
      BY DEF Coming, Steps, Authenticated
    <3>2. Arrive(r, "logout", "redeem", cred, NoOne, TRUE) /\ cached' = cred
      BY <2>1 DEF Ask
    <3> HIDE DEF cred
    <3> QED BY <1>2, <1>3, <3>1, <3>2, ArriveGood
  <2>2. CASE \E p \in Projects : Ask(r, "createCode", p)
    <3>1. /\ "createCode" \in Coming /\ "authenticate" \in Steps
          /\ "createCode" \in Authenticated
      BY DEF Coming, Steps, Authenticated
    <3>2. PICK p \in Projects : Arrive(r, "createCode", "authenticate", cred, p, TRUE)
                                /\ cached' = cred
      BY <2>2 DEF Ask
    <3> HIDE DEF cred
    <3> QED BY <1>2, <1>3, <3>1, <3>2, ArriveGood
  <2>3. CASE \E d \in Devices \ unusedDevices : Ask(r, "revoke", d)
    <3>1. "revoke" \in Coming /\ "authenticate" \in Steps /\ "revoke" \in Authenticated
      BY DEF Coming, Steps, Authenticated
    <3>2. PICK d \in Devices : /\ Arrive(r, "revoke", "authenticate", cred, d, TRUE)
                               /\ cached' = cred /\ devices[d] # NoDevice
      BY <2>3 DEF Ask, unusedDevices
    <3>3. devices[d].user # NoOne
      BY <3>2 DEF IInv, World, RowsShow
    <3> HIDE DEF cred
    <3> QED BY <1>2, <1>3, <3>1, <3>2, <3>3, ArriveGood
  <2>4. CASE \E c \in Codes : codes[c] # NoCode
                              /\ Arrive(r, "exchange", "redeem", NoOne, c, TRUE)
    <3>1. "exchange" \in Coming /\ "redeem" \in Steps /\ "exchange" \notin Authenticated
      BY DEF Coming, Steps, Authenticated
    <3>2. PICK c \in Codes : /\ Arrive(r, "exchange", "redeem", NoOne, c, TRUE)
                             /\ codes[c] # NoCode
      BY <2>4
    <3>3. codes[c].user # NoOne
      BY <3>2 DEF IInv, World, RowsShow
    <3>4. Came
      BY <1>3, <3>1, <3>2, <3>3, ArriveGood
    <3>5. CASE cached' = cached
      BY <3>4, <3>5
    <3> QED BY <2>4, <3>4, <3>5 DEF DesktopRequest, Ask
  <2> QED BY <2>1, <2>2, <2>3, <2>4 DEF DesktopRequest
<1>5. cached' \in Devices \cup {NoOne} /\ (cached' # NoOne => devices[cached'].user # NoOne)
  BY <1>4, ResolvedKnown DEF IInv, Types, DesktopTypeOK, FileInv
<1>6. DesktopTypeOK'
  BY <1>1, <1>4, <1>5 DEF IInv, Types, DesktopTypeOK
<1>7. UNCHANGED <<states, sessions, codes, lock, devices, runs, dead, redeemed>>
  BY <1>4 DEF tables
<1>8. FileInv'
  <2>1. SavedIsKept'
    BY <1>1 DEF IInv, FileInv, SavedIsKept
  <2> QED BY <1>1, <1>5, <1>7, <2>1 DEF IInv, FileInv
<1>9. Later /\ World'
  BY <1>7, Standing, WorldStep DEF IInv
<1>10. Types'
  BY <1>4, <1>6, <1>7 DEF IInv, Types, Others
<1>11. Requests'
  BY <1>4, <1>7, <1>9, RequestsStep DEF IInv
<1>12. SecretInv'
  BY <1>4, <1>7, <1>9, SecretSlot
<1>13. LockInv'
  <2>1. \A u \in Users : liveCodes(u)' \subseteq liveCodes(u)
    BY <1>7 DEF liveCodes, live
  <2> QED BY <1>4, <1>7, <2>1, LockSlot
<1>14. OwnDeviceOnly'
  BY <1>7, <1>9, RunsStep DEF IInv
<1> QED BY <1>8, <1>9, <1>10, <1>11, <1>12, <1>13, <1>14 DEF IInv

-----------------------------------------------------------------------------
(* Answers.                                                                 *)

LEMMA StepFiles ==
  ASSUME IInv, UNCHANGED <<tables, arrived, dead>>, req' \in [Slots -> Request],
         UNCHANGED <<backend, launch, launches>>,
         file' \in [Backends -> SUBSET Devices], kept' \subseteq Devices,
         cached' \in Devices \cup {NoOne}
  PROVE  DesktopTypeOK'
<1>1. TypeOK'
  BY TypeStep DEF IInv
<1> QED BY <1>1 DEF IInv, Types, DesktopTypeOK

(* A request of the desktop that is over, with files that may have changed. *)
LEMMA OverStep ==
  ASSUME IInv, NEW r \in Slots, req' = [req EXCEPT ![r] = Idle], req[r].own,
         UNCHANGED <<tables, arrived, dead, redeemed, backend, launch, launches, cached>>,
         file' \in [Backends -> SUBSET Devices], kept' \subseteq Devices, SavedIsKept',
         \A b \in Backends : \A d \in file'[b] : devices'[d].user # NoOne
  PROVE  IInv'
<1>1. Others(r) /\ req'[r] = Idle
  BY IdleIsGood DEF Others, IInv, Types
<1>2. Good(req'[r], states, codes, devices, dead) /\ ~Past(req'[r]) /\ ~Inserting(req'[r])
  BY <1>1, IdleIsGood DEF Past, Inserting, Idle
<1>3. DesktopTypeOK'
  BY <1>1, StepFiles DEF Others, IInv, Types, DesktopTypeOK
<1>4. FileInv'
  <2>1. launch = "up"
    BY DEF IInv, FileInv
  <2>2. devices' = devices
    BY DEF tables
  <2> QED BY <2>1, <2>2 DEF IInv, FileInv
<1> QED BY <1>1, <1>2, <1>3, <1>4, DesktopStep

(* A request of the desktop that goes on.                                   *)
LEMMA OnStep ==
  ASSUME IInv, NEW r \in Slots, NEW step \in {"save", "clear"}, goto(r, step), req[r].own,
         Good([req[r] EXCEPT !.step = step], states, codes, devices, dead),
         req[r].op # "login",
         UNCHANGED <<tables, arrived, dead, redeemed, backend, launch, launches>>,
         file' \in [Backends -> SUBSET Devices], kept' \subseteq Devices, SavedIsKept',
         \A b \in Backends : \A d \in file'[b] : devices'[d].user # NoOne,
         cached' \in Devices \cup {NoOne}, cached' # NoOne => devices[cached'].user # NoOne
  PROVE  IInv'
<1>1. step \in Steps /\ step # "insert"
  BY DEF Steps
<1>2. /\ Others(r) /\ req'[r] \in Request
      /\ req'[r] = [req[r] EXCEPT !.step = step]
  BY <1>1, Goto DEF IInv
<1>3. req'[r].op = req[r].op /\ req'[r].step = step
  BY <1>2 DEF IInv, Types, Request
<1>4. Good(req'[r], states, codes, devices, dead) /\ ~Past(req'[r]) /\ ~Inserting(req'[r])
  BY <1>1, <1>2, <1>3 DEF Past, Inserting
<1>5. DesktopTypeOK'
  BY <1>2, StepFiles DEF Others
<1>6. FileInv'
  <2>1. launch = "up"
    BY DEF IInv, FileInv
  <2>2. devices' = devices
    BY DEF tables
  <2> QED BY <2>1, <2>2 DEF IInv, FileInv
<1> QED BY <1>2, <1>4, <1>5, <1>6, DesktopStep

LEMMA FilesSame ==
  ASSUME IInv, UNCHANGED <<file, kept, devices>>
  PROVE  /\ file' \in [Backends -> SUBSET Devices] /\ kept' \subseteq Devices /\ SavedIsKept'
         /\ \A b \in Backends : \A d \in file'[b] : devices'[d].user # NoOne
BY DEF IInv, Types, DesktopTypeOK, FileInv, SavedIsKept

LEMMA ExchangeAnsweredNext ==
  ASSUME IInv, NEW r \in Slots, exchangeDeviceCode(r)
  PROVE  IInv'
<1>1. /\ req[r] \in Request /\ Good(req[r], states, codes, devices, dead)
      /\ req[r].op = "exchange" /\ req[r].step = "done" /\ req[r].own
  BY DEF IInv, Types, Requests, exchangeDeviceCode, Answered, At
<1>2. UNCHANGED <<tables, arrived, dead, redeemed, file, backend, launch, launches, kept>>
  BY DEF exchangeDeviceCode
<1>3. /\ file' \in [Backends -> SUBSET Devices] /\ kept' \subseteq Devices /\ SavedIsKept'
      /\ \A b \in Backends : \A d \in file'[b] : devices'[d].user # NoOne
  BY <1>2, FilesSame DEF tables
<1>4. CASE /\ req[r].answer = "ok" /\ cached' = req[r].about /\ goto(r, "save")
  <2>1. req[r].about \in Devices /\ devices[req[r].about].user # NoOne
    BY <1>1, <1>4 DEF Good, GoodExchange
  <2> DEFINE q == [req[r] EXCEPT !.step = "save"]
  <2>2. /\ q.op = "exchange" /\ q.step = "save" /\ q.about = req[r].about
        /\ q.cred = req[r].cred /\ q.late = req[r].late /\ q.own
    BY <1>1 DEF Request
  <2>3. Good(q, states, codes, devices, dead)
    BY <1>1, <2>1, <2>2 DEF Good, GoodLogin, GoodExchange, GoodAsk, GoodLate, Authenticated
  <2>4. /\ cached' \in Devices \cup {NoOne} /\ (cached' # NoOne => devices[cached'].user # NoOne)
        /\ goto(r, "save")
    BY <1>4, <2>1
  <2>5. UNCHANGED <<tables, arrived, dead, redeemed, backend, launch, launches>>
    BY <1>2
  <2> QED BY <1>1, <1>3, <2>3, <2>4, <2>5, OnStep
<1>5. CASE req' = [req EXCEPT ![r] = Idle] /\ UNCHANGED cached
  BY <1>1, <1>2, <1>3, <1>5, OverStep
<1> QED BY <1>4, <1>5 DEF exchangeDeviceCode

LEMMA SaveNext ==
  ASSUME IInv, NEW r \in Slots, save(r)
  PROVE  IInv'
<1> DEFINE d == req[r].about
<1>1. /\ req[r] \in Request /\ Good(req[r], states, codes, devices, dead)
      /\ req[r].own /\ req[r].step = "save"
  BY DEF IInv, Types, Requests, save
<1>2. /\ UNCHANGED <<tables, arrived, dead, redeemed, backend, launch, launches, cached>>
      /\ req' = [req EXCEPT ![r] = Idle]
  BY DEF save
<1>3. d \in Devices /\ devices[d].user # NoOne
  BY <1>1 DEF Good, GoodAsk, GoodExchange
<1>4. devices' = devices
  BY <1>2 DEF tables
<1>5. /\ file' \in [Backends -> SUBSET Devices] /\ kept' \subseteq Devices /\ SavedIsKept'
      /\ \A b \in Backends : \A e \in file'[b] : devices'[e].user # NoOne
  <2>1. CASE UNCHANGED <<file, kept>>
    BY <1>4, <2>1, FilesSame
  <2>2. CASE /\ file' = [file EXCEPT ![backend] = @ \cup {d}] /\ kept' = kept \cup {d}
    <3>1. /\ file \in [Backends -> SUBSET Devices] /\ backend \in Backends
          /\ kept \subseteq Devices
      BY DEF IInv, Types, DesktopTypeOK
    <3>2. \A b \in Backends : file'[b] = IF b = backend THEN file[b] \cup {d} ELSE file[b]
      BY <2>2, <3>1
    <3>3. file' \in [Backends -> SUBSET Devices]
      BY <1>3, <2>2, <3>1
    <3>4. SavedIsKept'
      BY <2>2, <3>1, <3>2 DEF IInv, FileInv, SavedIsKept
    <3>5. \A b \in Backends : \A e \in file'[b] : devices'[e].user # NoOne
      BY <1>3, <1>4, <3>2 DEF IInv, FileInv
    <3> QED BY <1>3, <2>2, <3>1, <3>3, <3>4, <3>5
  <2> QED BY <2>1, <2>2 DEF save
<1> QED BY <1>1, <1>2, <1>5, OverStep

(* A request that was answered and has its store to clear.                  *)
LEMMA ClearGood ==
  ASSUME IInv, NEW r \in Slots, req[r].own, req[r].step = "done", req[r].op # "exchange"
  PROVE  /\ Good([req[r] EXCEPT !.step = "clear"], states, codes, devices, dead)
         /\ req[r].op # "login"
<1> DEFINE q == [req[r] EXCEPT !.step = "clear"]
<1>1. req[r] \in Request /\ Good(req[r], states, codes, devices, dead)
  BY DEF IInv, Types, Requests
<1>2. /\ q.op = req[r].op /\ q.step = "clear" /\ q.about = req[r].about /\ q.user = req[r].user
      /\ q.cred = req[r].cred /\ q.late = req[r].late /\ q.own
  BY <1>1 DEF Request
<1>3. req[r].op # "login"
  BY <1>1 DEF Good, GoodLogin
<1> HIDE DEF q
<1>4. Good(q, states, codes, devices, dead)
  BY <1>1, <1>2, <1>3 DEF Good, GoodLogin, GoodExchange, GoodAsk, GoodLate, Authenticated
<1> QED BY <1>3, <1>4 DEF q

LEMMA RevokeAnsweredNext ==
  ASSUME IInv, NEW r \in Slots, revokeDeviceAnswered(r)
  PROVE  IInv'
<1> DEFINE d == req[r].about
<1>1. req[r].own /\ req[r].op = "revoke" /\ req[r].step = "done" /\ goto(r, "clear")
  BY DEF revokeDeviceAnswered, Answered, At
<1>2. /\ UNCHANGED <<tables, arrived, dead, redeemed, backend, launch, launches>>
      /\ file' = [file EXCEPT ![backend] = @ \ {d}] /\ kept' = kept \ {d}
      /\ cached' \in {cached, NoOne}
  BY DEF revokeDeviceAnswered
<1>3. devices' = devices
  BY <1>2 DEF tables
<1>4. /\ file \in [Backends -> SUBSET Devices] /\ backend \in Backends
      /\ kept \subseteq Devices /\ cached \in Devices \cup {NoOne}
  BY DEF IInv, Types, DesktopTypeOK
<1>5. \A b \in Backends : file'[b] = IF b = backend THEN file[b] \ {d} ELSE file[b]
  BY <1>2, <1>4
<1>6. file' \in [Backends -> SUBSET Devices] /\ kept' \subseteq Devices
  BY <1>2, <1>4
<1>7. SavedIsKept'
  BY <1>2, <1>5 DEF IInv, FileInv, SavedIsKept
<1>8. \A b \in Backends : \A e \in file'[b] : devices'[e].user # NoOne
  BY <1>3, <1>5 DEF IInv, FileInv
<1>9. cached' \in Devices \cup {NoOne} /\ (cached' # NoOne => devices[cached'].user # NoOne)
  BY <1>2, <1>4 DEF IInv, FileInv
<1>10. /\ Good([req[r] EXCEPT !.step = "clear"], states, codes, devices, dead)
       /\ req[r].op # "login"
  BY <1>1, ClearGood
<1> QED BY <1>1, <1>2, <1>6, <1>7, <1>8, <1>9, <1>10, OnStep

LEMMA AnsweredNext ==
  ASSUME IInv, NEW r \in Slots, answered(r)
  PROVE  IInv'
<1>1. /\ req[r].own /\ req[r].step = "done" /\ req[r].op # "exchange"
      /\ UNCHANGED <<tables, arrived, dead, redeemed>> /\ UNCHANGED desktopVars
  BY DEF answered
<1>2. UNCHANGED <<file, kept, devices, backend, launch, launches, cached>>
  BY <1>1 DEF desktopVars, tables
<1>3. /\ file' \in [Backends -> SUBSET Devices] /\ kept' \subseteq Devices /\ SavedIsKept'
      /\ \A b \in Backends : \A d \in file'[b] : devices'[d].user # NoOne
  BY <1>2, FilesSame
<1>4. CASE req' = [req EXCEPT ![r] = Idle]
  BY <1>1, <1>2, <1>3, <1>4, OverStep
<1>5. CASE goto(r, "clear")
  <2>1. /\ Good([req[r] EXCEPT !.step = "clear"], states, codes, devices, dead)
        /\ req[r].op # "login"
    BY <1>1, ClearGood
  <2>2. cached' \in Devices \cup {NoOne} /\ (cached' # NoOne => devices[cached'].user # NoOne)
    BY <1>2 DEF IInv, Types, DesktopTypeOK, FileInv
  <2> QED BY <1>1, <1>2, <1>3, <1>5, <2>1, <2>2, OnStep
<1> QED BY <1>4, <1>5 DEF answered

LEMMA ClearNext ==
  ASSUME IInv, NEW r \in Slots, clear(r)
  PROVE  IInv'
<1>1. /\ req[r].own /\ clearSecureStoreNamespace /\ req' = [req EXCEPT ![r] = Idle]
      /\ UNCHANGED <<tables, arrived, dead, redeemed, backend, launch, launches, cached>>
  BY DEF clear
<1>2. devices' = devices
  BY <1>1 DEF tables
<1>3. /\ file' \in [Backends -> SUBSET Devices] /\ kept' \subseteq Devices
      /\ SavedIsKept'
      /\ \A b \in Backends : \A d \in file'[b] : devices'[d].user # NoOne
  BY <1>1, <1>2, ClearFiles
<1> QED BY <1>1, <1>3, OverStep

-----------------------------------------------------------------------------
(* The whole.                                                               *)

LEMMA InitIInv == DesktopInit => IInv
<1> SUFFICES ASSUME DesktopInit PROVE IInv
  OBVIOUS
<1>1. Init /\ req = [r \in Slots |-> Idle] /\ redeemed = {} /\ dead = {} /\ runs = {}
      /\ states = [s \in States |-> "none"] /\ lock = [u \in Users |-> NoOne]
      /\ arrived = [own \in BOOLEAN |-> 0]
      /\ claimed = [p \in Projects |-> \E u \in Users : members[p][u] # "none"]
  BY DEF DesktopInit, Init
<1>2. /\ NoCode \in Code /\ NoDevice \in Device /\ NoSession \in Session
      /\ NoCode.user = NoOne /\ NoDevice.user = NoOne /\ NoSession.status = "none"
  BY DEF NoCode, Code, NoDevice, Device, NoSession, Session
<1>3. users \subseteq Users
      /\ members \in [Projects -> [Users -> {"none", "viewer", "developer", "admin"}]]
  BY AccessAssumption DEF DesktopInit, Init
<1>4. codes \in [Codes -> Code] /\ \A c \in Codes : codes[c].user = NoOne => codes[c] = NoCode
  <2>1. CASE codes = [c \in Codes |-> NoCode]
    BY <1>2, <2>1
  <2>2. CASE codes = Minted
    BY <1>2, <2>2, AccessAssumption DEF Code
  <2> QED BY <1>1, <2>1, <2>2 DEF Init
<1>5. /\ devices \in [Devices -> Device]
      /\ \A d \in Devices : devices[d].user = NoOne => devices[d] = NoDevice
  <2>1. CASE devices = [d \in Devices |-> NoDevice]
    BY <1>2, <2>1
  <2>2. CASE devices = Bound
    BY <1>2, <2>2, AccessAssumption DEF Device
  <2> QED BY <1>1, <2>1, <2>2 DEF Init
<1>6. /\ sessions \in [Sessions -> Session]
      /\ \A x \in Sessions : sessions[x].status = "live" => sessions[x].user \in Users
  <2>1. CASE sessions = [x \in Sessions |-> NoSession]
    BY <1>2, <2>1
  <2>2. CASE sessions \in [Sessions -> {NoSession} \cup [user: users, status: {"live"}]]
    BY <1>2, <1>3, <2>2 DEF Session
  <2> QED BY <1>1, <2>1, <2>2 DEF Init
<1>7. TypeOK
  <2>1. \A r \in Slots : req[r].op \in Ops /\ req[r].step \in Steps
    BY <1>1, IdleIsGood DEF Request
  <2> QED BY <1>1, <1>3, <1>4, <1>5, <1>6, <2>1 DEF TypeOK
<1>8. DesktopTypeOK
  BY <1>7, DesktopAssumption DEF DesktopInit, DesktopTypeOK, Backends, unusedDevices
<1>9. Types
  BY <1>1, <1>8, IdleIsGood DEF Types
<1>10. World
  BY <1>1, <1>4, <1>5, <1>6 DEF World, SessionsShow, RowsShow
<1>11. Requests
  BY <1>1, IdleIsGood DEF Requests
<1>12. SecretInv
  BY <1>1 DEF SecretInv, RedeemedOnce, SecretsSpent, PastAlone, Past, Idle
<1>13. LiveCodesBounded
  <2> SUFFICES ASSUME NEW u \in Users PROVE Cardinality(liveCodes(u)) <= MaxLiveCodes
    BY DEF LiveCodesBounded
  <2> DEFINE held == {c \in Codes : Minted[c].user = u}
  <2>1. CASE codes = Minted
    <3>1. liveCodes(u) \subseteq held
      BY <2>1 DEF liveCodes
    <3>2. IsFiniteSet(held)
      BY AccessAssumption, FS_Subset
    <3>3. /\ IsFiniteSet(liveCodes(u)) /\ Cardinality(liveCodes(u)) <= Cardinality(held)
      BY <3>1, <3>2, FS_Subset
    <3>4. Cardinality(held) <= MaxLiveCodes
      BY AccessAssumption
    <3>5. Cardinality(held) \in Nat /\ Cardinality(liveCodes(u)) \in Nat
      BY <3>2, <3>3, FS_CardinalityType
    <3> HIDE DEF held
    <3> QED BY <3>3, <3>4, <3>5, AccessAssumption
  <2>2. CASE codes = [c \in Codes |-> NoCode]
    <3>1. liveCodes(u) = {}
      BY <1>2, <2>2 DEF liveCodes, live
    <3> QED BY <3>1, FS_EmptySet, AccessAssumption
  <2> QED BY <1>1, <2>1, <2>2 DEF Init
<1>14. LockInv
  BY <1>1, <1>13 DEF LockInv, Inserting, Idle
<1>15. OwnDeviceOnly
  BY <1>1 DEF OwnDeviceOnly
<1>16. FileInv
  <2>1. \A d \in Devices \ unusedDevices : devices[d].user # NoOne
    BY <1>5 DEF unusedDevices
  <2> QED BY <1>1, <2>1 DEF DesktopInit, FileInv, SavedIsKept, Idle
<1> QED BY <1>9, <1>10, <1>11, <1>12, <1>14, <1>15, <1>16 DEF IInv

LEMMA ServeNext ==
  ASSUME IInv, NEW r \in Slots, Serve(r), UNCHANGED desktopVars
  PROVE  IInv'
<1>1. CASE \/ login(r) \/ (\E u \in Users : provisionUser(r, u)) \/ providerFails(r)
           \/ (\E p \in Projects : bootstrapProjectAdmin(r, p)) \/ bootstrapEnds(r)
           \/ (\E x \in Sessions : issueSession(r, x)) \/ revokeRequestSession(r)
  <2>1. CASE bootstrapEnds(r)
    BY <2>1, BootstrapEndsNext
  <2> QED BY <1>1, <2>1, LoginNext, ProvisionNext, ProviderFailsNext, BootstrapNext,
             IssueSessionNext, LogoutNext
<1>2. CASE authenticate(r) \/ sessionExpired(r) \/ touchDevice(r) \/ markDeviceLastUsed(r)
  BY <1>2, AuthenticateNext, SessionExpiredNext, TouchNext, MarkNext
<1>3. CASE \/ reserveCodeSlot(r) \/ (\E c \in Codes : insertCode(r, c)) \/ exchangeCode(r)
           \/ markCodeConsumed(r) \/ (\E d \in Devices : insertDevice(r, d)) \/ revokeDevice(r)
  BY <1>3, ReserveNext, InsertCodeNext, ExchangeCodeNext, ConsumeNext, InsertDeviceNext,
     RevokeNext
<1>4. CASE \/ routeMember(r) \/ setMembership(r) \/ routeCreateRun(r)
           \/ isDeviceAuthorizedForProject(r) \/ startRun(r)
  BY <1>4, RouteMemberNext, SetMembershipNext, RouteCreateRunNext, DeviceAuthorizedNext,
     StartRunNext
<1> QED BY <1>1, <1>2, <1>3, <1>4 DEF Serve

LEMMA NextIInv == IInv /\ [Desktop \/ Worker]_vars => IInv'
<1> SUFFICES ASSUME IInv, [Desktop \/ Worker]_vars PROVE IInv'
  OBVIOUS
<1>1. CASE Worker
  <2>1. UNCHANGED desktopVars
    BY <1>1 DEF Worker
  <2>2. CASE \E r \in Slots : Serve(r) \/ BrowserRequest(r)
    BY <2>1, <2>2, ServeNext, BrowserNext
  <2>3. CASE \E s \in States : begin(s)
    BY <2>1, <2>3, BeginNext
  <2>4. CASE Expire
    BY <2>1, <2>4, ExpireCodeNext, ExpireDeviceNext DEF Expire
  <2>5. CASE Crash
    BY <2>1, <2>5, CrashNext
  <2> QED BY <1>1, <2>2, <2>3, <2>4, <2>5 DEF Worker
<1>2. CASE Desktop
  BY <1>2, SelectNext, MigrateNext, PurgeNext, QuitNext, DesktopRequestNext,
     ExchangeAnsweredNext, SaveNext, RevokeAnsweredNext, AnsweredNext, ClearNext
     DEF Desktop
<1>3. CASE UNCHANGED vars
  <2>1. UNCHANGED serverVars /\ UNCHANGED desktopVars
    BY <1>3 DEF vars
  <2>2. DesktopTypeOK'
    BY <2>1, ServerTypeStep, DesktopTypeStep DEF IInv
  <2>3. FileInv'
    BY <2>1 DEF serverVars, tables, desktopVars, IInv, FileInv, SavedIsKept
  <2> QED BY <2>1, <2>2, <2>3, FilesOnly
<1> QED BY <1>1, <1>2, <1>3

-----------------------------------------------------------------------------
(* The types of the Worker's tables, of every request and of the desktop's  *)
(* files, through every interleaving, crash and launch.                     *)
THEOREM DesktopTypeCorrect == DesktopSpec => []DesktopTypeOK
<1>1. IInv => DesktopTypeOK
  BY DEF IInv, Types
<1> QED BY InitIInv, NextIInv, <1>1, PTL DEF DesktopSpec

(* No migration, purge, save, revocation or quit loses a credential that    *)
(* nobody let go: it is in one of the two files (select-backend.ts).        *)
THEOREM SavedCredentialsAreKept == DesktopSpec => []SavedIsKept
<1>1. IInv => SavedIsKept
  BY DEF IInv, FileInv
<1> QED BY InitIInv, NextIInv, <1>1, PTL DEF DesktopSpec

(* However requests overlap, a login state yields one session, and neither  *)
(* it nor a code yields anything to a request that comes after it did.      *)
THEOREM SecretsAreRedeemedOnce == DesktopSpec => []RedeemedOnce
<1>1. IInv => RedeemedOnce
  BY DEF IInv, SecretInv
<1> QED BY InitIInv, NextIInv, <1>1, PTL DEF DesktopSpec

(* A request that came with a dead credential is never taken for anybody's, *)
(* at no step of any handler (device-access.ts, postgres-access-control.ts). *)
THEOREM DeadCredentialsAreRefused == DesktopSpec => []RefusedAfterRevocation
<1>1. IInv => RefusedAfterRevocation
  BY DEF IInv, Requests, Good, GoodLate, RefusedAfterRevocation
<1> QED BY InitIInv, NextIInv, <1>1, PTL DEF DesktopSpec

(* Between the check of a device and the creation of the Run nothing can    *)
(* give the device to somebody else: every Run is sent to its creator's.    *)
THEOREM RunsGoToOwnDevices == DesktopSpec => []OwnDeviceOnly
<1>1. IInv => OwnDeviceOnly
  BY DEF IInv
<1> QED BY InitIInv, NextIInv, <1>1, PTL DEF DesktopSpec

(* The count under the lock of the account still holds at the insert, so    *)
(* that any number of issuers together stay within the budget.              *)
THEOREM LiveCodesStayBounded == DesktopSpec => []LiveCodesBounded
<1>1. IInv => LiveCodesBounded
  BY DEF IInv, LockInv
<1> QED BY InitIInv, NextIInv, <1>1, PTL DEF DesktopSpec

=============================================================================
