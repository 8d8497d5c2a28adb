-------------------------- MODULE DesktopCredential --------------------------
(***************************************************************************)
(* The credential of a desktop against the Worker of DeviceAccess: the     *)
(* client SDK (client-sdk/src/index.ts) attaches the credential it has     *)
(* cached or finds in the secure store, the main process                   *)
(* (apps/desktop/src/main) exchanges codes and clears the store after a    *)
(* logout, a revocation or a 401, and each launch selects a backend        *)
(* (secure-store/src/select-backend.ts), migrates what an earlier launch   *)
(* kept in the weaker file and purges what has expired.  Each backend is a *)
(* file that is replaced whole; the app may quit between two writes.       *)
(***************************************************************************)
EXTENDS DeviceAccess

CONSTANT MaxLaunches    \* bound: launches of the app

ASSUME DesktopAssumption == MaxLaunches \in Nat /\ Devices \subseteq Nat

VARIABLES
    file,       \* the credentials in each backend's file
    backend,    \* the backend this launch selected
    launch,     \* where the launch stands
    launches,   \* launches so far
    cached,     \* the SDK's cachedCredential
    (* history *)
    kept        \* credentials saved and neither removed nor cleared

desktopVars == <<file, backend, launch, launches, cached, kept>>
vars == <<serverVars, desktopVars>>

Backends == {"safeStorage", "encryptedFile"}

DesktopTypeOK ==
    /\ TypeOK
    /\ file \in [Backends -> SUBSET Devices] /\ backend \in Backends
    /\ launch \in {"off", "copy", "delete", "purge", "up"} /\ launches \in 0..MaxLaunches
    /\ cached \in Devices \cup {NoOne}
    /\ kept \subseteq Devices

\* An earlier launch stored what is bound, with the keychain or without it.
DesktopInit ==
    /\ Init
    /\ \E b \in Backends : file = [a \in Backends |-> IF a = b THEN Devices \ unusedDevices ELSE {}]
    /\ backend = "encryptedFile" /\ launch = "off" /\ launches = 0 /\ cached = NoOne
    /\ kept = Devices \ unusedDevices

-----------------------------------------------------------------------------
(* Launching and quitting *)

\* selectSecureStore: without the keychain the encrypted file is used as it is;
\* a keychain that holds an entry ends the migration before it begins.
selectSecureStore(available) ==
    /\ launch = "off" /\ launches < MaxLaunches
    /\ launches' = launches + 1 /\ cached' = NoOne
    /\ backend' = IF available THEN "safeStorage" ELSE "encryptedFile"
    /\ launch' = IF available /\ file["safeStorage"] = {} /\ file["encryptedFile"] # {}
                 THEN "copy" ELSE "purge"
    /\ UNCHANGED <<serverVars, file, kept>>

Least(S) == CHOOSE d \in S : \A e \in S : d <= e

\* Slip: each entry is removed from the weaker file before it is written to the
\* keychain's, and the app may quit in between.
migrateLegacyEntriesMoving ==
    /\ launch = "copy"
    /\ file' = [file EXCEPT !["encryptedFile"] = @ \ {Least(@)}]
    /\ launch' = IF file'["encryptedFile"] = {} THEN "purge" ELSE "copy"
    /\ UNCHANGED <<serverVars, backend, launches, cached, kept>>

\* Every entry is copied, one write each, before the first is deleted.
migrateLegacyEntries ==
    /\ \/ /\ launch = "copy"
          /\ LET left == file["encryptedFile"] \ file["safeStorage"]
             IN  /\ file' = [file EXCEPT !["safeStorage"] = @ \cup {Least(left)}]
                 /\ launch' = IF Cardinality(left) = 1 THEN "delete" ELSE "copy"
       \/ /\ launch = "delete"
          /\ file' = [file EXCEPT !["encryptedFile"] = @ \ {Least(@)}]
          /\ launch' = IF file'["encryptedFile"] = {} THEN "purge" ELSE "delete"
    /\ UNCHANGED <<serverVars, backend, launches, cached, kept>>

\* storedCredential: the first of list().
storedCredential == IF file[backend] = {} THEN NoOne ELSE Least(file[backend])

clearSecureStoreNamespace ==
    file' = [file EXCEPT ![backend] = {}] /\ kept' = kept \ file[backend]

purgeExpired ==
    /\ launch = "purge" /\ launch' = "up"
    /\ IF storedCredential # NoOne /\ devices[storedCredential].expired
       THEN clearSecureStoreNamespace ELSE UNCHANGED <<file, kept>>
    /\ UNCHANGED <<serverVars, backend, launches, cached>>

\* The app quits or dies.  Its requests go on at the Worker.
Quit ==
    /\ launch # "off" /\ launch' = "off"
    /\ req' = [r \in Slots |-> IF atServer(r) THEN [req[r] EXCEPT !.own = FALSE] ELSE Idle]
    /\ cached' = NoOne
    /\ UNCHANGED <<tables, arrived, dead, redeemed, file, backend, launches, kept>>

-----------------------------------------------------------------------------
(* Requests and what the desktop does with their responses *)

\* resolveDeviceCredential: the cached credential, else the stored one, which is
\* cached from then on.
resolveDeviceCredential == IF cached # NoOne THEN cached ELSE storedCredential

Ask(r, op, about) ==
    /\ Arrive(r, op, IF op = "logout" THEN "redeem" ELSE "authenticate",
              resolveDeviceCredential, about, TRUE)
    /\ cached' = resolveDeviceCredential

\* The exchange presents the code and no credential.
DesktopRequest(r) ==
    /\ launch = "up"
    /\ \/ Ask(r, "logout", NoOne)
       \/ \E p \in Projects : Ask(r, "createCode", p)
       \/ \E d \in Devices \ unusedDevices : Ask(r, "revoke", d)
       \/ /\ \E c \in Codes : codes[c] # NoCode
                               /\ Arrive(r, "exchange", "redeem", NoOne, c, TRUE)
          /\ UNCHANGED cached
    /\ UNCHANGED <<file, backend, launch, launches, kept>>

\* A 401 is what authenticate answers; every other refusal leaves the store alone.
Answered(r, op) == req[r].own /\ At(r, op, "done")

exchangeDeviceCode(r) ==
    /\ Answered(r, "exchange")
    /\ IF req[r].answer = "ok" THEN cached' = req[r].about /\ goto(r, "save")
       ELSE req' = [req EXCEPT ![r] = Idle] /\ UNCHANGED cached
    /\ UNCHANGED <<tables, arrived, dead, redeemed, file, backend, launch, launches, kept>>

\* save, which may fail.
save(r) ==
    /\ req[r].own /\ req[r].step = "save"
    /\ \/ /\ file' = [file EXCEPT ![backend] = @ \cup {req[r].about}]
          /\ kept' = kept \cup {req[r].about}
       \/ UNCHANGED <<file, kept>>
    /\ req' = [req EXCEPT ![r] = Idle]
    /\ UNCHANGED <<tables, arrived, dead, redeemed, backend, launch, launches, cached>>

revokeDeviceAnswered(r) ==
    /\ Answered(r, "revoke") /\ req[r].answer = "ok"
    /\ file' = [file EXCEPT ![backend] = @ \ {req[r].about}]
    /\ kept' = kept \ {req[r].about}
    /\ cached' = IF cached = req[r].about THEN NoOne ELSE cached
    /\ goto(r, "clear")
    /\ UNCHANGED <<tables, arrived, dead, redeemed, backend, launch, launches>>

\* Other answers: a logout and a 401 clear the store.
answered(r) ==
    /\ req[r].own /\ req[r].step = "done" /\ req[r].op # "exchange"
    /\ req[r].op = "revoke" => req[r].answer # "ok"
    /\ IF req[r].op = "logout" \/ req[r].answer = "unauthorized" THEN goto(r, "clear")
       ELSE req' = [req EXCEPT ![r] = Idle]
    /\ UNCHANGED <<tables, arrived, dead, redeemed, desktopVars>>

clear(r) ==
    /\ req[r].own /\ req[r].step = "clear"
    /\ clearSecureStoreNamespace
    /\ req' = [req EXCEPT ![r] = Idle]
    /\ UNCHANGED <<tables, arrived, dead, redeemed, backend, launch, launches, cached>>

-----------------------------------------------------------------------------

Desktop ==
    \/ \E available \in BOOLEAN : selectSecureStore(available)
    \/ migrateLegacyEntries \/ purgeExpired \/ Quit
    \/ \E r \in Slots : \/ DesktopRequest(r) \/ exchangeDeviceCode(r) \/ save(r)
                        \/ revokeDeviceAnswered(r) \/ answered(r) \/ clear(r)

Worker ==
    /\ \/ \E r \in Slots : Serve(r) \/ BrowserRequest(r)
       \/ (\E s \in States : begin(s)) \/ Expire \/ Crash
    /\ UNCHANGED desktopVars

DesktopSpec == DesktopInit /\ [][Desktop \/ Worker]_vars

-----------------------------------------------------------------------------
(* Properties *)

\* A credential that was saved and that nobody removed is in one of the two
\* files, wherever a migration was interrupted ("The weak copy is deleted only
\* after every entry survived the move", select-backend.ts:112-114).
SavedIsKept == \A d \in kept : \E b \in Backends : d \in file[b]

\* A credential the desktop lets go, at a logout, a revocation or an expiry, is in
\* neither file ("so a stale credential can never re-authenticate on the next
\* launch", select-backend.ts:148-149).
LetGoIsGone == [][\A d \in kept \ kept' : \A b \in Backends : d \notin file'[b]]_vars
=============================================================================
