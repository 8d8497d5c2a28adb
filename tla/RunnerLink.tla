----------------------------- MODULE RunnerLink -----------------------------
(***************************************************************************)
(* The link between a Worker and one desktop device: HostSession and the   *)
(* gateway (packages/runner-protocol/src/host-session.ts,                  *)
(* apps/worker/src/runner-gateway.ts) on one side, RunnerSession, its      *)
(* command dedupe table, replay window, broker and journal                 *)
(* (runner-session.ts, command-dedupe.ts, event-window.ts,                 *)
(* apps/desktop/src/main) on the other.  Each socket carries frames in     *)
(* order until it is cut, which the two ends notice separately; the frames *)
(* on the way are lost.                                                    *)
(*                                                                         *)
(* A call is one env.perform of the engine; its command id may collide     *)
(* with another's, so a command carries the call it stands for.            *)
(* Heartbeats appear only as the timeout they cause, results are the only  *)
(* upward frames (nothing in src/ emits events), table and window keep all *)
(* entries (512 and 256 in the code).                                      *)
(***************************************************************************)
EXTENDS Integers, FiniteSetsExt, SequencesExt

CONSTANTS MaxCalls,     \* bound: calls of the engine, numbered in order
          MaxAborts,    \* bound: calls whose AbortSignal fires
          MaxSockets,   \* bound: connections the device opens
          MaxRestarts   \* bound: restarts of the Worker or the desktop process

ASSUME RunnerLinkAssumption ==
    {MaxCalls, MaxAborts, MaxSockets, MaxRestarts} \subseteq Nat

Calls == 1..MaxCalls
Sockets == 1..MaxSockets
Ids == 1..(MaxCalls + MaxAborts)
Outcomes == Calls \cup {0}   \* the call that was executed; 0: an env.abort

VARIABLES runner,    \* RunnerSession and its broker
          command,   \* the dedupe table and what its handlers do
          window,    \* upward frames not acknowledged, and the last cursor
          journal,   \* the call of every command that is durably started
          session,   \* HostSession of each socket
          gateway,   \* the gateway's entries for the device
          answer,    \* what the caller of a call was told
          up, down,  \* frames on the way to the Worker, to the device
          cut,       \* sockets whose transport is dead
          restarts

runnerVars == <<runner, command, window, journal>>
hostVars == <<session, gateway, answer>>
wireVars == <<up, down, cut>>
vars == <<runnerVars, hostVars, wireVars, restarts>>

Unknown == [status |-> "unknown", call |-> 0, aborted |-> FALSE]
NoSession == [phase |-> "none", authenticating |-> FALSE, resume |-> 0, next |-> 0,
              consumed |-> 0, acked |-> 0, pending |-> {}]
NoGateway == [route |-> 0, next |-> 1, consumed |-> 0]

ResultFrames == [kind: {"result"}, id: Ids, cursor: Nat \ {0}, outcome: Outcomes]

UpFrames == [kind: {"hello"}, last: Ids \cup {0}] \cup [kind: {"goodbye"}]
    \cup ResultFrames

DownFrames == [kind: {"welcome"}, from: Nat \ {0}] \cup [kind: {"goodbye", "nack"}]
    \cup [kind: {"command"}, op: {"perform"}, id: Ids, call: Calls]
    \cup [kind: {"command"}, op: {"abort"}, id: Ids, target: Ids]
    \cup [kind: {"ack"}, cursor: Nat \ {0}]

(* Why a session is closed; what matters is whether the device may retry.   *)
RunnerCloseCode == [shutdown |-> 4000, revoked |-> 4001]

TypeOK ==
    /\ runner \in [socket: Sockets \cup {0}, welcomed: BOOLEAN, terminated: BOOLEAN,
                   last: Ids \cup {0}, retry: BOOLEAN,
                   state: {"connecting", "live", "reconnecting", "stopped"}]
    /\ command \in [Ids -> [status: {"unknown", "accepted", "running", "settled"},
                            call: Outcomes, aborted: BOOLEAN]]
    /\ journal \in [Ids -> Calls \cup {0}]
    /\ \A c \in Sockets : session[c].pending \subseteq [id: Ids, call: Calls]
    /\ gateway.route \in Sockets \cup {0}
    /\ \A c \in Sockets : \A i \in DOMAIN up[c] : up[c][i] \in UpFrames
    /\ \A c \in Sockets : \A i \in DOMAIN down[c] : down[c][i] \in DownFrames

Init ==
    /\ runner = [socket |-> 0, welcomed |-> FALSE, terminated |-> FALSE, last |-> 0,
                 retry |-> TRUE, state |-> "connecting"]
    /\ command = [i \in Ids |-> Unknown]
    /\ window = [frames |-> <<>>, cursor |-> 0]
    /\ journal = [i \in Ids |-> 0]
    /\ session = [c \in Sockets |-> NoSession]
    /\ gateway = NoGateway
    /\ answer = [k \in Calls |-> [status |-> "none", by |-> 0]]
    /\ up = [c \in Sockets |-> <<>>] /\ down = [c \in Sockets |-> <<>>]
    /\ cut = {}
    /\ restarts = 0

-----------------------------------------------------------------------------
(* The wire.  What is sent on a dead socket, or to an end that closed it,   *)
(* goes nowhere.                                                            *)
Reaches(c) == c # 0 /\ c \notin cut
Hears(c) == Reaches(c) /\ session[c].phase # "closed"

SendUp(q, c, frames) == IF Hears(c) THEN [q EXCEPT ![c] = @ \o frames] ELSE q
SendDown(q, c, frame) ==
    IF Reaches(c) /\ runner.socket = c THEN [q EXCEPT ![c] = Append(@, frame)] ELSE q

Pop(q, c) == [q EXCEPT ![c] = Tail(@)]
Arrives(q, c, kind) == c # 0 /\ q[c] # <<>> /\ Head(q[c]).kind = kind

drop(c) ==
    /\ session[c].phase # "none" /\ c \notin cut
    /\ cut' = cut \cup {c}
    /\ up' = [up EXCEPT ![c] = <<>>] /\ down' = [down EXCEPT ![c] = <<>>]
    /\ UNCHANGED <<runnerVars, hostVars, restarts>>

-----------------------------------------------------------------------------
(* The device.                                                              *)
InFlight == {i \in Ids : command[i].status \in {"accepted", "running"}}

(* disconnect: abort what runs, forget the socket.                          *)
disconnectOnly == UNCHANGED command           \* slip: handlers run on

disconnect ==
    command' = [i \in Ids |-> IF i \in InFlight THEN [command[i] EXCEPT !.aborted = TRUE]
                              ELSE command[i]]

(* onDisconnect of the broker: a dead credential stops it, anything else is *)
(* retried.                                                                 *)
Offline(code) ==
    LET dead == code = RunnerCloseCode.revoked
    IN  [runner EXCEPT !.socket = 0, !.welcomed = FALSE, !.retry = ~dead,
                       !.state = IF dead THEN "stopped" ELSE "reconnecting"]

(* close of the RunnerSession: for good.                                    *)
closeRunner(c, code) ==
    /\ disconnect
    /\ runner' = [Offline(code) EXCEPT !.terminated = TRUE]
    /\ up' = SendUp(up, c, <<[kind |-> "goodbye"]>>)
    /\ down' = [down EXCEPT ![c] = <<>>]
    /\ UNCHANGED <<window, journal, hostVars, cut, restarts>>

(* The HTTP server of the Worker hands an upgraded connection to the gateway. *)
upgrade(c) == session' = [session EXCEPT ![c].phase = "hello"]

(* openConnection; connect of a terminated session does nothing, and nobody *)
(* schedules another retry.  The gateway accepts the socket.                *)
connect(c) ==
    /\ runner.retry /\ session[c].phase = "none"
    /\ \A d \in 1..(c - 1) : session[d].phase # "none"
    /\ IF runner.terminated
       THEN /\ runner' = [runner EXCEPT !.retry = FALSE]
            /\ UNCHANGED <<session, up>>
       ELSE /\ runner' = [runner EXCEPT !.retry = FALSE, !.socket = c]
            /\ upgrade(c)
            /\ up' = [up EXCEPT ![c] = <<[kind |-> "hello", last |-> runner.last]>>]
    /\ UNCHANGED <<command, window, journal, gateway, answer, down, cut, restarts>>

runnerNotices ==
    /\ runner.socket \in cut
    /\ disconnect
    /\ runner' = Offline(RunnerCloseCode.shutdown)
    /\ UNCHANGED <<window, journal, hostVars, wireVars, restarts>>

(* The frames after a cursor.  Cursors are drawn one by one, never again,   *)
(* and only the oldest frames are forgotten, so these are the last ones.    *)
After(n) ==
    LET first == Len(window.frames) - (window.cursor - n) + 1
    IN  SubSeq(window.frames, IF first < 1 THEN 1 ELSE first, Len(window.frames))

(* Replays what the Worker has not consumed.                                *)
welcome ==
    LET c == runner.socket
    IN  /\ Arrives(down, c, "welcome")
        /\ down' = Pop(down, c)
        /\ runner' = [runner EXCEPT !.welcomed = TRUE, !.state = "live"]
        /\ up' = SendUp(up, c, After(Head(down[c]).from - 1))
        /\ UNCHANGED <<command, window, journal, hostVars, cut, restarts>>

ack ==
    LET c == runner.socket
    IN  /\ Arrives(down, c, "ack")
        /\ down' = Pop(down, c)
        /\ window' = [window EXCEPT !.frames = After(Head(down[c]).cursor)]
        /\ UNCHANGED <<runner, command, journal, hostVars, up, cut, restarts>>

goodbye ==
    LET c == runner.socket
    IN  \/ Arrives(down, c, "goodbye") /\ closeRunner(c, RunnerCloseCode.shutdown)
        \/ Arrives(down, c, "nack") /\ closeRunner(c, RunnerCloseCode.revoked)

record(i, outcome) ==
    LET f == [kind |-> "result", id |-> i, cursor |-> window.cursor + 1,
              outcome |-> outcome]
    IN  /\ window' = [frames |-> Append(window.frames, f), cursor |-> window.cursor + 1]
        /\ up' = SendUp(up, runner.socket, <<f>>)

Settled(i, outcome) ==
    [command EXCEPT ![i] = [Unknown EXCEPT !.status = "settled", !.call = outcome]]

(* serveCommand: an unknown id executes, a settled one is answered from the *)
(* table, one that is executing is attached to.  env.abort executes at      *)
(* once.                                                                    *)
serveCommand ==
    LET c == runner.socket
        f == Head(down[c])
        known == command[f.id]
    IN  /\ Arrives(down, c, "command")
        /\ down' = Pop(down, c)
        /\ runner' = [runner EXCEPT !.last = IF f.id > @ THEN f.id ELSE @]
        /\ CASE ~runner.welcomed \/ f.id \in InFlight ->
                  UNCHANGED <<command, window, up>>
             [] known.status = "settled" /\ runner.welcomed ->
                  /\ record(f.id, known.call)
                  /\ UNCHANGED command
             [] known.status = "unknown" /\ f.op = "perform" /\ runner.welcomed ->
                  /\ command' = [command EXCEPT ![f.id] =
                                   [Unknown EXCEPT !.status = "accepted", !.call = f.call]]
                  /\ UNCHANGED <<window, up>>
             [] OTHER ->
                  /\ command' = [Settled(f.id, 0) EXCEPT ![f.target].aborted =
                                    @ \/ f.target \in InFlight]
                  /\ record(f.id, 0)
        /\ UNCHANGED <<journal, hostVars, cut, restarts>>

(* The handler refuses: no such handle in this process.                     *)
refuse(i) ==
    /\ command[i].status = "accepted"
    /\ command' = Settled(i, command[i].call)
    /\ record(i, command[i].call)
    /\ UNCHANGED <<runner, journal, hostVars, down, cut, restarts>>

(* beginCommand is durable before the effect starts.                        *)
beginCommand(i) ==
    /\ command[i].status = "accepted"
    /\ command' = [command EXCEPT ![i].status = "running"]
    /\ journal' = [journal EXCEPT ![i] = command[i].call]
    /\ UNCHANGED <<runner, window, hostVars, wireVars, restarts>>

(* The effect ended or failed; settleCommand, then the result.              *)
settleCommand(i) ==
    /\ command[i].status = "running"
    /\ command' = Settled(i, command[i].call)
    /\ record(i, command[i].call)
    /\ UNCHANGED <<runner, journal, hostVars, down, cut, restarts>>

(* The desktop process dies and is launched again: recoverRunState answers  *)
(* interrupted commands with a failure and gives the highest id as resume   *)
(* hint.                                                                    *)
relaunch ==
    LET known == {i \in Ids : journal[i] # 0}
    IN  /\ restarts < MaxRestarts /\ restarts' = restarts + 1
        /\ runner' = [socket |-> 0, welcomed |-> FALSE, terminated |-> FALSE,
                      last |-> Max(known \cup {0}), retry |-> TRUE, state |-> "connecting"]
        /\ command' = [i \in Ids |->
                IF i \in known
                THEN [Unknown EXCEPT !.status = "settled", !.call = journal[i]]
                ELSE Unknown]
        /\ window' = [frames |-> <<>>, cursor |-> 0]
        /\ cut' = cut \cup ({runner.socket} \ {0})
        /\ up' = [c \in Sockets |-> IF c = runner.socket THEN <<>> ELSE up[c]]
        /\ down' = [c \in Sockets |-> <<>>]
        /\ UNCHANGED <<journal, hostVars>>

-----------------------------------------------------------------------------
(* The Worker.                                                              *)
Callers(c) == {p.call : p \in session[c].pending}

(* finish: reject who waits, leave the routing table if it points here.     *)
Finish(cs) ==
    /\ session' = [c \in Sockets |->
          IF c \in cs THEN [NoSession EXCEPT !.phase = "closed",
                               !.authenticating = session[c].authenticating]
          ELSE session[c]]
    /\ answer' = [k \in Calls |-> IF \E c \in cs : k \in Callers(c)
                                  THEN [status |-> "rejected", by |-> 0] ELSE answer[k]]

Unroute(cs) == gateway' = IF gateway.route \in cs THEN [gateway EXCEPT !.route = 0]
                          ELSE gateway

(* close: every reason to close is announced by a goodbye.                  *)
closeHost(c) ==
    /\ Finish({c}) /\ Unroute({c})
    /\ up' = [up EXCEPT ![c] = <<>>]
    /\ down' = SendDown(down, c, [kind |-> "goodbye"])

Open == {c \in Sockets : session[c].phase \in {"hello", "open"}}

hostNotices(c) ==
    /\ c \in Open
    /\ \/ c \in cut /\ UNCHANGED up
       \/ Arrives(up, c, "goodbye") /\ up' = Pop(up, c)
    /\ Finish({c}) /\ Unroute({c})
    /\ UNCHANGED <<runnerVars, down, cut, restarts>>

(* Before the identity is set a hello starts an authentication, every other *)
(* frame is refused.                                                        *)
handleUnauthenticated(c) ==
    /\ session[c].phase = "hello"
    /\ \/ /\ Arrives(up, c, "hello")
          /\ session' = [session EXCEPT ![c].authenticating = TRUE,
                                        ![c].resume = Head(up[c]).last]
          /\ UNCHANGED down
       \/ /\ Arrives(up, c, "result")
          /\ down' = SendDown(down, c, [kind |-> "nack"])
          /\ UNCHANGED session
    /\ up' = Pop(up, c)
    /\ UNCHANGED <<gateway, answer, runnerVars, cut, restarts>>

(* Slip: the mark of the Runner is not consulted.                           *)
initialOwnId(c) == gateway.next

initialCommandId(c) == Max({gateway.next, session[c].resume + 1})

(* The credential was looked up.  The session is registered even when its   *)
(* socket closed meanwhile.                                                 *)
authenticated(c) ==
    /\ session[c].authenticating
    /\ gateway' = [gateway EXCEPT !.route = c]
    /\ IF session[c].phase = "closed"
       THEN /\ session' = [session EXCEPT ![c].authenticating = FALSE]
            /\ UNCHANGED down
       ELSE /\ session' = [session EXCEPT ![c] = [NoSession EXCEPT
                  !.phase = "open", !.next = initialCommandId(c),
                  !.consumed = gateway.consumed, !.acked = gateway.consumed]]
            /\ down' = SendDown(down, c, [kind |-> "welcome",
                                         from |-> gateway.consumed + 1])
    /\ UNCHANGED <<answer, runnerVars, up, cut, restarts>>

(* The device is revoked or expired, or the lookup failed.                  *)
rejected(c) ==
    /\ session[c].authenticating
    /\ IF session[c].phase = "closed"
       THEN /\ session' = [session EXCEPT ![c].authenticating = FALSE]
            /\ UNCHANGED <<gateway, answer, up, down>>
       ELSE /\ session' = [session EXCEPT ![c] = [NoSession EXCEPT !.phase = "closed"]]
            /\ down' = SendDown(down, c, [kind |-> "nack"])
            /\ up' = [up EXCEPT ![c] = <<>>]
            /\ UNCHANGED <<gateway, answer>>
    /\ UNCHANGED <<runnerVars, cut, restarts>>

Issue(c, frame) ==
    /\ gateway' = [gateway EXCEPT !.next = session[c].next + 1]
    /\ down' = SendDown(down, c, frame)

(* RemoteRunnerEnvironment looks the session up for every call.             *)
call(k) ==
    LET c == gateway.route
        id == session[c].next
    IN  /\ answer[k].status = "none" /\ \A j \in 1..(k - 1) : answer[j].status # "none"
        /\ c # 0 /\ session[c].phase = "open"
        /\ answer' = [answer EXCEPT ![k].status = "waiting"]
        /\ session' = [session EXCEPT ![c].next = id + 1,
                                      ![c].pending = @ \cup {[id |-> id, call |-> k]}]
        /\ Issue(c, [kind |-> "command", op |-> "perform", id |-> id, call |-> k])
        /\ UNCHANGED <<runnerVars, up, cut, restarts>>

(* The AbortSignal of a call fires.                                         *)
abortBorrowed(c, p) ==          \* slip: the abort carries the id of its target
    /\ p \in session[c].pending
    /\ answer' = [answer EXCEPT ![p.call].status = "aborted"]
    /\ session' = [session EXCEPT ![c].pending = @ \ {p}]
    /\ down' = SendDown(down, c, [kind |-> "command", op |-> "abort", id |-> p.id,
                                  target |-> p.id])
    /\ UNCHANGED <<gateway, runnerVars, up, cut, restarts>>

abort(c, p) ==
    LET id == session[c].next
    IN  /\ p \in session[c].pending
        /\ Cardinality({k \in Calls : answer[k].status = "aborted"}) < MaxAborts
        /\ answer' = [answer EXCEPT ![p.call].status = "aborted"]
        /\ session' = [session EXCEPT ![c].next = id + 1, ![c].pending = @ \ {p}]
        /\ Issue(c, [kind |-> "command", op |-> "abort", id |-> id, target |-> p.id])
        /\ UNCHANGED <<runnerVars, up, cut, restarts>>

(* A result answers the call that waits under its id and moves the cursor.  *)
result(c) ==
    LET f == Head(up[c])
        waiting == {p \in session[c].pending : p.id = f.id}
        consumed == Max({session[c].consumed, f.cursor})
    IN  /\ session[c].phase = "open" /\ Arrives(up, c, "result")
        /\ up' = Pop(up, c)
        /\ session' = [session EXCEPT ![c].pending = @ \ waiting,
                                      ![c].consumed = consumed]
        /\ answer' = [k \in Calls |-> IF k \in {p.call : p \in waiting}
                        THEN [status |-> "answered", by |-> f.outcome] ELSE answer[k]]
        /\ gateway' = IF consumed > session[c].consumed
                      THEN [gateway EXCEPT !.consumed = consumed] ELSE gateway
        /\ UNCHANGED <<runnerVars, down, cut, restarts>>

(* tick visits the session in the routing table, and those not yet          *)
(* authenticated: it acknowledges, and drops a silent or revoked device.    *)
tickAck ==
    LET c == gateway.route
    IN  /\ c # 0 /\ session[c].phase = "open"
        /\ session[c].consumed > session[c].acked
        /\ session' = [session EXCEPT ![c].acked = session[c].consumed]
        /\ down' = SendDown(down, c, [kind |-> "ack", cursor |-> session[c].consumed])
        /\ UNCHANGED <<gateway, answer, runnerVars, up, cut, restarts>>

tickClose(c) ==
    /\ c \in Open
    /\ session[c].phase = "hello" \/ gateway.route = c
    /\ closeHost(c)
    /\ UNCHANGED <<runnerVars, cut, restarts>>

(* stop says goodbye to the pending and the routed sessions; a crash cuts   *)
(* every socket.  The next Worker process knows nothing of the device.      *)
stopWorker ==
    LET told == {c \in Open : session[c].phase = "hello" \/ gateway.route = c}
    IN  /\ restarts < MaxRestarts /\ restarts' = restarts + 1
        /\ session' = [c \in Sockets |-> IF session[c].phase = "none" THEN NoSession
                                         ELSE [NoSession EXCEPT !.phase = "closed"]]
        /\ answer' = [k \in Calls |-> IF answer[k].status = "waiting"
                        THEN [status |-> "rejected", by |-> 0] ELSE answer[k]]
        /\ gateway' = NoGateway
        /\ up' = [c \in Sockets |-> <<>>]
        /\ \/ /\ down' = [c \in Sockets |->
                    IF c \in told THEN SendDown(down, c, [kind |-> "goodbye"])[c]
                    ELSE down[c]]
              /\ cut' = cut \cup (Open \ told)
           \/ /\ down' = [c \in Sockets |-> <<>>]
              /\ cut' = cut \cup {c \in Sockets : session[c].phase # "none"}
        /\ UNCHANGED runnerVars

Device == \/ runnerNotices \/ welcome \/ ack \/ goodbye \/ serveCommand \/ relaunch
          \/ \E i \in Ids : refuse(i) \/ beginCommand(i) \/ settleCommand(i)

Worker == \/ tickAck \/ stopWorker
          \/ \E k \in Calls : call(k)
          \/ \E c \in Sockets :
               \/ hostNotices(c) \/ handleUnauthenticated(c) \/ authenticated(c)
               \/ rejected(c) \/ result(c) \/ tickClose(c)
               \/ \E p \in session[c].pending : abort(c, p)

Next == Device \/ Worker \/ \E c \in Sockets : connect(c) \/ drop(c)

Spec == Init /\ [][Next]_vars

-----------------------------------------------------------------------------
(* A call is answered with the outcome of its own execution, never with one *)
(* the device remembers or replays from an earlier command, through any     *)
(* reconnects, relaunches and Worker restarts.                              *)
AnsweredByOwnExecution ==
    \A k \in Calls : answer[k].status = "answered" => answer[k].by = k

(* What runs on the user's machine and was not told to stop has somebody    *)
(* who waits for it at the other end of the current socket, or the order to *)
(* stop, or the end of the connection, is on its way.                       *)
NothingRunsUnattended ==
    \A i \in InFlight :
        ~command[i].aborted =>
            LET c == runner.socket
            IN  /\ c # 0
                /\ \/ [id |-> i, call |-> command[i].call] \in session[c].pending
                   \/ c \in cut
                   \/ \E n \in DOMAIN down[c] :
                        \/ down[c][n].kind \in {"goodbye", "nack"}
                        \/ down[c][n].kind = "command" /\ down[c][n].op = "abort"
                             /\ down[c][n].target = i

(* A device shown as reconnecting can reconnect.                            *)
ReconnectingCanReconnect == runner.state = "reconnecting" => ~runner.terminated

(* When no authentication is under way, a device that was welcomed on a     *)
(* socket both ends hold is the one the gateway routes to.                  *)
LiveIsRouted ==
    LET c == runner.socket
    IN  (/\ runner.welcomed /\ c \notin cut /\ session[c].phase = "open"
         /\ \A d \in Sockets : ~session[d].authenticating) => gateway.route = c
=============================================================================
