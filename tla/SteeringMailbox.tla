-------------------------- MODULE SteeringMailbox --------------------------
(***************************************************************************)
(* The path of a user's instruction to the model, for one Run: the steer   *)
(* command of the API, the mailbox it is stored in with its event          *)
(* (run-steer-mailbox.ts), and the drivers that stage messages before a    *)
(* model turn and store the turn that consumed them (RunEngine.drive,      *)
(* stageSteering).  Several drivers may hold the snapshot at once (a lease *)
(* lapsed), the version column decides; it is abstracted to the drivers    *)
(* whose copy is fresh.                                                    *)
(*                                                                         *)
(* A message is its sequence number.  Of the events there is the number of *)
(* announcements ("user_message_submitted") and deliveries.                *)
(***************************************************************************)
EXTENDS Integers, FiniteSetsExt, SequencesExt

CONSTANTS Workers,      \* processes that serve the API and drive Runs
          Drivers,      \* tasks that may drive the Run
          Attempts,     \* POSTs of a steer command
          HostOf,       \* the Worker of each driver and each attempt
          CommandOf,    \* the commandId of each attempt
          Page,         \* messages a driver reads at a time (20)
          MaxTurns,     \* bound: model turns of the Run
          MaxCrashes    \* bound: crashes of Workers

ASSUME SteeringMailboxAssumption ==
    /\ HostOf \in [Drivers \cup Attempts -> Workers]
    /\ DOMAIN CommandOf = Attempts
    /\ Page \in Nat \ {0}
    /\ {MaxTurns, MaxCrashes} \subseteq Nat

VARIABLES mailbox,    \* committed run_engine_steering_messages
          drawn,      \* the mailbox's sequence generator
          attempt,    \* each POST of a steer
          run,        \* the stored snapshot
          driver,     \* each task: where it is, its copy, what it read
          told,       \* messages that stored turns gave to the model, in order
          announced,  \* the message of each "user_message_submitted" event
          turns, crashes

steerVars == <<mailbox, drawn, attempt, announced>>
driveVars == <<run, driver, told>>
vars == <<steerVars, driveVars, turns, crashes>>

NewRun == [status |-> "running", cursor |-> 0, staged |-> <<>>]
AtLoop == [phase |-> "loop", copy |-> NewRun, fresh |-> FALSE, batch |-> <<>>]
Snapshot == [status: {"running", "waiting_user", "finished"}, cursor: Nat,
             staged: Seq(Nat)]

Init ==
    /\ mailbox = {} /\ drawn = 0 /\ announced = <<>>
    /\ attempt = [a \in Attempts |-> [phase |-> "new", sequence |-> 0]]
    /\ run = NewRun
    /\ driver = [d \in Drivers |-> AtLoop]
    /\ told = <<>>
    /\ turns = 0 /\ crashes = 0

TypeOK ==
    /\ mailbox \subseteq [sequence: 1..drawn, command: Range(CommandOf)]
    /\ attempt \in [Attempts -> [phase: {"new", "drawn", "blocked", "stored", "refused",
                                         "failed"},
                                 sequence: 0..drawn]]
    /\ run \in Snapshot
    /\ \A d \in Drivers :
         /\ driver[d].phase \in {"loop", "stage", "model"}
         /\ driver[d].copy \in Snapshot
         /\ driver[d].phase = "stage" => driver[d].batch # <<>>
    /\ announced \in Seq(1..drawn) /\ told \in Seq(1..drawn)
    /\ turns \in 0..MaxTurns /\ crashes \in 0..MaxCrashes

-----------------------------------------------------------------------------
(* The snapshot's compare-and-swap. *)

\* Any other writer's copy of the snapshot is stale from now on.
overtaken == [d \in Drivers |-> [driver[d] EXCEPT !.fresh = FALSE]]

\* Slip: the version is not compared.
saveUnchecked(d, next, phase) ==
    /\ run' = next
    /\ driver' = [overtaken EXCEPT ![d] =
         IF phase = "loop" THEN AtLoop
         ELSE [phase |-> phase, copy |-> next, fresh |-> TRUE, batch |-> <<>>]]

\* Compare-and-swap of a driver's copy: it keeps driving, or ends on a conflict.
save(d, next, phase) ==
    IF driver[d].fresh
    THEN /\ run' = next
         /\ driver' = [overtaken EXCEPT ![d] =
              IF phase = "loop" THEN AtLoop
              ELSE [phase |-> phase, copy |-> next, fresh |-> TRUE, batch |-> <<>>]]
    ELSE /\ driver' = [driver EXCEPT ![d] = AtLoop]
         /\ UNCHANGED run

-----------------------------------------------------------------------------
(* The mailbox. *)

Drawing(a) == {b \in Attempts \ {a} :
                 attempt[b].phase = "drawn" /\ CommandOf[b] = CommandOf[a]}

\* Slip: the commandId is not unique.
enqueueAgain(a) ==
    /\ attempt[a].phase = "new"
    /\ drawn' = IF run.status # "finished" THEN drawn + 1 ELSE drawn
    /\ attempt' = [attempt EXCEPT ![a] =
         IF run.status # "finished" THEN [phase |-> "drawn", sequence |-> drawn']
         ELSE [phase |-> "refused", sequence |-> 0]]
    /\ UNCHANGED <<mailbox, announced, driveVars, turns, crashes>>

\* The API reads the status: a finished Run takes only what it has already.  The
\* insert draws its sequence before it meets the index or the counter row; a
\* command that is stored is answered with its row, one that is being stored waited for.
enqueue(a) ==
    /\ attempt[a].phase = "new"
    /\ LET known == \E row \in mailbox : row.command = CommandOf[a]
           inserts == run.status # "finished"
           phase == IF known THEN "stored"
                    ELSE IF ~inserts THEN "refused"
                    ELSE IF Drawing(a) # {} THEN "blocked" ELSE "drawn"
       IN  /\ drawn' = IF inserts THEN drawn + 1 ELSE drawn
           /\ attempt' = [attempt EXCEPT ![a] =
                [phase |-> phase,
                 sequence |-> IF phase \in {"blocked", "drawn"} THEN drawn' ELSE 0]]
    /\ UNCHANGED <<mailbox, announced, driveVars, turns, crashes>>

\* The statement ends: message, event and outbox row become visible together.  A
\* statement that waited for the same command finds neither its own row nor, in
\* its older snapshot, the other one, and fails.
commitSteer(a) ==
    /\ attempt[a].phase = "drawn"
    /\ announced' = Append(announced, attempt[a].sequence)
    /\ mailbox' = mailbox \cup {[sequence |-> attempt[a].sequence,
                                 command |-> CommandOf[a]]}
    /\ attempt' = [b \in Attempts |->
         IF b = a THEN [phase |-> "stored", sequence |-> 0]
         ELSE IF CommandOf[b] = CommandOf[a] /\ attempt[b].phase = "blocked"
              THEN [phase |-> "failed", sequence |-> 0] ELSE attempt[b]]
    /\ UNCHANGED <<drawn, driveVars, turns, crashes>>

\* The other statement was rolled back: the insert goes through.
unblock(a) ==
    /\ attempt[a].phase = "blocked"
    /\ Drawing(a) = {}
    /\ attempt' = [attempt EXCEPT ![a].phase = "drawn"]
    /\ UNCHANGED <<mailbox, drawn, announced, driveVars, turns, crashes>>

-----------------------------------------------------------------------------
(* The driver, as far as the mailbox goes. *)

unread(cursor) == {row.sequence : row \in {r \in mailbox : r.sequence > cursor}}

\* The first rows after the cursor, in order.
readAfter(cursor) ==
    LET rank(x) == Cardinality({y \in unread(cursor) : y < x})
    IN  [k \in 1..Min({Page, Cardinality(unread(cursor))}) |->
          CHOOSE x \in unread(cursor) : rank(x) = k - 1]

\* The head of the loop, of a driver at work or of one that just got the lease: it
\* reads the snapshot again, then the mailbox.
readMailbox(d) ==
    /\ driver[d].phase = "loop"
    /\ run.status = "running"
    /\ driver' = [driver EXCEPT ![d] =
         [phase |-> IF readAfter(run.cursor) = <<>> THEN "model" ELSE "stage",
          copy |-> run, fresh |-> TRUE, batch |-> readAfter(run.cursor)]]
    /\ UNCHANGED <<steerVars, run, told, turns, crashes>>

\* Slip: the cursor is not moved with what was read.
stageSteeringAgain(d) ==
    /\ driver[d].phase = "stage"
    /\ save(d, [driver[d].copy EXCEPT !.staged = @ \o driver[d].batch], "model")
    /\ UNCHANGED <<steerVars, told, turns, crashes>>

\* What was read goes into the snapshot with the new cursor, in one write.
stageSteering(d) ==
    /\ driver[d].phase = "stage"
    /\ save(d, [driver[d].copy EXCEPT !.staged = @ \o driver[d].batch,
                                      !.cursor = Last(driver[d].batch)], "model")
    /\ UNCHANGED <<steerVars, told, turns, crashes>>

\* The lease is found lost at the renewal before the write.
leaseLost(d) ==
    /\ driver[d].phase = "stage"
    /\ driver' = [driver EXCEPT ![d] = AtLoop]
    /\ UNCHANGED <<steerVars, run, told, turns, crashes>>

\* The model answers with a tool call, a question or the end.  Either way the
\* turn that is stored has consumed what was staged for it.
turn(d) ==
    /\ driver[d].phase = "model"
    /\ turns < MaxTurns
    /\ turns' = turns + 1
    /\ \E status \in {"running", "waiting_user", "finished"} :
         save(d, [driver[d].copy EXCEPT !.staged = <<>>, !.status = status], "loop")
    /\ told' = IF driver[d].fresh THEN told \o driver[d].copy.staged ELSE told
    /\ UNCHANGED <<steerVars, crashes>>

\* A write of a command: the user's answer, or a cancellation.
answer ==
    /\ run.status = "waiting_user"
    /\ run' = [run EXCEPT !.status = "running"]
    /\ driver' = overtaken
    /\ UNCHANGED <<steerVars, told, turns, crashes>>

cancel ==
    /\ run.status # "finished"
    /\ run' = [run EXCEPT !.status = "finished"]
    /\ driver' = overtaken
    /\ UNCHANGED <<steerVars, told, turns, crashes>>

\* A Worker dies: its open statements roll back, its tasks are gone.
crash(w) ==
    /\ crashes < MaxCrashes
    /\ crashes' = crashes + 1
    /\ attempt' = [a \in Attempts |->
         IF HostOf[a] = w /\ attempt[a].phase \in {"drawn", "blocked"}
         THEN [phase |-> "failed", sequence |-> 0] ELSE attempt[a]]
    /\ driver' = [d \in Drivers |-> IF HostOf[d] = w THEN AtLoop ELSE driver[d]]
    /\ UNCHANGED <<mailbox, drawn, announced, run, told, turns>>

-----------------------------------------------------------------------------
steer(a) == enqueue(a) \/ commitSteer(a) \/ unblock(a)

drive(d) ==
    readMailbox(d) \/ stageSteering(d) \/ leaseLost(d) \/ turn(d)

Next ==
    \/ \E a \in Attempts : steer(a)
    \/ \E d \in Drivers : drive(d)
    \/ answer \/ cancel
    \/ \E w \in Workers : crash(w)

Spec == Init /\ [][Next]_vars

-----------------------------------------------------------------------------
(* Properties. *)

\* What the model is told, turn after turn, are messages in the order of their
\* sequence and none twice, whatever drivers overlap, crash or lose their lease
\* between reading the mailbox and storing the turn (stageSteering, drive).
InstructionsInOrder ==
    LET given == told \o run.staged
    IN  \A i, j \in DOMAIN given : i < j => given[i] < given[j]

\* A command that was sent several times, at the same time or after a crash of the
\* Worker that served it, is one message with one event, and a sender that was told
\* it is stored can rely on it (enqueue).
OneMessagePerCommand ==
    /\ \A r1, r2 \in mailbox : r1.command = r2.command => r1 = r2
    /\ \A i, j \in DOMAIN announced : announced[i] = announced[j] => i = j
    /\ Range(announced) = {row.sequence : row \in mailbox}
    /\ \A a \in Attempts : attempt[a].phase = "stored" =>
         \E row \in mailbox : row.command = CommandOf[a]

\* An instruction that reached the mailbox stays on its way: what a stored snapshot
\* has staged is told by a later turn or still staged, never dropped by a turn that
\* was decided without it.
StagedIsTold ==
    [][\A m \in Range(run.staged) : m \in Range(told' \o run'.staged)]_vars

\* No message that could be read is left behind the cursor without having been
\* staged.
NoInstructionSkipped ==
    \A row \in mailbox : row.sequence <= run.cursor =>
        row.sequence \in Range(told \o run.staged)
=============================================================================
