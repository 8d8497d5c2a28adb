-------------------------- MODULE LocalRunnerProofs --------------------------
(***************************************************************************)
(* Proofs about LocalRunner for any Runs, scopes, tiers, arguments,        *)
(* commands and launches, however the commands of a Run overlap: none is   *)
(* executed twice, what one touches was agreed to as far as its tier goes, *)
(* a discard on record has taken place, and what the server was told is    *)
(* done is done.                                                           *)
(***************************************************************************)
EXTENDS LocalRunner, TLAPS

Granted == Scopes \cup {"none"}

Types ==
    /\ sent \in Seq(Command) /\ Len(sent) <= MaxCommands
    /\ answers \in [Ids -> Verdicts \cup {"none"}]
    /\ journal \in Seq(Record)
    /\ stored \in [Runs -> Granted]
    /\ tree \in [Runs -> SUBSET Ids]
    /\ launches \in 1..MaxLaunches
    /\ entries \in [Ids -> {"unknown", "running"} \cup Verdicts]
    /\ step \in [Ids -> Steps]
    /\ held \in [Ids -> Granted]
    /\ prepared \in [Runs -> Granted]
    /\ runs \subseteq Runs
    /\ decision \in [Runs -> Outcomes \cup {"none"}]
    /\ consents \in [Runs -> SUBSET Scopes]
    /\ ran \in [Ids -> {0, 1}]
    /\ reached \subseteq DOMAIN sent
    /\ found \in [Ids -> SUBSET Ids]
    /\ discarded \subseteq Ids
    /\ \A id \in Ids : step[id] # "idle" => entries[id] = "running"
    /\ \A id \in Ids : entries[id] # "unknown" => id \in DOMAIN sent

\* What a journal says of a Run has a last word.
HasLast(kinds, r) ==
    LET at == {i \in DOMAIN journal : journal[i].kind \in kinds /\ journal[i].run = r}
    IN  at = {} \/ \E i \in at : \A j \in at : j <= i

Ended == {"prepared", "resolved"}

JournalInv ==
    /\ \A r \in Runs : HasLast(Ended, r)
    /\ \A i \in DOMAIN journal : journal[i].kind \in {"started", "settled"} =>
         /\ journal[i].id \in DOMAIN sent /\ journal[i].run = run(journal[i].id)
         /\ started(journal[i].id)

\* What ran is on record as started, and what is on record is known; a handler that
\* has just begun ran nothing.
StartedInv ==
    \A id \in Ids :
        /\ ran[id] = 1 => started(id)
        /\ started(id) => entries[id] # "unknown"
        /\ entries[id] = "running" => started(id)
        /\ step[id] = "begun" => ran[id] = 0

\* Every grant in use was agreed to for its Run.
ConsentInv ==
    /\ \A r \in Runs : {stored[r], prepared[r]} \subseteq consents[r] \cup {"none"}
    /\ \A id \in Ids : step[id] = "idle" => held[id] = "none"
    /\ \A id \in DOMAIN sent :
         /\ held[id] \in consents[run(id)] \cup {"none"}
         /\ step[id] \in {"granted", "added"} => held[id] # "none"
         /\ step[id] = "begun" /\ op(id) # "prepare" => held[id] # "none"
         /\ step[id] = "spawned" => held[id] # "none" /\ op(id) = "perform"
                                    /\ plan(held[id], sent[id].arg)

IInv == Types /\ JournalInv /\ StartedInv /\ ConsentInv /\ ConfinedToConsent

-----------------------------------------------------------------------------
\* Data.

LEMMA CommandType ==
  ASSUME NEW c \in Command
  PROVE  /\ c.op \in {"prepare", "perform", "inspect", "dispose"} /\ c.run \in Runs
         /\ c.op = "prepare" => c.arg \in Scopes
         /\ c.op = "perform" => c.arg \in Arguments
         /\ c.op = "dispose" => c.arg \in Outcomes
BY DEF Command

LEMMA SentType ==
  ASSUME Types, NEW id \in DOMAIN sent
  PROVE  /\ id \in Ids /\ run(id) \in Runs
         /\ op(id) \in {"prepare", "perform", "inspect", "dispose"}
         /\ op(id) = "prepare" => sent[id].arg \in Scopes
         /\ op(id) = "perform" => sent[id].arg \in Arguments
         /\ op(id) = "dispose" => sent[id].arg \in Outcomes
<1>1. sent \in Seq(Command) /\ Len(sent) <= MaxCommands /\ MaxCommands \in Nat
  BY RunnerAssumption DEF Types
<1>2. sent[id] \in Command /\ id \in Ids
  BY <1>1 DEF Ids
<1> QED BY <1>2, CommandType DEF run, op

LEMMA RecordType ==
  /\ \A r \in Runs, id \in Ids : [kind |-> "started", run |-> r, id |-> id] \in Record
  /\ \A r \in Runs, id \in Ids, v \in Written :
        [kind |-> "settled", run |-> r, id |-> id, verdict |-> v] \in Record
  /\ \A r \in Runs : [kind |-> "prepared", run |-> r] \in Record
  /\ \A r \in Runs, o \in Outcomes : [kind |-> "resolved", run |-> r, outcome |-> o] \in Record
BY DEF Record

LEMMA EntryType ==
  ASSUME NEW e \in Record
  PROVE  /\ e.kind \in {"started", "settled", "prepared", "resolved"} /\ e.run \in Runs
         /\ e.kind \in {"started", "settled"} => e.id \in Ids
         /\ e.kind = "settled" => e.verdict \in Written
         /\ e.kind = "resolved" => e.outcome \in Outcomes
BY DEF Record

\* The journal after an append.
LEMMA Appended ==
  ASSUME journal \in Seq(Record), NEW e \in Record, append(e)
  PROVE  /\ journal' \in Seq(Record)
         /\ DOMAIN journal' = DOMAIN journal \cup {Len(journal) + 1}
         /\ Len(journal) + 1 \notin DOMAIN journal
         /\ \A i \in DOMAIN journal : journal'[i] = journal[i] /\ i < Len(journal) + 1
         /\ journal'[Len(journal) + 1] = e
BY DEF append

LEMMA StartedAfter ==
  ASSUME journal \in Seq(Record), NEW e \in Record, append(e), NEW id
  PROVE  started(id)' <=> started(id) \/ (e.kind = "started" /\ e.id = id)
BY Appended DEF started, recorded

LEMMA SettledAfter ==
  ASSUME journal \in Seq(Record), NEW e \in Record, append(e), NEW id
  PROVE  settled(id)' = settled(id) \cup
           (IF e.kind = "settled" /\ e.id = id THEN {e.verdict} ELSE {})
<1> DEFINE of(j) == {i \in DOMAIN j : j[i].kind = "settled" /\ j[i].id = id}
<1>1. settled(id) = {journal[i].verdict : i \in of(journal)}
  BY DEF settled, recorded
<1>2. settled(id)' = {journal'[i].verdict : i \in of(journal')}
  BY DEF settled, recorded
<1>3. of(journal') = of(journal) \cup
        (IF e.kind = "settled" /\ e.id = id THEN {Len(journal) + 1} ELSE {})
  BY Appended
<1>4. \A i \in of(journal) : journal'[i] = journal[i]
  BY Appended
<1>5. journal'[Len(journal) + 1] = e
  BY Appended
<1> HIDE DEF of
<1> QED BY <1>1, <1>2, <1>3, <1>4, <1>5

LEMMA LastAfter ==
  ASSUME journal \in Seq(Record), NEW e \in Record, append(e), NEW r,
         HasLast(Ended, r)
  PROVE  /\ HasLast(Ended, r)'
         /\ last(Ended, r)' = IF e.kind \in Ended /\ e.run = r THEN e ELSE last(Ended, r)
<1> DEFINE n == Len(journal) + 1
           at == {i \in DOMAIN journal : journal[i].kind \in Ended /\ journal[i].run = r}
           after == {i \in DOMAIN journal' : journal'[i].kind \in Ended /\ journal'[i].run = r}
           top(S) == CHOOSE i \in S : \A j \in S : j <= i
<1>1. /\ HasLast(Ended, r) <=> (at = {} \/ \E i \in at : \A j \in at : j <= i)
      /\ HasLast(Ended, r)' <=> (after = {} \/ \E i \in after : \A j \in after : j <= i)
      /\ last(Ended, r) = IF at = {} THEN [kind |-> "nothing"] ELSE journal[top(at)]
      /\ last(Ended, r)' = IF after = {} THEN [kind |-> "nothing"] ELSE journal'[top(after)]
  BY DEF HasLast, last
<1>2. at \subseteq DOMAIN journal /\ after \subseteq DOMAIN journal'
  OBVIOUS
<1>3. CASE e.kind \in Ended /\ e.run = r
  <2>1. after = at \cup {n}
    BY <1>3, Appended
  <2>2. n \in after /\ \A j \in after : j <= n /\ (j >= n => j = n)
    BY <2>1, Appended
  <2>3. top(after) = n
    <3>1. \A i \in after : (\A j \in after : j <= i) => i = n
      BY <2>2, Appended
    <3> HIDE DEF after
    <3> QED BY <2>2, <3>1
  <2> HIDE DEF top, after, at
  <2> QED BY <1>1, <1>3, <2>1, <2>2, <2>3, Appended
<1>4. CASE ~(e.kind \in Ended /\ e.run = r)
  <2>1. after = at
    BY <1>4, Appended
  <2>2. at # {} => top(at) \in DOMAIN journal
    <3> SUFFICES ASSUME at # {} PROVE top(at) \in at
      BY <1>2
    <3>1. \E i \in at : \A j \in at : j <= i
      BY <1>1
    <3> HIDE DEF at
    <3> QED BY <3>1
  <2> HIDE DEF top, after, at
  <2> QED BY <1>1, <1>4, <2>1, <2>2, Appended
<1> QED BY <1>3, <1>4

\* What was agreed to stays so.
LEMMA ConfinedKept ==
  ASSUME ConfinedToConsent, reached' = reached,
         \A x \in reached : sent'[x] = sent[x] /\ consents[run(x)] \subseteq consents'[run(x)]
  PROVE  ConfinedToConsent'
<1> SUFFICES ASSUME NEW x \in reached
             PROVE  LET agreed == consents'[sent'[x].run]
                        place == sent'[x].arg.place
                    IN  \/ "host_full" \in agreed
                        \/ place = "chosen" /\ "selected_directories" \in agreed
                        \/ place = "worktree" /\ agreed # {}
                        \/ /\ sent'[x].arg.judged # place
                           /\ \E scope \in agreed : Tiers[scope] = "argv_fence"
  BY DEF ConfinedToConsent, run
<1> DEFINE agreed == consents[run(x)]
           place == sent[x].arg.place
<1>1. \/ "host_full" \in agreed
      \/ place = "chosen" /\ "selected_directories" \in agreed
      \/ place = "worktree" /\ agreed # {}
      \/ sent[x].arg.judged # place /\ \E scope \in agreed : Tiers[scope] = "argv_fence"
  BY DEF ConfinedToConsent
<1>2. agreed \subseteq consents'[sent'[x].run] /\ sent'[x] = sent[x]
  BY DEF run
<1> HIDE DEF agreed
<1> QED BY <1>1, <1>2

-----------------------------------------------------------------------------
\* The steps.

LEMMA InitHolds == Init => IInv
<1> SUFFICES ASSUME Init PROVE IInv
  OBVIOUS
<1>1. Types
  BY RunnerAssumption DEF Init, Types, Ids, Granted, Verdicts, Steps
<1>2. \A id : ~started(id)
  BY DEF Init, started, recorded
<1>3. JournalInv
  BY DEF Init, JournalInv, HasLast
<1>4. StartedInv
  BY <1>2 DEF Init, StartedInv
<1>5. ConsentInv /\ ConfinedToConsent
  BY DEF Init, ConsentInv, ConfinedToConsent
<1> QED BY <1>1, <1>3, <1>4, <1>5 DEF IInv

\* The server is answered.
LEMMA AnswerStep ==
  ASSUME IInv, NEW id \in Ids, Answer(id)
  PROVE  IInv'
<1>1. /\ entries[id] \in Verdicts /\ answers' = [answers EXCEPT ![id] = entries[id]]
      /\ UNCHANGED <<sent, disk, launches, memory, history>>
  BY DEF Answer
<1>2. Types'
  BY <1>1 DEF IInv, Types, disk, memory, history, Granted
<1> QED BY <1>1, <1>2 DEF IInv, disk, memory, history, JournalInv, HasLast, StartedInv,
                     ConsentInv, ConfinedToConsent, started, recorded, run, op

\* A handler moves within a dispose, or as its process exits.
LEMMA HandlerMoves ==
  ASSUME IInv, NEW id \in Ids, NEW where \in {"deciding", "git", "done", "failing"},
         goto(id, where), step[id] # "idle",
         tree' \in [Runs -> SUBSET Ids], found' \in [Ids -> SUBSET Ids],
         UNCHANGED <<sent, answers, journal, stored, launches, entries, held, prepared,
                     runs, decision, consents, ran, reached, discarded>>
  PROVE  IInv'
<1>1. step' \in [Ids -> Steps] /\ \A x \in Ids : step'[x] = IF x = id THEN where ELSE step[x]
  BY DEF goto, IInv, Types, Steps
<1>2. Types'
  BY <1>1 DEF IInv, Types, Granted
<1>3. ConsentInv'
  BY <1>1, SentType DEF IInv, ConsentInv, run, op
<1>4. StartedInv'
  BY <1>1 DEF IInv, StartedInv, started, recorded
<1> QED BY <1>2, <1>3, <1>4 DEF IInv, JournalInv, HasLast, started, recorded,
                                ConfinedToConsent, run

\* A handler throws.
LEMMA ThrowStep ==
  ASSUME IInv, NEW id \in DOMAIN sent, step[id] # "idle", throws(id)
  PROVE  IInv'
<1>1. id \in Ids
  BY SentType DEF IInv
<1>2. /\ entries' = [entries EXCEPT ![id] = "failed"]
      /\ step' = [step EXCEPT ![id] = "idle"] /\ held' = [held EXCEPT ![id] = "none"]
      /\ UNCHANGED <<sent, answers, disk, launches, prepared, runs, decision, history>>
  BY DEF throws
<1>3. Types'
  BY <1>1, <1>2 DEF IInv, Types, disk, history, Granted, Verdicts, Steps
<1>4. StartedInv'
  BY <1>1, <1>2 DEF IInv, Types, StartedInv, disk, history, started, recorded
<1>5. ConsentInv'
  BY <1>1, <1>2, SentType DEF IInv, Types, ConsentInv, disk, history, run, op
<1> QED BY <1>2, <1>3, <1>4, <1>5 DEF IInv, disk, history, JournalInv, HasLast, started,
                                recorded, ConfinedToConsent, run

\* A handler settles its command.
LEMMA SettleStep ==
  ASSUME IInv, NEW id \in DOMAIN sent, NEW verdict \in Written, step[id] # "idle",
         settleCommand(id, verdict),
         prepared' \in [Runs -> Granted], \A r \in Runs : prepared'[r] \in {prepared[r], "none"},
         UNCHANGED <<sent, answers, stored, tree, launches, runs, decision, history>>
  PROVE  IInv'
<1> DEFINE e == [kind |-> "settled", run |-> run(id), id |-> id, verdict |-> verdict]
<1>1. id \in Ids /\ run(id) \in Runs
  BY SentType DEF IInv
<1>2. e \in Record /\ append(e)
  BY <1>1, RecordType DEF settleCommand
<1>3. /\ entries' = [entries EXCEPT ![id] = verdict]
      /\ step' = [step EXCEPT ![id] = "idle"] /\ held' = [held EXCEPT ![id] = "none"]
  BY DEF settleCommand
<1>4. journal \in Seq(Record) /\ e.kind = "settled" /\ e.id = id /\ e.run = run(id)
  BY DEF IInv, Types
<1>5. started(id)
  BY <1>1 DEF IInv, Types, StartedInv
<1> HIDE DEF e
<1>6. Types'
  BY <1>1, <1>2, <1>3, <1>4, Appended
     DEF IInv, Types, history, Granted, Verdicts, Written, Steps
<1>7. \A x : started(x)' <=> started(x)
  BY <1>2, <1>4, StartedAfter
<1>8. JournalInv'
  <2>1. \A r \in Runs : HasLast(Ended, r)'
    BY <1>2, <1>4, LastAfter DEF IInv, JournalInv
  <2>2. ASSUME NEW i \in DOMAIN journal', journal'[i].kind \in {"started", "settled"}
        PROVE  /\ journal'[i].id \in DOMAIN sent /\ journal'[i].run = run(journal'[i].id)
               /\ started(journal'[i].id)
    BY <1>2, <1>4, <1>5, <2>2, Appended DEF IInv, JournalInv
  <2> QED BY <1>7, <2>1, <2>2 DEF JournalInv, run
<1>9. StartedInv'
  BY <1>1, <1>3, <1>5, <1>7 DEF IInv, Types, StartedInv, history, Written
<1>10. ConsentInv'
  BY <1>1, <1>3, SentType DEF IInv, Types, ConsentInv, history, run, op
<1> QED BY <1>6, <1>8, <1>9, <1>10 DEF IInv, history, ConfinedToConsent, run

\* A handler records that a Run is prepared or resolved.
LEMMA RecordStep ==
  ASSUME IInv, NEW id \in DOMAIN sent, NEW e \in Record, e.kind \in Ended, append(e),
         step[id] # "idle", goto(id, "recorded"),
         runs' \subseteq Runs, discarded' \subseteq Ids,
         decision' \in [Runs -> Outcomes \cup {"none"}],
         UNCHANGED <<sent, answers, stored, tree, launches, entries, held, prepared,
                     consents, ran, reached, found>>
  PROVE  IInv'
<1>1. id \in Ids
  BY SentType DEF IInv
<1>2. step' \in [Ids -> Steps] /\ \A x \in Ids : step'[x] = IF x = id THEN "recorded" ELSE step[x]
  BY <1>1 DEF goto, IInv, Types, Steps
<1>3. journal \in Seq(Record)
  BY DEF IInv, Types
<1>4. Types'
  BY <1>2, <1>3, Appended DEF IInv, Types, Granted
<1>5. \A x : started(x)' <=> started(x)
  BY <1>3, StartedAfter DEF Ended
<1>6. JournalInv'
  <2>1. \A r \in Runs : HasLast(Ended, r)'
    BY <1>3, LastAfter DEF IInv, JournalInv
  <2>2. ASSUME NEW i \in DOMAIN journal', journal'[i].kind \in {"started", "settled"}
        PROVE  i \in DOMAIN journal /\ journal'[i] = journal[i]
    BY <1>3, <2>2, Appended DEF Ended
  <2> QED BY <1>5, <2>1, <2>2 DEF IInv, JournalInv, run
<1>7. StartedInv'
  BY <1>2, <1>5 DEF IInv, StartedInv
<1>8. ConsentInv'
  BY <1>2, SentType DEF IInv, ConsentInv, run, op
<1> QED BY <1>4, <1>6, <1>7, <1>8 DEF IInv, ConfinedToConsent, run

\* A prepare looks for its grant, gets one, and builds its environment.
LEMMA GrantStep ==
  ASSUME IInv, NEW id \in DOMAIN sent, NEW where \in {"asking", "granted", "added"},
         step[id] # "idle", goto(id, where),
         held' \in [Ids -> Granted], \A x \in Ids \ {id} : held'[x] = held[x],
         stored' \in [Runs -> Granted], prepared' \in [Runs -> Granted],
         consents' \in [Runs -> SUBSET Scopes],
         \A r \in Runs : /\ consents[r] \subseteq consents'[r]
                         /\ {stored'[r], prepared'[r]} \subseteq consents'[r] \cup {"none"},
         held'[id] \in consents'[run(id)] \cup {"none"},
         where # "asking" => held'[id] # "none",
         tree' \in [Runs -> SUBSET Ids],
         UNCHANGED <<sent, answers, journal, launches, entries, runs, decision, ran, reached,
                     found, discarded>>
  PROVE  IInv'
<1>1. id \in Ids
  BY SentType DEF IInv
<1>2. step' \in [Ids -> Steps] /\ \A x \in Ids : step'[x] = IF x = id THEN where ELSE step[x]
  BY <1>1 DEF goto, IInv, Types, Steps
<1>3. Types'
  BY <1>2 DEF IInv, Types
<1>4. StartedInv'
  BY <1>2 DEF IInv, StartedInv, started, recorded
<1>5. ConsentInv'
  <2>1. \A x \in DOMAIN sent : x \in Ids /\ run(x) \in Runs
    BY SentType DEF IInv
  <2> QED BY <1>2, <2>1 DEF IInv, ConsentInv, run, op
<1>6. ConfinedToConsent'
  <2>1. \A x \in DOMAIN sent : run(x) \in Runs
    BY SentType DEF IInv
  <2>2. \A x \in DOMAIN sent : consents[run(x)] \subseteq consents'[run(x)]
    BY <2>1
  <2>3. reached \subseteq DOMAIN sent
    BY DEF IInv, Types
  <2> QED BY <2>2, <2>3, ConfinedKept DEF IInv, run
<1> QED BY <1>3, <1>4, <1>5, <1>6 DEF IInv, JournalInv, HasLast, started, recorded, run

LEMMA ResolveGrantStep ==
  ASSUME IInv, NEW id \in Ids, resolveGrant(id)
  PROVE  IInv'
<1>1. id \in DOMAIN sent /\ step[id] # "idle" /\ op(id) = "prepare"
  BY DEF resolveGrant, At
<1>2. run(id) \in Runs
  BY <1>1, SentType DEF IInv
<1>3. CASE stored[run(id)] # "none"
  <2>1. /\ held' = [held EXCEPT ![id] = stored[run(id)]] /\ goto(id, "granted")
        /\ UNCHANGED <<sent, answers, disk, launches, entries, prepared, runs, decision,
                       history>>
    BY <1>3 DEF resolveGrant
  <2> QED BY <1>1, <1>2, <1>3, <2>1, GrantStep
          DEF IInv, Types, ConsentInv, disk, history
<1>4. CASE stored[run(id)] = "none" /\ ~throws(id)
  <2>1. /\ goto(id, "asking")
        /\ UNCHANGED <<sent, answers, disk, launches, entries, held, prepared, runs, decision,
                       history>>
    BY <1>4 DEF resolveGrant
  <2> QED BY <1>1, <1>2, <2>1, GrantStep
          DEF IInv, Types, ConsentInv, disk, history
<1> QED BY <1>1, <1>3, <1>4, ThrowStep

LEMMA IssueStep ==
  ASSUME IInv, NEW id \in Ids, issue(id)
  PROVE  IInv'
<1>1. id \in DOMAIN sent /\ step[id] # "idle" /\ op(id) = "prepare"
  BY DEF issue, At
<1>2. run(id) \in Runs /\ sent[id].arg \in Scopes
  BY <1>1, SentType DEF IInv
<1>3. sent[id].arg # "none"
  BY <1>2, RunnerAssumption
<1>4. /\ stored' = [stored EXCEPT ![run(id)] = sent[id].arg]
      /\ held' = [held EXCEPT ![id] = sent[id].arg]
      /\ consents' = [consents EXCEPT ![run(id)] = @ \cup {sent[id].arg}]
      /\ goto(id, "granted")
      /\ UNCHANGED <<sent, answers, journal, tree, launches, entries, prepared, runs,
                     decision, ran, reached, found, discarded>>
  BY DEF issue
<1>5. consents' \in [Runs -> SUBSET Scopes] /\ stored' \in [Runs -> Granted]
      /\ held' \in [Ids -> Granted]
  BY <1>2, <1>4 DEF IInv, Types, Granted
<1>6. \A r \in Runs : /\ consents[r] \subseteq consents'[r]
                      /\ {stored'[r], prepared'[r]} \subseteq consents'[r] \cup {"none"}
  BY <1>2, <1>4 DEF IInv, Types, ConsentInv
<1>7. held'[id] = sent[id].arg /\ sent[id].arg \in consents'[run(id)]
      /\ \A x \in Ids \ {id} : held'[x] = held[x]
  BY <1>2, <1>4 DEF IInv, Types
<1> QED BY <1>1, <1>2, <1>3, <1>4, <1>5, <1>6, <1>7, GrantStep DEF IInv, Types

LEMMA BuildStep ==
  ASSUME IInv, NEW id \in Ids, buildEnvironment(id)
  PROVE  IInv'
<1>1. id \in DOMAIN sent /\ step[id] = "granted"
  BY DEF buildEnvironment, At
<1>2. run(id) \in Runs
  BY <1>1, SentType DEF IInv
<1>3. held[id] \in Granted /\ held[id] # "none" /\ held[id] \in consents[run(id)]
  BY <1>1 DEF IInv, Types, ConsentInv
<1>4. /\ tree' = [tree EXCEPT ![run(id)] = addWorktree(@, id)]
      /\ prepared' = [prepared EXCEPT ![run(id)] = held[id]] /\ goto(id, "added")
      /\ UNCHANGED <<sent, answers, journal, stored, launches, entries, held, runs, decision,
                     history>>
  BY DEF buildEnvironment
<1>5. tree' \in [Runs -> SUBSET Ids] /\ prepared' \in [Runs -> Granted]
  BY <1>2, <1>3, <1>4 DEF IInv, Types, addWorktree
<1>6. \A r \in Runs : {stored'[r], prepared'[r]} \subseteq consents'[r] \cup {"none"}
  BY <1>2, <1>3, <1>4 DEF IInv, Types, ConsentInv, history
<1> QED BY <1>1, <1>2, <1>3, <1>4, <1>5, <1>6, GrantStep DEF IInv, Types, history

\* The sandbox plans a command, once, or refuses it.
LEMMA SpawnStep ==
  ASSUME IInv, NEW id \in Ids, planSpawn(id)
  PROVE  IInv'
<1>1. id \in DOMAIN sent /\ step[id] = "begun" /\ op(id) = "perform" /\ step[id] # "idle"
  BY DEF planSpawn, At
<1>2. UNCHANGED <<sent, answers, journal, stored, tree, launches, entries, held, prepared,
                  runs, decision, consents, reached, found, discarded>>
  BY DEF planSpawn, disk
<1>3. CASE goto(id, "failing") /\ ran' = ran
  <2>1. tree' \in [Runs -> SUBSET Ids] /\ found' \in [Ids -> SUBSET Ids]
    BY <1>2 DEF IInv, Types
  <2> QED BY <1>1, <1>2, <1>3, <2>1, HandlerMoves
<1>4. CASE /\ plan(held[id], sent[id].arg) /\ goto(id, "spawned")
           /\ ran' = [ran EXCEPT ![id] = @ + 1]
  <2>1. /\ step' \in [Ids -> Steps]
        /\ \A x \in Ids : step'[x] = IF x = id THEN "spawned" ELSE step[x]
    BY <1>4 DEF goto, IInv, Types, Steps
  <2>2. ran[id] = 0 /\ entries[id] = "running" /\ started(id)
    BY <1>1 DEF IInv, Types, StartedInv
  <2>3. ran' \in [Ids -> {0, 1}] /\ ran'[id] = 1 /\ \A x \in Ids \ {id} : ran'[x] = ran[x]
    BY <1>4, <2>2 DEF IInv, Types
  <2>4. Types'
    BY <1>2, <2>1, <2>2, <2>3 DEF IInv, Types
  <2>5. StartedInv'
    BY <1>2, <2>1, <2>2, <2>3 DEF IInv, StartedInv, started, recorded
  <2>6. ConsentInv'
    BY <1>1, <1>2, <1>4, <2>1, SentType DEF IInv, ConsentInv, run, op
  <2> QED BY <1>2, <2>4, <2>5, <2>6
          DEF IInv, JournalInv, HasLast, started, recorded, run, ConfinedToConsent
<1> QED BY <1>3, <1>4 DEF planSpawn

\* Its process touches a place: the fence has judged it, or the kernel confines it.
LEMMA TouchStep ==
  ASSUME IInv, NEW id \in Ids, touch(id)
  PROVE  IInv'
<1> DEFINE place == sent[id].arg.place
           judged == sent[id].arg.judged
           agreed == consents[run(id)]
<1>1. /\ id \in DOMAIN sent /\ op(id) = "perform" /\ step[id] = "spawned"
      /\ confined(held[id], sent[id].arg) /\ reached' = reached \cup {id}
      /\ tree' \in {tree, [tree EXCEPT ![run(id)] = @ \cup {id}]}
      /\ UNCHANGED <<sent, answers, journal, stored, launches, entries, step, held, prepared,
                     runs, decision, consents, ran, found, discarded>>
  BY DEF touch, At, memory
<1>2. /\ run(id) \in Runs /\ held[id] \in agreed /\ plan(held[id], sent[id].arg)
      /\ held[id] \in Scopes
  <2>1. run(id) \in Runs
    BY <1>1, SentType DEF IInv
  <2>2. held[id] \in agreed /\ plan(held[id], sent[id].arg)
    BY <1>1 DEF IInv, ConsentInv
  <2> QED BY <2>1, <2>2 DEF IInv, Types
<1>4. \/ held[id] = "host_full" \/ place \in grantRoots(held[id])
      \/ judged # place /\ Tiers[held[id]] = "argv_fence"
  <2>1. CASE held[id] = "host_full"
    BY <2>1
  <2>2. CASE held[id] # "host_full"
    <3>1. Tiers[held[id]] \in {"kernel", "argv_fence"}
      BY <1>2, <2>2, RunnerAssumption DEF plan, admit
    <3>2. CASE Tiers[held[id]] = "kernel"
      BY <1>1, <2>2, <3>2 DEF confined
    <3>3. CASE Tiers[held[id]] = "argv_fence" /\ judged = place
      <4>1. sent[id].arg \in Arguments
        BY <1>1, SentType DEF IInv
      <4>2. place # "nothing"
        BY <4>1, RunnerAssumption
      <4> QED BY <1>2, <2>2, <3>3, <4>2 DEF plan, allowed
    <3> QED BY <3>1, <3>2, <3>3
  <2> QED BY <2>1, <2>2
<1>5. \/ "host_full" \in agreed
      \/ place = "chosen" /\ "selected_directories" \in agreed
      \/ place = "worktree" /\ agreed # {}
      \/ judged # place /\ \E scope \in agreed : Tiers[scope] = "argv_fence"
  BY <1>2, <1>4 DEF grantRoots
<1>6. ConfinedToConsent'
  BY <1>1, <1>5 DEF IInv, ConfinedToConsent, run
<1>7. tree' \in [Runs -> SUBSET Ids]
  <2>1. tree \in [Runs -> SUBSET Ids] /\ tree[run(id)] \cup {id} \in SUBSET Ids
    BY <1>2 DEF IInv, Types
  <2> QED BY <1>1, <1>2, <2>1
<1>8. Types'
  BY <1>1, <1>7 DEF IInv, Types
<1> QED BY <1>1, <1>6, <1>8 DEF IInv, JournalInv, HasLast, StartedInv, ConsentInv, started,
                                recorded, run, op

\* A command begins: it has never run, and it is on record before it does.
LEMMA BeginStep ==
  ASSUME IInv, NEW id \in Ids, NEW c \in Command, begin(id, c),
         entries[id] = "unknown",
         sent' \in Seq(Command), Len(sent') <= MaxCommands,
         DOMAIN sent' = DOMAIN sent \cup {id}, sent'[id] = c,
         \A x \in DOMAIN sent : sent'[x] = sent[x],
         UNCHANGED <<answers, stored, tree, launches, prepared, runs, decision, history>>
  PROVE  IInv'
<1>1. c.run \in Runs
  BY CommandType
<1>2. ~started(id) /\ ran[id] = 0 /\ step[id] = "idle"
  BY DEF IInv, Types, StartedInv
<1>3. \A x \in DOMAIN sent : x \in Ids /\ run(x) \in Runs /\ run(x)' = run(x) /\ op(x)' = op(x)
  BY SentType DEF IInv, run, op
<1>4. run(id)' = c.run /\ op(id)' = c.op
  BY DEF run, op
<1>5. CASE c.op # "prepare" /\ prepared[c.run] = "none"
  <2>1. entries' = [entries EXCEPT ![id] = "failed"] /\ UNCHANGED <<journal, step, held>>
    BY <1>5 DEF begin
  <2>2. Types'
    BY <2>1 DEF IInv, Types, history, Verdicts
  <2>3. \A x : started(x)' <=> started(x)
    BY <2>1 DEF started, recorded
  <2>4. JournalInv'
    <3>1. \A r \in Runs : HasLast(Ended, r)'
      BY <2>1 DEF IInv, JournalInv, HasLast
    <3> QED BY <1>3, <2>1, <2>3, <3>1 DEF IInv, JournalInv
  <2>5. StartedInv'
    BY <1>2, <2>1, <2>3 DEF IInv, Types, StartedInv, history
  <2>6. ConsentInv'
    <3>1. held[id] = "none"
      BY <1>2 DEF IInv, ConsentInv
    <3> QED BY <1>2, <1>3, <1>4, <2>1, <3>1 DEF IInv, ConsentInv, history
  <2>7. ConfinedToConsent'
    BY ConfinedKept DEF IInv, Types, history
  <2> QED BY <2>2, <2>4, <2>5, <2>6, <2>7 DEF IInv
<1>6. CASE ~(c.op # "prepare" /\ prepared[c.run] = "none")
  <2> DEFINE e == [kind |-> "started", run |-> c.run, id |-> id]
  <2>1. /\ append(e) /\ goto(id, "begun")
        /\ entries' = [entries EXCEPT ![id] = "running"]
        /\ held' = [held EXCEPT ![id] = prepared[c.run]]
    BY <1>6 DEF begin
  <2>2. e \in Record /\ journal \in Seq(Record) /\ e.kind = "started" /\ e.id = id /\ e.run = c.run
    BY <1>1, RecordType DEF IInv, Types
  <2> HIDE DEF e
  <2>3. \A x : started(x)' <=> started(x) \/ x = id
    BY <2>1, <2>2, StartedAfter
  <2>4. /\ step' \in [Ids -> Steps]
        /\ \A x \in Ids : step'[x] = IF x = id THEN "begun" ELSE step[x]
    BY <2>1 DEF goto, IInv, Types, Steps
  <2>5. /\ held' \in [Ids -> Granted]
        /\ \A x \in Ids : held'[x] = IF x = id THEN prepared[c.run] ELSE held[x]
        /\ entries' \in [Ids -> {"unknown", "running"} \cup Verdicts]
        /\ \A x \in Ids : entries'[x] = IF x = id THEN "running" ELSE entries[x]
    BY <1>1, <2>1 DEF IInv, Types
  <2>6. Types'
    BY <2>1, <2>2, <2>4, <2>5, Appended DEF IInv, Types, history
  <2>7. JournalInv'
    <3>1. \A r \in Runs : HasLast(Ended, r)'
      BY <2>1, <2>2, LastAfter DEF IInv, JournalInv
    <3>2. ASSUME NEW i \in DOMAIN journal', journal'[i].kind \in {"started", "settled"}
          PROVE  /\ journal'[i].id \in DOMAIN sent'
                 /\ journal'[i].run = sent'[journal'[i].id].run
                 /\ started(journal[i].id)'
      <4>1. CASE i = Len(journal) + 1
        BY <2>1, <2>2, <2>3, <4>1, Appended
      <4>2. CASE i \in DOMAIN journal
        <5>1. journal'[i] = journal[i]
          BY <2>1, <2>2, <4>2, Appended
        <5>2. /\ journal[i].id \in DOMAIN sent /\ journal[i].run = sent[journal[i].id].run
              /\ started(journal[i].id)
          BY <3>2, <4>2, <5>1 DEF IInv, JournalInv, run
        <5>3. \A x : x = journal[i].id => started(x)'
          BY <2>3, <5>2
        <5> QED BY <5>1, <5>2, <5>3
      <4> QED BY <2>1, <2>2, <4>1, <4>2, Appended
    <3> QED BY <3>1, <3>2 DEF JournalInv, run
  <2>8. StartedInv'
    BY <1>2, <2>3, <2>4, <2>5 DEF IInv, StartedInv, history
  <2>9. ConsentInv'
    <3>1. prepared[c.run] \in consents[c.run] \cup {"none"}
      BY <1>1 DEF IInv, ConsentInv
    <3>2. \A r \in Runs : {stored[r], prepared[r]} \subseteq consents[r] \cup {"none"}
      BY DEF IInv, ConsentInv
    <3> QED BY <1>3, <1>4, <1>6, <2>4, <2>5, <3>1, <3>2 DEF IInv, ConsentInv, history
  <2>10. ConfinedToConsent'
    BY ConfinedKept DEF IInv, Types, history
  <2> QED BY <2>6, <2>7, <2>8, <2>9, <2>10 DEF IInv
<1> QED BY <1>5, <1>6

LEMMA ReceiveStep == IInv /\ Receive => IInv'
<1> SUFFICES ASSUME IInv, Receive PROVE IInv'
  OBVIOUS
<1>1. PICK c \in Command : sent' = Append(sent, c) /\ begin(Len(sent) + 1, c)
  BY DEF Receive
<1>2. Len(sent) < MaxCommands /\ MaxCommands \in Nat /\ sent \in Seq(Command)
      /\ UNCHANGED <<answers, stored, tree, launches, prepared, runs, decision, history>>
  BY RunnerAssumption DEF Receive, IInv, Types
<1> DEFINE id == Len(sent) + 1
<1>3. id \in Ids /\ id \notin DOMAIN sent
  BY <1>2 DEF Ids
<1>4. /\ sent' \in Seq(Command) /\ Len(sent') <= MaxCommands
      /\ DOMAIN sent' = DOMAIN sent \cup {id} /\ sent'[id] = c
      /\ \A x \in DOMAIN sent : sent'[x] = sent[x]
  BY <1>1, <1>2
<1>5. entries[id] = "unknown"
  BY <1>3 DEF IInv, Types
<1> HIDE DEF id
<1>6. begin(id, c)
  BY <1>1 DEF id
<1> QED BY <1>2, <1>3, <1>4, <1>5, <1>6, BeginStep

LEMMA ReceiveAgainStep ==
  ASSUME IInv, NEW id \in Ids, ReceiveAgain(id)
  PROVE  IInv'
<1>1. /\ id \in DOMAIN sent /\ entries[id] = "unknown" /\ begin(id, sent[id])
      /\ UNCHANGED <<sent, answers, stored, tree, launches, prepared, runs, decision, history>>
  BY DEF ReceiveAgain
<1>2. sent \in Seq(Command) /\ Len(sent) <= MaxCommands
  BY DEF IInv, Types
<1>3. sent[id] \in Command
  BY <1>1, <1>2
<1>4. DOMAIN sent = DOMAIN sent \cup {id}
  BY <1>1
<1> QED BY <1>1, <1>2, <1>3, <1>4, BeginStep

LEMMA ClearStep == IInv /\ clearGrants => IInv'
<1> SUFFICES ASSUME IInv, clearGrants PROVE IInv'
  OBVIOUS
<1>1. /\ stored' = [r \in Runs |-> "none"]
      /\ UNCHANGED <<sent, answers, journal, tree, launches, memory, history>>
  BY DEF clearGrants
<1>2. Types'
  BY <1>1 DEF IInv, Types, memory, history, Granted
<1>3. ConsentInv'
  BY <1>1 DEF IInv, ConsentInv, memory, history, run, op
<1> QED BY <1>1, <1>2, <1>3 DEF IInv, memory, history, JournalInv, HasLast, StartedInv,
                                ConfinedToConsent, started, recorded, run, op

\* A launch takes no command that is on record for a new one.
LEMMA RecoveredType ==
  ASSUME IInv, NEW id \in Ids
  PROVE  /\ recoveredCommands[id] \in {"unknown", "interrupted"} \cup Written
         /\ recoveredCommands[id] = "unknown" <=> ~started(id)
<1>1. recoveredCommands[id] = IF settled(id) # {} THEN CHOOSE v \in settled(id) : TRUE
                              ELSE IF started(id) THEN "interrupted" ELSE "unknown"
  BY DEF recoveredCommands
<1>2. settled(id) \subseteq Written
  <2>1. ASSUME NEW i \in DOMAIN journal, journal[i].kind = "settled"
        PROVE  journal[i].verdict \in Written
    <3>1. journal[i] \in Record
      BY DEF IInv, Types
    <3> QED BY <2>1, <3>1, EntryType
  <2> QED BY <2>1 DEF settled, recorded
<1>3. settled(id) # {} => started(id)
  BY DEF settled, recorded, IInv, JournalInv
<1>4. settled(id) # {} => (CHOOSE v \in settled(id) : TRUE) \in settled(id)
  OBVIOUS
<1> QED BY <1>1, <1>2, <1>3, <1>4 DEF Written

LEMMA LastType ==
  ASSUME IInv, NEW r \in Runs
  PROVE  \/ last(Ended, r) = [kind |-> "nothing"]
         \/ last(Ended, r) \in Record /\ last(Ended, r).kind \in Ended
<1> DEFINE at == {i \in DOMAIN journal : journal[i].kind \in Ended /\ journal[i].run = r}
           top == CHOOSE i \in at : \A j \in at : j <= i
<1>1. last(Ended, r) = IF at = {} THEN [kind |-> "nothing"] ELSE journal[top]
  BY DEF last
<1>2. at = {} \/ \E i \in at : \A j \in at : j <= i
  BY DEF IInv, JournalInv, HasLast
<1>3. at # {} => top \in at
  <2> HIDE DEF at
  <2> QED BY <1>2
<1>4. \A i \in at : journal[i] \in Record /\ journal[i].kind \in Ended
  BY DEF IInv, Types
<1> HIDE DEF top, at
<1> QED BY <1>1, <1>3, <1>4

LEMMA DecisionType ==
  ASSUME IInv
  PROVE  recoveredDecision \in [Runs -> Outcomes \cup {"none"}]
<1> SUFFICES ASSUME NEW r \in Runs PROVE recoveredDecision[r] \in Outcomes \cup {"none"}
  BY DEF recoveredDecision
<1>1. recoveredDecision[r] = IF last(Ended, r).kind = "resolved" THEN last(Ended, r).outcome
                             ELSE "none"
  BY DEF recoveredDecision, Ended
<1>2. last(Ended, r).kind = "resolved" => last(Ended, r).outcome \in Outcomes
  BY LastType, EntryType
<1> QED BY <1>1, <1>2

LEMMA RelaunchStep == IInv /\ Relaunch => IInv'
<1> SUFFICES ASSUME IInv, Relaunch PROVE IInv'
  OBVIOUS
<1>1. /\ launches < MaxLaunches /\ launches' = launches + 1
      /\ entries' = recoveredCommands
      /\ step' = [id \in Ids |-> "idle"] /\ held' = [id \in Ids |-> "none"]
      /\ prepared' = [r \in Runs |-> "none"]
      /\ runs' = recoveredHandles /\ decision' = recoveredDecision
      /\ UNCHANGED <<sent, answers, disk, history>>
  BY DEF Relaunch
<1>2. launches' \in 1..MaxLaunches
  BY <1>1, RunnerAssumption DEF IInv, Types
<1>3. entries' \in [Ids -> {"unknown", "running"} \cup Verdicts]
      /\ \A id \in Ids : entries'[id] # "running" /\ (entries'[id] = "unknown" <=> ~started(id))
  <2>1. recoveredCommands = [id \in Ids |-> recoveredCommands[id]]
    BY DEF recoveredCommands
  <2> QED BY <1>1, <2>1, RecoveredType DEF Verdicts, Written
<1>4. \A id \in Ids : started(id) => id \in DOMAIN sent
  BY DEF started, recorded, IInv, JournalInv
<1>5. recoveredHandles \subseteq Runs
  BY DEF recoveredHandles
<1>6. Types'
  BY <1>1, <1>2, <1>3, <1>4, <1>5, DecisionType
     DEF IInv, Types, disk, history, Granted, Steps
<1>7. \A id : started(id)' <=> started(id)
  BY <1>1 DEF started, recorded, disk
<1>8. StartedInv'
  BY <1>1, <1>3, <1>7 DEF IInv, StartedInv, history
<1>9. ConsentInv'
  <2>1. \A id \in DOMAIN sent : id \in Ids
    BY SentType DEF IInv
  <2> QED BY <1>1, <2>1 DEF IInv, ConsentInv, disk, history, run, op
<1> QED BY <1>1, <1>6, <1>7, <1>8, <1>9 DEF IInv, disk, history, JournalInv, HasLast,
                                ConfinedToConsent, run, op

LEMMA HandlerStep ==
  ASSUME IInv, NEW id \in Ids,
         \/ decline(id) \/ prepareFails(id) \/ recordPrepared(id) \/ prepare(id)
         \/ perform(id) \/ inspect(id) \/ inspectFails(id)
         \/ runCommand(id) \/ resolve(id)
         \/ resolveRunOutcome(id) \/ resolveFails(id) \/ recordResolved(id)
         \/ cleanupWorktree(id) \/ dispose(id)
  PROVE  IInv'
<1>1. id \in DOMAIN sent /\ step[id] # "idle"
  BY DEF decline, prepareFails, recordPrepared, prepare, runCommand, perform, inspect,
         inspectFails, resolve, resolveRunOutcome, resolveFails, recordResolved, cleanupWorktree, dispose, At
<1>2. run(id) \in Runs
  BY <1>1, SentType DEF IInv
<1>3. CASE decline(id) \/ prepareFails(id) \/ inspectFails(id) \/ resolveFails(id)
  BY <1>1, <1>3, ThrowStep DEF decline, prepareFails, inspectFails, resolveFails
<1>4. CASE prepare(id) \/ perform(id) \/ inspect(id)
  <2>1. prepared \in [Runs -> Granted]
    BY DEF IInv, Types
  <2>2. PICK verdict \in Written : settleCommand(id, verdict)
    BY <1>4 DEF prepare, perform, inspect, Written
  <2>3. UNCHANGED <<sent, answers, stored, tree, launches, prepared, runs, decision, history>>
    BY <1>4 DEF prepare, perform, inspect
  <2> QED BY <1>1, <2>1, <2>2, <2>3, SettleStep
<1>5. CASE dispose(id)
  <2>1. /\ prepared' = [prepared EXCEPT ![run(id)] = "none"]
        /\ \E verdict \in Written : settleCommand(id, verdict)
        /\ UNCHANGED <<sent, answers, stored, tree, launches, runs, decision, history>>
    BY <1>5 DEF dispose, Written
  <2>2. prepared' \in [Runs -> Granted] /\ \A r \in Runs : prepared'[r] \in {prepared[r], "none"}
    BY <1>2, <2>1 DEF IInv, Types, Granted
  <2> QED BY <1>1, <2>1, <2>2, SettleStep
<1>6. CASE recordPrepared(id)
  <2> DEFINE e == [kind |-> "prepared", run |-> run(id)]
  <2>1. append(e) /\ runs' = runs \cup {run(id)} /\ goto(id, "recorded")
        /\ UNCHANGED <<sent, answers, stored, tree, launches, entries, held, prepared,
                       decision, history>>
    BY <1>6 DEF recordPrepared
  <2>2. e \in Record /\ e.kind \in Ended
    BY <1>2, RecordType DEF Ended
  <2> HIDE DEF e
  <2>3. /\ runs' \subseteq Runs /\ discarded' \subseteq Ids
        /\ decision' \in [Runs -> Outcomes \cup {"none"}]
        /\ UNCHANGED <<consents, ran, reached, found>>
    BY <1>2, <2>1 DEF IInv, Types, history
  <2> QED BY <1>1, <2>1, <2>2, <2>3, RecordStep
<1>7. CASE recordResolved(id)
  <2> DEFINE e == [kind |-> "resolved", run |-> run(id), outcome |-> sent[id].arg]
  <2>1. /\ append(e) /\ decision' = [decision EXCEPT ![run(id)] = sent[id].arg]
        /\ discarded' = discarded \cup found[id] /\ goto(id, "recorded")
        /\ UNCHANGED <<sent, answers, stored, tree, launches, entries, held, prepared, runs,
                       consents, ran, reached, found>>
    BY <1>7 DEF recordResolved
  <2>2. op(id) = "dispose" /\ sent[id].arg \in Outcomes
    BY <1>1, <1>7, SentType DEF recordResolved, At, IInv
  <2>3. e \in Record /\ e.kind \in Ended
    BY <1>2, <2>2, RecordType DEF Ended
  <2> HIDE DEF e
  <2>4. /\ runs' \subseteq Runs /\ discarded' \subseteq Ids
        /\ decision' \in [Runs -> Outcomes \cup {"none"}]
    BY <1>2, <2>1, <2>2 DEF IInv, Types
  <2> QED BY <1>1, <2>1, <2>3, <2>4, RecordStep
<1>8. CASE runCommand(id) \/ resolve(id) \/ resolveRunOutcome(id) \/ cleanupWorktree(id)
  <2>1. tree \in [Runs -> SUBSET Ids] /\ found \in [Ids -> SUBSET Ids]
    BY DEF IInv, Types
  <2>2. \E where \in {"deciding", "git", "done", "failing"} : goto(id, where)
    BY <1>8 DEF runCommand, resolve, resolveRunOutcome, cleanupWorktree
  <2>3. UNCHANGED <<sent, answers, journal, stored, launches, entries, held, prepared,
                    runs, decision, consents, ran, reached, discarded>>
    BY <1>8 DEF runCommand, resolve, resolveRunOutcome, cleanupWorktree, disk, history
  <2>4. tree' \in [Runs -> SUBSET Ids]
    <3>1. CASE runCommand(id) \/ resolve(id)
      BY <2>1, <3>1 DEF runCommand, resolve, disk
    <3>2. CASE resolveRunOutcome(id) \/ cleanupWorktree(id)
      BY <1>2, <2>1, <3>2 DEF resolveRunOutcome, cleanupWorktree
    <3> QED BY <1>8, <3>1, <3>2
  <2>5. found' \in [Ids -> SUBSET Ids]
    <3>1. CASE resolve(id)
      <4>1. \A x \in tree[run(id)] : x \in Ids
        BY <1>2, <2>1
      <4> QED BY <2>1, <3>1, <4>1 DEF resolve
    <3>2. CASE ~resolve(id)
      BY <1>8, <2>1, <3>2 DEF runCommand, resolveRunOutcome, cleanupWorktree, history
    <3> QED BY <3>1, <3>2
  <2> QED BY <1>1, <2>2, <2>3, <2>4, <2>5, HandlerMoves
<1> QED BY <1>3, <1>4, <1>5, <1>6, <1>7, <1>8

LEMMA NextHolds == IInv /\ [Next]_vars => IInv'
<1> SUFFICES ASSUME IInv, [Next]_vars PROVE IInv'
  OBVIOUS
<1>1. CASE Receive \/ clearGrants \/ Relaunch
  BY <1>1, ReceiveStep, ClearStep, RelaunchStep
<1>2. CASE UNCHANGED vars
  BY <1>2 DEF vars, disk, memory, history, IInv, Types, JournalInv, HasLast, StartedInv,
              ConsentInv, ConfinedToConsent, started, recorded, run, op
<1>3. ASSUME NEW id \in Ids,
             \/ Answer(id) \/ ReceiveAgain(id) \/ resolveGrant(id) \/ issue(id)
             \/ buildEnvironment(id) \/ planSpawn(id) \/ touch(id)
      PROVE  IInv'
  BY <1>3, AnswerStep, ReceiveAgainStep, ResolveGrantStep, IssueStep, BuildStep, SpawnStep,
     TouchStep
<1> QED BY <1>1, <1>2, <1>3, HandlerStep DEF Next

\* However often a command is delivered, and at whatever point of it the desktop
\* died before, it is executed at most once.
THEOREM ExecutedAtMostOnce == Spec => []AtMostOnce
<1>1. IInv => AtMostOnce
  BY DEF IInv, Types, AtMostOnce
<1> QED BY InitHolds, NextHolds, <1>1, PTL DEF Spec

\* What a command touched for a Run its user agreed to for that Run; where the tier is
\* the fence of its arguments, as far as the fence judged that place.
THEOREM TouchedWithConsent == Spec => []ConfinedToConsent
<1>1. IInv => ConfinedToConsent
  BY DEF IInv
<1> QED BY InitHolds, NextHolds, <1>1, PTL DEF Spec

-----------------------------------------------------------------------------
\* A discard on record has taken place.

\* A command that is on record and past its first steps, and one that is over: it
\* adds nothing to its worktree any more.
Set(x) == started(x) /\ step[x] \notin {"begun", "asking", "granted"}
Over(x) == Set(x) /\ step[x] # "spawned"

\* What is in a worktree is the work of commands of its Run that have come that far;
\* what a discard found is over, and once Git is done, or the discard on record, gone.
WInv ==
    /\ \A r \in Runs : \A x \in tree[r] : x \in DOMAIN sent /\ run(x) = r /\ Set(x)
    /\ \A id \in Ids : \A x \in found[id] :
         x \in DOMAIN sent /\ id \in DOMAIN sent /\ run(x) = run(id) /\ Over(x)
    /\ \A id \in DOMAIN sent :
         step[id] \in {"deciding", "git"} /\ sent[id].arg # "discard" => found[id] = {}
    /\ \A id \in DOMAIN sent : step[id] = "git" => \A r \in Runs : found[id] \cap tree[r] = {}
    /\ \A x \in discarded : x \in DOMAIN sent /\ Over(x) /\ \A r \in Runs : x \notin tree[r]

\* The journal only grows, so that what is on record as started stays.
LEMMA StartedStays ==
  ASSUME IInv, NEW x, started(x),
         journal' = journal \/ \E e \in Record : append(e)
  PROVE  started(x)'
<1>1. journal \in Seq(Record)
  BY DEF IInv, Types
<1>2. CASE journal' = journal
  BY <1>2 DEF started, recorded
<1>3. CASE \E e \in Record : append(e)
  BY <1>1, <1>3, StartedAfter
<1> QED BY <1>2, <1>3

\* The handler of one command moves on.
LEMMA Moved ==
  ASSUME IInv, NEW id \in DOMAIN sent, sent' = sent,
         journal' = journal \/ \E e \in Record : append(e),
         NEW where, step' = [step EXCEPT ![id] = where],
         where \in {"asking", "granted"} => step[id] \in {"begun", "asking"},
         where = "spawned" => step[id] = "begun",
         where # "begun"
  PROVE  \A x \in DOMAIN sent :
           /\ x \in DOMAIN sent' /\ run(x)' = run(x) /\ sent'[x] = sent[x]
           /\ (Set(x) => Set(x)') /\ (Over(x) => Over(x)')
<1>1. \A x \in DOMAIN sent : x \in Ids /\ step'[x] = IF x = id THEN where ELSE step[x]
  BY SentType DEF IInv, Types
<1>2. \A x : started(x) => started(x)'
  BY StartedStays
<1> QED BY <1>1, <1>2 DEF Set, Over, run

\* The record of a command, of a handle and of a decision.
LEMMA Journalled ==
  ASSUME IInv, NEW id \in DOMAIN sent
  PROVE  /\ \A verdict \in Written :
              [kind |-> "settled", run |-> run(id), id |-> id, verdict |-> verdict] \in Record
         /\ [kind |-> "prepared", run |-> run(id)] \in Record
         /\ op(id) = "dispose" =>
              [kind |-> "resolved", run |-> run(id), outcome |-> sent[id].arg] \in Record
BY SentType, RecordType DEF IInv

HandlerOf(id) ==
    \/ resolveGrant(id) \/ issue(id) \/ decline(id) \/ buildEnvironment(id)
    \/ prepareFails(id) \/ recordPrepared(id) \/ prepare(id)
    \/ planSpawn(id) \/ runCommand(id) \/ perform(id) \/ inspect(id) \/ inspectFails(id)
    \/ resolve(id) \/ resolveRunOutcome(id) \/ resolveFails(id)
    \/ recordResolved(id) \/ cleanupWorktree(id) \/ dispose(id)

\* A handler never goes back to where it could still add to its worktree.
LEMMA HandlerProgress ==
  ASSUME IInv, NEW id \in Ids, HandlerOf(id)
  PROVE  \A x \in DOMAIN sent :
           /\ x \in DOMAIN sent' /\ run(x)' = run(x) /\ sent'[x] = sent[x]
           /\ (Set(x) => Set(x)') /\ (Over(x) => Over(x)')
<1> DEFINE moves(where) == step' = [step EXCEPT ![id] = where]
           kept == sent' = sent /\ (journal' = journal \/ \E e \in Record : append(e))
<1>1. id \in DOMAIN sent
  BY DEF HandlerOf, resolveGrant, issue, decline, buildEnvironment, prepareFails,
         recordPrepared, prepare, planSpawn, runCommand, perform, inspect, inspectFails,
         resolve, resolveRunOutcome, resolveFails, recordResolved, cleanupWorktree, dispose,
         At
<1>2. CASE throws(id)
  BY <1>1, <1>2, Moved DEF throws, disk
<1>3. CASE decline(id) \/ prepareFails(id) \/ inspectFails(id) \/ resolveFails(id)
  BY <1>2, <1>3 DEF decline, prepareFails, inspectFails, resolveFails
<1>4. CASE prepare(id) \/ perform(id) \/ inspect(id) \/ dispose(id)
  <2>1. \E verdict \in Written : settleCommand(id, verdict)
    BY <1>4 DEF prepare, perform, inspect, dispose, Written
  <2>2. kept /\ moves("idle")
    BY <1>1, <1>4, <2>1, Journalled
       DEF prepare, perform, inspect, dispose, settleCommand
  <2> QED BY <1>1, <2>2, Moved
<1>5. CASE resolveGrant(id) /\ ~throws(id)
  <2>1. /\ kept /\ step[id] = "begun"
        /\ \E where \in {"granted", "asking"} : moves(where)
    BY <1>5 DEF resolveGrant, At, goto, disk
  <2> QED BY <1>1, <2>1, Moved
<1>6. CASE issue(id)
  BY <1>1, <1>6, Moved DEF issue, At, goto
<1>7. CASE planSpawn(id)
  <2>1. /\ kept /\ step[id] = "begun" /\ \E where \in {"spawned", "failing"} : moves(where)
    BY <1>7 DEF planSpawn, At, goto, disk
  <2> QED BY <1>1, <2>1, Moved
<1>8. CASE recordPrepared(id) \/ recordResolved(id)
  <2>1. kept /\ moves("recorded")
    BY <1>1, <1>8, Journalled DEF recordPrepared, recordResolved, At, goto
  <2> QED BY <1>1, <2>1, Moved
<1>9. CASE \/ buildEnvironment(id) \/ runCommand(id) \/ resolve(id) \/ resolveRunOutcome(id)
           \/ cleanupWorktree(id)
  <2>1. kept /\ \E where \in {"added", "done", "failing", "deciding", "git"} : moves(where)
    BY <1>9 DEF buildEnvironment, runCommand, resolve, resolveRunOutcome, cleanupWorktree,
                goto, disk
  <2> QED BY <1>1, <2>1, Moved
<1> QED BY <1>2, <1>3, <1>4, <1>5, <1>6, <1>7, <1>8, <1>9 DEF HandlerOf

\* A command that begins was not on record.
LEMMA BeginProgress ==
  ASSUME IInv, NEW id \in Ids, NEW c \in Command, begin(id, c), entries[id] = "unknown",
         DOMAIN sent' = DOMAIN sent \cup {id}, \A x \in DOMAIN sent : sent'[x] = sent[x]
  PROVE  /\ \A x \in DOMAIN sent :
              /\ x \in DOMAIN sent' /\ run(x)' = run(x) /\ sent'[x] = sent[x]
              /\ (Set(x) => Set(x)') /\ (Over(x) => Over(x)')
         /\ \A x \in DOMAIN sent' : step'[x] \in {"deciding", "git"} =>
              x \in DOMAIN sent /\ step'[x] = step[x]
<1>1. ~started(id) /\ step[id] = "idle"
  BY DEF IInv, Types, StartedInv
<1>2. journal' = journal \/ \E e \in Record : append(e)
  BY CommandType, RecordType DEF begin
<1>3. \A x : started(x) => started(x)'
  BY <1>2, StartedStays
<1>4. /\ \A x \in Ids \ {id} : step'[x] = step[x]
      /\ step'[id] \in {"idle", "begun"}
  BY <1>1 DEF begin, goto, IInv, Types
<1>5. \A x \in DOMAIN sent : x \in Ids
  BY SentType DEF IInv
<1> QED BY <1>1, <1>3, <1>4, <1>5 DEF Set, Over, run

\* What is in the worktrees only shrinks, and no discard moves.
LEMMA WQuiet ==
  ASSUME IInv, WInv,
         \A x \in DOMAIN sent :
            /\ x \in DOMAIN sent' /\ run(x)' = run(x) /\ sent'[x] = sent[x]
            /\ (Set(x) => Set(x)') /\ (Over(x) => Over(x)'),
         \A x \in DOMAIN sent' : step'[x] \in {"deciding", "git"} =>
            x \in DOMAIN sent /\ step'[x] = step[x],
         \A r \in Runs : tree'[r] \subseteq tree[r],
         UNCHANGED <<found, discarded>>
  PROVE  WInv'
<1>1. \A r \in Runs : \A x \in tree'[r] : x \in DOMAIN sent' /\ run(x)' = r /\ Set(x)'
  BY DEF WInv
<1>2. \A id \in Ids : \A x \in found'[id] :
         x \in DOMAIN sent' /\ id \in DOMAIN sent' /\ run(x)' = run(id)' /\ Over(x)'
  BY DEF WInv
<1>3. \A id \in DOMAIN sent' :
        /\ step'[id] \in {"deciding", "git"} /\ sent'[id].arg # "discard" => found'[id] = {}
        /\ step'[id] = "git" => \A r \in Runs : found'[id] \cap tree'[r] = {}
  BY DEF WInv
<1>4. \A x \in discarded' : x \in DOMAIN sent' /\ Over(x)' /\ \A r \in Runs : x \notin tree'[r]
  BY DEF WInv
<1> QED BY <1>1, <1>2, <1>3, <1>4 DEF WInv

\* A command adds its work, when it had not come so far or is not over.
LEMMA WAdd ==
  ASSUME IInv, WInv, NEW id \in DOMAIN sent, Set(id)', ~Over(id),
         \A x \in DOMAIN sent :
            /\ x \in DOMAIN sent' /\ run(x)' = run(x) /\ sent'[x] = sent[x]
            /\ (Set(x) => Set(x)') /\ (Over(x) => Over(x)'),
         sent' = sent,
         \A x \in DOMAIN sent : step'[x] \in {"deciding", "git"} => step'[x] = step[x],
         \A r \in Runs : tree'[r] \subseteq IF r = run(id) THEN tree[r] \cup {id} ELSE tree[r],
         UNCHANGED <<found, discarded>>
  PROVE  WInv'
<1>1. \A r \in Runs : \A x \in tree'[r] : x \in DOMAIN sent' /\ run(x)' = r /\ Set(x)'
  BY DEF WInv
<1>2. \A x \in Ids : \A y \in found'[x] :
         y \in DOMAIN sent' /\ x \in DOMAIN sent' /\ run(y)' = run(x)' /\ Over(y)'
  BY DEF WInv
<1>3. \A x \in DOMAIN sent : x \in Ids /\ id \notin found[x]
  BY SentType DEF WInv, IInv
<1>4. \A x \in DOMAIN sent' :
        /\ step'[x] \in {"deciding", "git"} /\ sent'[x].arg # "discard" => found'[x] = {}
        /\ step'[x] = "git" => \A r \in Runs : found'[x] \cap tree'[r] = {}
  BY <1>3 DEF WInv
<1>5. \A x \in discarded' : x \in DOMAIN sent' /\ Over(x)' /\ \A r \in Runs : x \notin tree'[r]
  BY DEF WInv
<1> QED BY <1>1, <1>2, <1>4, <1>5 DEF WInv

\* A dispose looks at the worktree, has Git remove it, and records it.
LEMMA WResolve ==
  ASSUME IInv, WInv, NEW id \in Ids, resolve(id)
  PROVE  WInv'
<1> DEFINE seen == IF sent[id].arg = "discard"
                   THEN {x \in tree[run(id)] : step[x] # "spawned"} ELSE {}
<1>1. /\ id \in DOMAIN sent /\ step[id] = "begun" /\ found' = [found EXCEPT ![id] = seen]
      /\ step' = [step EXCEPT ![id] = "deciding"]
      /\ UNCHANGED <<sent, tree, discarded>>
  BY DEF resolve, At, goto, disk
<1>2. run(id) \in Runs
  BY <1>1, SentType DEF IInv
<1>3. \A x \in DOMAIN sent :
        /\ x \in DOMAIN sent' /\ run(x)' = run(x) /\ sent'[x] = sent[x]
        /\ (Set(x) => Set(x)') /\ (Over(x) => Over(x)')
  BY HandlerProgress DEF HandlerOf
<1>4. \A x \in seen : x \in DOMAIN sent /\ run(x) = run(id) /\ Over(x)
  BY <1>2 DEF WInv, Over
<1>5. sent[id].arg # "discard" => seen = {}
  OBVIOUS
<1> HIDE DEF seen
<1>6. /\ \A x \in Ids : found'[x] = IF x = id THEN seen ELSE found[x]
      /\ \A x \in Ids : step'[x] = IF x = id THEN "deciding" ELSE step[x]
  BY <1>1 DEF IInv, Types
<1>7. \A r \in Runs : \A x \in tree'[r] : x \in DOMAIN sent' /\ run(x)' = r /\ Set(x)'
  BY <1>1, <1>3 DEF WInv
<1>8. \A x \in Ids : \A y \in found'[x] :
         y \in DOMAIN sent' /\ x \in DOMAIN sent' /\ run(y)' = run(x)' /\ Over(y)'
  BY <1>1, <1>3, <1>4, <1>6 DEF WInv
<1>9. \A x \in DOMAIN sent' : x \in Ids /\
        /\ step'[x] \in {"deciding", "git"} /\ sent'[x].arg # "discard" => found'[x] = {}
        /\ step'[x] = "git" => \A r \in Runs : found'[x] \cap tree'[r] = {}
  BY <1>1, <1>5, <1>6, SentType DEF WInv, IInv
<1>10. \A x \in discarded' : x \in DOMAIN sent' /\ Over(x)' /\ \A r \in Runs : x \notin tree'[r]
  BY <1>1, <1>3 DEF WInv
<1> QED BY <1>7, <1>8, <1>9, <1>10 DEF WInv

LEMMA WGit ==
  ASSUME IInv, WInv, NEW id \in Ids, resolveRunOutcome(id)
  PROVE  WInv'
<1>1. /\ id \in DOMAIN sent /\ step[id] = "deciding"
      /\ tree' = IF sent[id].arg = "discard" THEN [tree EXCEPT ![run(id)] = {}] ELSE tree
      /\ step' = [step EXCEPT ![id] = "git"]
      /\ UNCHANGED <<sent, found, discarded>>
  BY DEF resolveRunOutcome, At, goto, history
<1>2. run(id) \in Runs
  BY <1>1, SentType DEF IInv
<1>3. \A x \in DOMAIN sent :
        /\ x \in DOMAIN sent' /\ run(x)' = run(x) /\ sent'[x] = sent[x]
        /\ (Set(x) => Set(x)') /\ (Over(x) => Over(x)')
  BY HandlerProgress DEF HandlerOf
<1>4. /\ \A r \in Runs : tree'[r] \subseteq tree[r]
      /\ sent[id].arg = "discard" => tree'[run(id)] = {}
      /\ \A x \in Ids : step'[x] = IF x = id THEN "git" ELSE step[x]
  BY <1>1, <1>2 DEF IInv, Types
<1>5. \A r \in Runs : found[id] \cap tree'[r] = {}
  <2>1. CASE sent[id].arg = "discard"
    <3>1. \A r \in Runs : \A x \in found[id] \cap tree'[r] : run(x) = r /\ run(x) = run(id)
      BY <1>4 DEF WInv
    <3> QED BY <1>4, <2>1, <3>1
  <2>2. CASE sent[id].arg # "discard"
    BY <1>1, <2>2 DEF WInv
  <2> QED BY <2>1, <2>2
<1>6. \A r \in Runs : \A x \in tree'[r] : x \in DOMAIN sent' /\ run(x)' = r /\ Set(x)'
  BY <1>1, <1>3, <1>4 DEF WInv
<1>7. \A x \in Ids : \A y \in found'[x] :
         y \in DOMAIN sent' /\ x \in DOMAIN sent' /\ run(y)' = run(x)' /\ Over(y)'
  BY <1>1, <1>3 DEF WInv
<1>8. \A x \in DOMAIN sent : x \in Ids /\
        /\ step'[x] \in {"deciding", "git"} /\ sent[x].arg # "discard" => found[x] = {}
        /\ step'[x] = "git" => \A r \in Runs : found[x] \cap tree'[r] = {}
  <2> SUFFICES ASSUME NEW x \in DOMAIN sent
               PROVE  x \in Ids /\
                 /\ step'[x] \in {"deciding", "git"} /\ sent[x].arg # "discard" => found[x] = {}
                 /\ step'[x] = "git" => \A r \in Runs : found[x] \cap tree'[r] = {}
    OBVIOUS
  <2>1. x \in Ids
    BY SentType DEF IInv
  <2>2. CASE x = id
    BY <1>1, <1>5, <2>1, <2>2 DEF WInv
  <2>3. CASE x # id
    BY <1>4, <2>1, <2>3 DEF WInv
  <2> QED BY <2>2, <2>3
<1>9. \A x \in discarded' : x \in DOMAIN sent' /\ Over(x)' /\ \A r \in Runs : x \notin tree'[r]
  BY <1>1, <1>3, <1>4 DEF WInv
<1> QED BY <1>1, <1>6, <1>7, <1>8, <1>9 DEF WInv

LEMMA WRecord ==
  ASSUME IInv, WInv, NEW id \in Ids, recordResolved(id)
  PROVE  WInv'
<1>1. /\ id \in DOMAIN sent /\ step[id] = "git" /\ discarded' = discarded \cup found[id]
      /\ step' = [step EXCEPT ![id] = "recorded"]
      /\ UNCHANGED <<sent, tree, found>>
  BY DEF recordResolved, At, goto
<1>2. \A x \in DOMAIN sent :
        /\ x \in DOMAIN sent' /\ run(x)' = run(x) /\ sent'[x] = sent[x]
        /\ (Set(x) => Set(x)') /\ (Over(x) => Over(x)')
  BY HandlerProgress DEF HandlerOf
<1>3. \A x \in Ids : step'[x] = IF x = id THEN "recorded" ELSE step[x]
  BY <1>1 DEF IInv, Types
<1>4. \A r \in Runs : \A x \in tree'[r] : x \in DOMAIN sent' /\ run(x)' = r /\ Set(x)'
  BY <1>1, <1>2 DEF WInv
<1>5. \A x \in Ids : \A y \in found'[x] :
         y \in DOMAIN sent' /\ x \in DOMAIN sent' /\ run(y)' = run(x)' /\ Over(y)'
  BY <1>1, <1>2 DEF WInv
<1>6. \A x \in DOMAIN sent : x \in Ids /\
        /\ step'[x] \in {"deciding", "git"} /\ sent[x].arg # "discard" => found[x] = {}
        /\ step'[x] = "git" => \A r \in Runs : found[x] \cap tree[r] = {}
  BY <1>3, SentType DEF WInv, IInv
<1>7. \A x \in discarded' : x \in DOMAIN sent' /\ Over(x)' /\ \A r \in Runs : x \notin tree'[r]
  <2>1. \A x \in found[id] : x \in DOMAIN sent /\ Over(x) /\ \A r \in Runs : x \notin tree[r]
    BY <1>1 DEF WInv
  <2> QED BY <1>1, <1>2, <2>1 DEF WInv
<1> QED BY <1>1, <1>4, <1>5, <1>6, <1>7 DEF WInv

LEMMA WTouch ==
  ASSUME IInv, WInv, NEW id \in Ids, touch(id)
  PROVE  WInv'
<1>1. /\ id \in DOMAIN sent /\ step[id] = "spawned"
      /\ tree' \in {tree, [tree EXCEPT ![run(id)] = @ \cup {id}]}
      /\ UNCHANGED <<sent, journal, step, found, discarded>>
  BY DEF touch, At, memory
<1>2. run(id) \in Runs /\ started(id)
  BY <1>1, SentType DEF IInv, Types, StartedInv
<1>3. \A x : started(x)' <=> started(x)
  BY <1>1 DEF started, recorded
<1>4. /\ Set(id)' /\ ~Over(id)
      /\ \A x \in DOMAIN sent :
           /\ x \in DOMAIN sent' /\ run(x)' = run(x) /\ sent'[x] = sent[x]
           /\ (Set(x) => Set(x)') /\ (Over(x) => Over(x)')
  BY <1>1, <1>2, <1>3 DEF Set, Over, run
<1>5. \A r \in Runs : tree'[r] \subseteq IF r = run(id) THEN tree[r] \cup {id} ELSE tree[r]
  BY <1>1, <1>2 DEF IInv, Types
<1> QED BY <1>1, <1>4, <1>5, WAdd

LEMMA WBuild ==
  ASSUME IInv, WInv, NEW id \in Ids, buildEnvironment(id)
  PROVE  WInv'
<1>1. /\ id \in DOMAIN sent /\ step[id] = "granted"
      /\ tree' = [tree EXCEPT ![run(id)] = addWorktree(@, id)]
      /\ step' = [step EXCEPT ![id] = "added"]
      /\ UNCHANGED <<sent, journal, found, discarded>>
  BY DEF buildEnvironment, At, goto, history
<1>2. run(id) \in Runs /\ started(id)
  BY <1>1, SentType DEF IInv, Types, StartedInv
<1>3. started(id)'
  BY <1>1, <1>2 DEF started, recorded
<1>4. \A x \in Ids : step'[x] = IF x = id THEN "added" ELSE step[x]
  BY <1>1 DEF IInv, Types
<1>5. Set(id)' /\ ~Over(id)
  BY <1>1, <1>3, <1>4 DEF Set, Over
<1>6. \A x \in DOMAIN sent :
        /\ x \in DOMAIN sent' /\ run(x)' = run(x) /\ sent'[x] = sent[x]
        /\ (Set(x) => Set(x)') /\ (Over(x) => Over(x)')
  BY HandlerProgress DEF HandlerOf
<1>7. \A r \in Runs : tree'[r] \subseteq IF r = run(id) THEN tree[r] \cup {id} ELSE tree[r]
  BY <1>1, <1>2 DEF IInv, Types, addWorktree
<1>8. \A x \in DOMAIN sent : step'[x] \in {"deciding", "git"} => step'[x] = step[x]
  BY <1>4, SentType DEF IInv
<1> QED BY <1>1, <1>5, <1>6, <1>7, <1>8, WAdd

LEMMA WHandler ==
  ASSUME IInv, WInv, NEW id \in Ids, HandlerOf(id)
  PROVE  WInv'
<1>1. CASE buildEnvironment(id)
  BY <1>1, WBuild
<1>2. CASE resolve(id) \/ resolveRunOutcome(id) \/ recordResolved(id)
  BY <1>2, WResolve, WGit, WRecord
<1>3. CASE ~(\/ buildEnvironment(id) \/ resolve(id) \/ resolveRunOutcome(id)
            \/ recordResolved(id))
  <2> DEFINE moves(where) == step' = [step EXCEPT ![id] = where]
             there == {"idle", "granted", "asking", "recorded", "spawned", "done", "failing"}
  <2>1. /\ \E where \in there : moves(where)
        /\ \A r \in Runs : tree'[r] \subseteq tree[r]
        /\ UNCHANGED <<sent, found, discarded>>
    <3>1. CASE throws(id)
      BY <3>1 DEF throws, disk, history
    <3>2. CASE decline(id) \/ prepareFails(id) \/ inspectFails(id) \/ resolveFails(id)
      BY <3>1, <3>2 DEF decline, prepareFails, inspectFails, resolveFails
    <3>3. CASE resolveGrant(id) /\ ~throws(id)
      BY <3>3 DEF resolveGrant, goto, disk, history
    <3>4. CASE prepare(id) \/ perform(id) \/ inspect(id) \/ dispose(id)
      BY <3>4 DEF prepare, perform, inspect, dispose, settleCommand, history
    <3>5. CASE issue(id) \/ recordPrepared(id) \/ planSpawn(id) \/ runCommand(id)
      BY <3>5 DEF issue, recordPrepared, planSpawn, runCommand, goto, disk, history
    <3>6. CASE cleanupWorktree(id)
      <4>1. PICK left : left \in {tree[run(id)], {}} /\ tree' = [tree EXCEPT ![run(id)] = left]
        BY <3>6 DEF cleanupWorktree
      <4>2. \A r \in Runs : tree'[r] \subseteq tree[r]
        BY <4>1 DEF IInv, Types
      <4> QED BY <3>6, <4>2 DEF cleanupWorktree, goto, history
    <3> QED BY <1>3, <3>1, <3>2, <3>3, <3>4, <3>5, <3>6 DEF HandlerOf
  <2>2. \A x \in Ids : step'[x] \in {"deciding", "git"} => step'[x] = step[x]
    BY <2>1 DEF IInv, Types
  <2>3. \A x \in DOMAIN sent : x \in Ids
    BY SentType DEF IInv
  <2> QED BY <2>1, <2>2, <2>3, HandlerProgress, WQuiet
<1> QED BY <1>1, <1>2, <1>3

LEMMA WInit == Init => WInv
BY DEF Init, WInv

LEMMA WNext == IInv /\ WInv /\ [Next]_vars => WInv'
<1> SUFFICES ASSUME IInv, WInv, [Next]_vars PROVE WInv'
  OBVIOUS
<1>1. CASE Receive
  <2>1. PICK c \in Command : sent' = Append(sent, c) /\ begin(Len(sent) + 1, c)
    BY <1>1 DEF Receive
  <2> DEFINE id == Len(sent) + 1
  <2>2. Len(sent) < MaxCommands /\ MaxCommands \in Nat /\ sent \in Seq(Command)
        /\ UNCHANGED <<tree, found, discarded>>
    BY <1>1, RunnerAssumption DEF Receive, IInv, Types, history
  <2>3. /\ id \in Ids /\ id \notin DOMAIN sent
        /\ DOMAIN sent' = DOMAIN sent \cup {id} /\ \A x \in DOMAIN sent : sent'[x] = sent[x]
    BY <2>1, <2>2 DEF Ids
  <2>4. entries[id] = "unknown"
    BY <2>3 DEF IInv, Types
  <2>5. begin(id, c)
    BY <2>1
  <2> HIDE DEF id
  <2> QED BY <2>2, <2>3, <2>4, <2>5, BeginProgress, WQuiet
<1>2. ASSUME NEW id \in Ids, ReceiveAgain(id) PROVE WInv'
  <2>1. /\ id \in DOMAIN sent /\ entries[id] = "unknown" /\ begin(id, sent[id])
        /\ UNCHANGED <<sent, tree, found, discarded>>
    BY <1>2 DEF ReceiveAgain, history
  <2>2. sent[id] \in Command
    BY <2>1 DEF IInv, Types
  <2>3. DOMAIN sent = DOMAIN sent \cup {id}
    BY <2>1
  <2> QED BY <2>1, <2>2, <2>3, BeginProgress, WQuiet
<1>3. ASSUME UNCHANGED <<sent, journal, tree, found, discarded>>,
             step' = step \/ step' = [id \in Ids |-> "idle"]
      PROVE  WInv'
  <2>1. \A x : started(x)' <=> started(x)
    BY <1>3 DEF started, recorded
  <2>2. \A x \in DOMAIN sent : x \in Ids /\ step'[x] \in {step[x], "idle"}
    BY <1>3, SentType DEF IInv
  <2>3. \A x \in DOMAIN sent :
          /\ x \in DOMAIN sent' /\ run(x)' = run(x) /\ sent'[x] = sent[x]
          /\ (Set(x) => Set(x)') /\ (Over(x) => Over(x)')
    BY <1>3, <2>1, <2>2 DEF Set, Over, run
  <2> QED BY <1>3, <2>2, <2>3, WQuiet
<1>4. ASSUME NEW id \in Ids, Answer(id) PROVE WInv'
  BY <1>3, <1>4 DEF Answer, disk, memory, history
<1>5. CASE clearGrants \/ Relaunch \/ UNCHANGED vars
  BY <1>3, <1>5 DEF clearGrants, Relaunch, vars, disk, memory, history
<1>6. ASSUME NEW id \in Ids, touch(id) PROVE WInv'
  BY <1>6, WTouch
<1> QED BY <1>1, <1>2, <1>4, <1>5, <1>6, WHandler DEF Next, HandlerOf

\* No failure, no overlap and no relaunch loses a discard: what it found in the
\* worktree, of commands that were over, is gone once it is on record.
THEOREM DiscardIsDone == Spec => []RecordedMeansDone
<1>1. WInv => RecordedMeansDone
  BY DEF WInv, RecordedMeansDone
<1> QED BY InitHolds, NextHolds, WInit, WNext, <1>1, PTL DEF Spec

-----------------------------------------------------------------------------
\* What the server was told is done is done.

Running(id) == entries[id] = "running"
Resolved(r) == \E i \in recorded("resolved") : journal[i].run = r
Found(r) == r \in runs \cap recoveredHandles \/ recoveredDecision[r] # "none"

\* The decision of a dispose is on record since it began.
Decides(id) == \E j \in recorded("started"), i \in recorded("resolved") :
    /\ journal[j].id = id /\ journal[i].run = run(id) /\ journal[i].outcome \in {sent[id].arg}
    /\ j < i

\* What a command that was settled as done has left behind.
Effect(id) ==
    /\ op(id) = "prepare" => Found(run(id))
    /\ op(id) = "perform" => ran[id] = 1
    /\ op(id) = "dispose" => Decides(id)

\* A command is settled once; only what is settled as done is called done, and what
\* is settled as already resolved is.
Settled(id) ==
    /\ settled(id) \in {{}, {"ok"}, {"already"}, {"failed"}}
    /\ Running(id) => settled(id) = {}
    /\ \A v \in {"ok", "already"} : v \in {entries[id], answers[id]} => settled(id) = {v}
    /\ settled(id) = {"ok"} => Effect(id)
    /\ settled(id) = {"already"} => Resolved(run(id))

\* What a handler has left behind before it settles.
Reached(id) ==
    /\ op(id) = "prepare" /\ step[id] = "recorded" => Found(run(id))
    /\ op(id) = "perform" /\ step[id] \in {"spawned", "done"} => ran[id] = 1
    /\ op(id) = "dispose" /\ step[id] \in {"recorded", "done"} => Decides(id)

AInv ==
    /\ \A id \in DOMAIN sent : Settled(id) /\ Reached(id)
    /\ \A r \in Runs : decision[r] # "none" => Resolved(r)
    /\ \A id \in Ids : answers[id] # "none" => id \in DOMAIN sent

LEMMA Decided ==
  ASSUME NEW r \in Runs
  PROVE  recoveredDecision[r] = IF last(Ended, r).kind = "resolved"
                                THEN last(Ended, r).outcome ELSE "none"
BY DEF recoveredDecision, Ended

LEMMA DecidedAfter ==
  ASSUME IInv, NEW e \in Record, append(e), NEW r \in Runs
  PROVE  /\ last(Ended, r)' = IF e.kind \in Ended /\ e.run = r THEN e ELSE last(Ended, r)
         /\ ~(e.kind \in Ended /\ e.run = r) => (recoveredDecision[r])' = recoveredDecision[r]
         /\ e.kind = "resolved" /\ e.run = r => (recoveredDecision[r])' = e.outcome
         /\ e.kind = "prepared" /\ e.run = r => (recoveredDecision[r])' = "none"
<1>1. journal \in Seq(Record) /\ HasLast(Ended, r)
  BY DEF IInv, Types, JournalInv
<1>2. last(Ended, r)' = IF e.kind \in Ended /\ e.run = r THEN e ELSE last(Ended, r)
  BY <1>1, LastAfter
<1>3. (recoveredDecision[r])' = IF last(Ended, r)'.kind = "resolved"
                                THEN last(Ended, r)'.outcome ELSE "none"
  BY DEF recoveredDecision, Ended
<1> QED BY <1>2, <1>3, Decided DEF Ended

\* A handle is found when its preparation has the last word.
LEMMA Handles ==
  ASSUME NEW r \in Runs
  PROVE  r \in recoveredHandles <=> last(Ended, r).kind = "prepared"
BY DEF recoveredHandles, Ended

\* An append resolves a Run when it says so.
LEMMA ResolvedAfter ==
  ASSUME journal \in Seq(Record), NEW e \in Record, append(e), NEW r
  PROVE  Resolved(r)' <=> Resolved(r) \/ (e.kind = "resolved" /\ e.run = r)
BY Appended DEF Resolved, recorded

\* What is recovered as decided was resolved.
LEMMA DecidedResolved ==
  ASSUME IInv, NEW r \in Runs, recoveredDecision[r] # "none"
  PROVE  Resolved(r)
<1> DEFINE at == {i \in DOMAIN journal : journal[i].kind \in Ended /\ journal[i].run = r}
           top == CHOOSE i \in at : \A j \in at : j <= i
<1>1. last(Ended, r) = IF at = {} THEN [kind |-> "nothing"] ELSE journal[top]
  BY DEF last
<1>2. last(Ended, r).kind = "resolved"
  BY Decided
<1>3. at # {}
  <2>1. [kind |-> "nothing"].kind # "resolved"
    OBVIOUS
  <2> QED BY <1>1, <1>2, <2>1
<1>4. at = {} \/ \E i \in at : \A j \in at : j <= i
  BY DEF IInv, JournalInv, HasLast
<1>5. top \in at
  <2> HIDE DEF at
  <2> QED BY <1>3, <1>4
<1>6. journal[top].kind = "resolved"
  BY <1>1, <1>2, <1>3
<1> HIDE DEF top
<1>7. top \in DOMAIN journal /\ journal[top].run = r
  BY <1>5
<1> QED BY <1>6, <1>7 DEF Resolved, recorded

\* The journal grows by what the host knows of, or a launch finds what is there.
Grows ==
    \/ journal' = journal /\ runs \cap recoveredHandles \subseteq runs'
    \/ /\ runs \subseteq runs'
       /\ \E e \in Record : append(e) /\ (e.kind = "prepared" => e.run \in runs')

\* What is on record as resolved stays so, and what can be found.
LEMMA RunKept ==
  ASSUME IInv, NEW r \in Runs, Grows
  PROVE  (Resolved(r) => Resolved(r)') /\ (Found(r) => Found(r)')
<1>1. CASE journal' = journal /\ runs \cap recoveredHandles \subseteq runs'
  <2>1. recoveredHandles' = recoveredHandles /\ recoveredDecision' = recoveredDecision
    BY <1>1 DEF recoveredHandles, recoveredDecision, last
  <2> QED BY <1>1, <2>1 DEF Resolved, Found, recorded
<1>2. CASE /\ runs \subseteq runs'
           /\ \E e \in Record : append(e) /\ (e.kind = "prepared" => e.run \in runs')
  <2>1. PICK e \in Record : append(e) /\ (e.kind = "prepared" => e.run \in runs')
    BY <1>2
  <2>2. journal \in Seq(Record)
    BY DEF IInv, Types
  <2>3. Resolved(r) => Resolved(r)'
    BY <2>1, <2>2, ResolvedAfter
  <2>4. r \in recoveredHandles' <=> last(Ended, r)'.kind = "prepared"
    BY DEF recoveredHandles, Ended
  <2>5. CASE e.kind \in Ended /\ e.run = r
    <3>1. CASE e.kind = "prepared"
      BY <2>1, <2>3, <2>4, <2>5, <3>1, DecidedAfter DEF Found
    <3>2. CASE e.kind = "resolved"
      <4>1. e.outcome # "none"
        BY <3>2, EntryType DEF Outcomes
      <4> QED BY <2>1, <2>3, <2>5, <3>2, <4>1, DecidedAfter DEF Found
    <3> QED BY <2>5, <3>1, <3>2 DEF Ended
  <2>6. CASE ~(e.kind \in Ended /\ e.run = r)
    <3>1. last(Ended, r)' = last(Ended, r) /\ (recoveredDecision[r])' = recoveredDecision[r]
      BY <2>1, <2>6, DecidedAfter
    <3>2. r \in recoveredHandles => r \in recoveredHandles'
      BY <2>4, <3>1, Handles
    <3> QED BY <1>2, <2>3, <3>1, <3>2 DEF Found
  <2> QED BY <2>5, <2>6
<1> QED BY <1>1, <1>2 DEF Grows

LEMMA DecidesKept ==
  ASSUME IInv, NEW id \in DOMAIN sent, sent'[id] = sent[id], Grows, Decides(id)
  PROVE  Decides(id)'
<1>1. PICK j \in recorded("started"), i \in recorded("resolved") :
        /\ journal[j].id = id /\ journal[i].run = run(id)
        /\ journal[i].outcome \in {sent[id].arg} /\ j < i
  BY DEF Decides
<1>2. \A k \in DOMAIN journal : k \in DOMAIN journal' /\ journal'[k] = journal[k]
  <2>1. journal \in Seq(Record)
    BY DEF IInv, Types
  <2> QED BY <2>1, Appended DEF Grows
<1>3. j \in recorded("started")' /\ i \in recorded("resolved")'
  BY <1>2 DEF recorded
<1>4. j \in DOMAIN journal /\ i \in DOMAIN journal
  BY DEF recorded
<1>5. journal'[j].id = id /\ journal'[i].run = run(id)' /\ journal'[i].outcome \in {sent'[id].arg}
  BY <1>1, <1>2, <1>4 DEF run
<1> QED BY <1>1, <1>3, <1>5 DEF Decides

\* A step keeps what commands have left behind.
LEMMA EffectKept ==
  ASSUME IInv, Grows, NEW x \in DOMAIN sent, sent'[x] = sent[x], ran[x] = 1 => ran'[x] = 1
  PROVE  /\ run(x) \in Runs /\ run(x)' = run(x) /\ op(x)' = op(x)
         /\ Resolved(run(x)) => Resolved(run(x))'
         /\ Found(run(x)) => Found(run(x))'
         /\ Decides(x) => Decides(x)'
         /\ Effect(x) => Effect(x)'
<1>1. run(x) \in Runs /\ run(x)' = run(x) /\ op(x)' = op(x)
  BY SentType DEF IInv, run, op
<1>2. PICK r \in Runs : r = run(x) /\ r = run(x)'
  BY <1>1
<1>3. (Resolved(r) => Resolved(r)') /\ (Found(r) => Found(r)')
  BY RunKept
<1>4. Resolved(run(x))' <=> Resolved(r)'
  BY <1>2 DEF Resolved
<1>5. Found(run(x))' <=> Found(r)'
  BY <1>2 DEF Found
<1>6. Decides(x) => Decides(x)'
  BY DecidesKept
<1> QED BY <1>1, <1>2, <1>3, <1>4, <1>5, <1>6 DEF Effect

\* What is called done was settled so; who moved has left behind what it should.
LEMMA AStep ==
  ASSUME IInv, AInv, Grows,
         \A x \in DOMAIN sent :
            /\ x \in DOMAIN sent' /\ sent'[x] = sent[x] /\ (ran[x] = 1 => ran'[x] = 1)
            /\ \/ Settled(x)'
               \/ /\ settled(x)' = settled(x)
                  /\ Running(x)' => settled(x) = {}
                  /\ \A v \in {"ok", "already"} :
                       v \in {entries'[x], answers'[x]} => settled(x) = {v}
            /\ step'[x] = step[x] \/ Reached(x)',
         \A x \in DOMAIN sent' \ DOMAIN sent :
            /\ settled(x)' = {} /\ step'[x] \in {"idle", "begun"}
            /\ {entries'[x], answers'[x]} \cap {"ok", "already"} = {},
         \A r \in Runs : decision'[r] # "none" => Resolved(r)',
         \A x \in Ids : answers'[x] # "none" => x \in DOMAIN sent'
  PROVE  AInv'
<1>1. ASSUME NEW x \in DOMAIN sent PROVE Settled(x)' /\ Reached(x)'
  <2>1. Settled(x) /\ Reached(x)
    BY DEF AInv
  <2>2. /\ run(x)' = run(x) /\ op(x)' = op(x)
        /\ Resolved(run(x)) => Resolved(run(x))'
        /\ Found(run(x)) => Found(run(x))'
        /\ Decides(x) => Decides(x)'
        /\ Effect(x) => Effect(x)'
    BY EffectKept
  <2>3. Settled(x)'
    BY <2>1, <2>2 DEF Settled
  <2>4. Reached(x)'
    BY <2>1, <2>2 DEF Reached
  <2> QED BY <2>3, <2>4
<1>2. ASSUME NEW x \in DOMAIN sent' \ DOMAIN sent PROVE Settled(x)' /\ Reached(x)'
  BY DEF Settled, Reached
<1> QED BY <1>1, <1>2 DEF AInv

\* A handler moves, and has left behind what its new place says.
LEMMA AMove ==
  ASSUME IInv, AInv, NEW id \in DOMAIN sent, NEW where, step' = [step EXCEPT ![id] = where],
         UNCHANGED <<sent, journal, answers, runs, decision>>,
         entries' \in {entries, [entries EXCEPT ![id] = "failed"]},
         \A x \in DOMAIN sent : ran[x] = 1 => ran'[x] = 1,
         \/ where \in {"idle", "asking", "granted", "added", "deciding", "git", "failing"}
         \/ op(id) = "perform" /\ where \in {"spawned", "done"} /\ ran'[id] = 1
         \/ op(id) = "dispose" /\ where = "done" /\ Decides(id)
  PROVE  AInv'
<1>1. Grows
  BY DEF Grows
<1>2. \A x \in DOMAIN sent : /\ x \in Ids /\ step'[x] = IF x = id THEN where ELSE step[x]
                             /\ entries'[x] \in {entries[x], "failed"}
  BY SentType DEF IInv, Types
<1>3. \A x : settled(x)' = settled(x)
  BY DEF settled, recorded
<1>4. Reached(id)'
  BY <1>1, <1>2, EffectKept DEF Reached
<1>5. \A x \in DOMAIN sent :
        /\ settled(x)' = settled(x)
        /\ Running(x)' => settled(x) = {}
        /\ \A v \in {"ok", "already"} : v \in {entries'[x], answers'[x]} => settled(x) = {v}
  BY <1>2, <1>3 DEF AInv, Settled, Running
<1>6. \A x \in DOMAIN sent : step'[x] = step[x] \/ Reached(x)'
  BY <1>2, <1>4
<1>7. \A r \in Runs : decision'[r] # "none" => Resolved(r)'
  BY <1>1, RunKept DEF AInv
<1>8. \A x \in Ids : answers'[x] # "none" => x \in DOMAIN sent'
  BY DEF AInv
<1> QED BY <1>1, <1>5, <1>6, <1>7, <1>8, AStep

LEMMA AThrow ==
  ASSUME IInv, AInv, NEW id \in DOMAIN sent, throws(id)
  PROVE  AInv'
BY AMove DEF throws, disk, history

\* A command that settles as done has reached its effect.
LEMMA ASettle ==
  ASSUME IInv, AInv, NEW id \in DOMAIN sent, NEW verdict \in Written,
         step[id] # "idle", settleCommand(id, verdict),
         verdict = "ok" =>
            /\ op(id) = "prepare" => step[id] = "recorded"
            /\ op(id) \in {"perform", "dispose"} => step[id] = "done",
         verdict = "already" => op(id) = "dispose" /\ decision[run(id)] # "none",
         UNCHANGED <<sent, answers, runs, decision, ran>>
  PROVE  AInv'
<1> DEFINE e == [kind |-> "settled", run |-> run(id), id |-> id, verdict |-> verdict]
<1>1. id \in Ids /\ run(id) \in Runs
  BY SentType DEF IInv
<1>2. /\ e \in Record /\ append(e) /\ journal \in Seq(Record)
      /\ entries' = [entries EXCEPT ![id] = verdict] /\ step' = [step EXCEPT ![id] = "idle"]
  BY <1>1, RecordType DEF settleCommand, IInv, Types
<1>3. e.kind = "settled" /\ e.id = id /\ e.verdict = verdict
  OBVIOUS
<1> HIDE DEF e
<1>4. Grows
  BY <1>2, <1>3 DEF Grows
<1>5. \A x \in DOMAIN sent : /\ x \in Ids /\ step'[x] = IF x = id THEN "idle" ELSE step[x]
                             /\ entries'[x] = IF x = id THEN verdict ELSE entries[x]
  BY <1>1, <1>2, SentType DEF IInv, Types
<1>6. \A x : settled(x)' = settled(x) \cup
           (IF e.kind = "settled" /\ e.id = x THEN {e.verdict} ELSE {})
  BY <1>2, SettledAfter
<1>7. ASSUME NEW x \in DOMAIN sent, x # id
      PROVE  /\ settled(x)' = settled(x)
             /\ Running(x)' => settled(x) = {}
             /\ \A v \in {"ok", "already"} : v \in {entries'[x], answers'[x]} => settled(x) = {v}
             /\ step'[x] = step[x]
  <2>1. settled(x)' = settled(x)
    BY <1>3, <1>6, <1>7
  <2>2. Settled(x) /\ entries'[x] = entries[x] /\ step'[x] = step[x] /\ answers'[x] = answers[x]
    BY <1>5, <1>7 DEF AInv
  <2> QED BY <2>1, <2>2 DEF Settled, Running
<1>8. Settled(id)' /\ Reached(id)'
  <2>1. Settled(id) /\ Reached(id) /\ Running(id)
    BY <1>1 DEF AInv, IInv, Types, Running
  <2>2. settled(id) = {} /\ settled(id)' = {verdict}
    BY <1>3, <1>6, <2>1 DEF Settled
  <2>3. answers'[id] \notin {"ok", "already"} /\ entries'[id] = verdict /\ ~Running(id)'
    BY <1>5, <2>1, <2>2 DEF Settled, Running, Written
  <2>4. verdict = "ok" => Effect(id)
    BY <2>1, SentType DEF Reached, Effect, IInv
  <2>5. verdict = "already" => Resolved(run(id))
    BY <1>1 DEF AInv
  <2>6. (Effect(id) => Effect(id)') /\ (Resolved(run(id)) => Resolved(run(id))')
    BY <1>4, EffectKept
  <2>7. Settled(id)'
    BY <2>2, <2>3, <2>4, <2>5, <2>6 DEF Settled, Written
  <2>8. Reached(id)'
    BY <1>5 DEF Reached
  <2> QED BY <2>7, <2>8
<1>9. \A r \in Runs : decision'[r] # "none" => Resolved(r)'
  BY <1>4, RunKept DEF AInv
<1>10. \A x \in Ids : answers'[x] # "none" => x \in DOMAIN sent'
  BY DEF AInv
<1> QED BY <1>4, <1>7, <1>8, <1>9, <1>10, AStep

\* A handle or a decision is recorded.
LEMMA ARecord ==
  ASSUME IInv, AInv, NEW id \in DOMAIN sent, NEW e \in Record, append(e), e.run = run(id),
         goto(id, "recorded"), step[id] # "idle", UNCHANGED <<sent, entries, answers, ran>>,
         \/ /\ e.kind = "prepared" /\ op(id) = "prepare"
            /\ runs' = runs \cup {run(id)} /\ decision' = decision
         \/ /\ e.kind = "resolved" /\ op(id) = "dispose" /\ e.outcome = sent[id].arg
            /\ runs' = runs /\ \A r \in Runs \ {run(id)} : decision'[r] = decision[r]
  PROVE  AInv'
<1>1. id \in Ids /\ run(id) \in Runs /\ journal \in Seq(Record) /\ started(id)
  BY SentType DEF IInv, Types, StartedInv
<1>2. Grows
  BY DEF Grows
<1>3. \A x \in DOMAIN sent : x \in Ids /\ step'[x] = IF x = id THEN "recorded" ELSE step[x]
  BY <1>1, SentType DEF IInv, Types, goto
<1>4. ASSUME NEW x PROVE settled(x)' = settled(x)
  <2>1. settled(x)' = settled(x) \cup
          (IF e.kind = "settled" /\ e.id = x THEN {e.verdict} ELSE {})
    BY <1>1, SettledAfter
  <2> QED BY <2>1
<1>5. Resolved(run(id))' <=> Resolved(run(id)) \/ e.kind = "resolved"
  <2>1. PICK r : r = run(id) /\ r = run(id)'
    BY DEF run
  <2>2. Resolved(run(id))' <=> Resolved(r)'
    BY <2>1 DEF Resolved
  <2> QED BY <1>1, <2>1, <2>2, ResolvedAfter
<1>6. Reached(id)'
  <2>1. CASE e.kind = "prepared"
    <3>1. run(id) \in runs' /\ op(id)' = "prepare" /\ run(id)' = run(id)
      BY <2>1 DEF op, run
    <3>2. last(Ended, run(id))' = e
      <4>1. PICK r \in Runs : r = run(id) /\ r = run(id)'
        BY <1>1, <3>1
      <4>2. last(Ended, r)' = e
        BY <2>1, <4>1, DecidedAfter DEF Ended
      <4>3. last(Ended, run(id))' = last(Ended, r)'
        BY <4>1 DEF last
      <4> QED BY <4>2, <4>3
    <3>3. run(id)' \in recoveredHandles'
      BY <1>1, <2>1, <3>1, <3>2 DEF recoveredHandles, Ended
    <3>4. Found(run(id))'
      BY <3>1, <3>3 DEF Found
    <3> QED BY <3>1, <3>4 DEF Reached
  <2>2. CASE e.kind = "resolved"
    <3>1. PICK j \in recorded("started") : journal[j].id = id
      BY <1>1 DEF started
    <3>2. j \in DOMAIN journal
      BY <3>1 DEF recorded
    <3>3. j \in recorded("started")' /\ journal'[j].id = id /\ j < Len(journal) + 1
      BY <1>1, <3>1, <3>2, Appended DEF recorded
    <3>4. /\ Len(journal) + 1 \in recorded("resolved")'
          /\ journal'[Len(journal) + 1].run = run(id)'
          /\ journal'[Len(journal) + 1].outcome \in {sent'[id].arg}
      BY <1>1, <2>2, Appended DEF recorded, run
    <3>5. Decides(id)'
      BY <3>3, <3>4 DEF Decides
    <3>6. op(id)' = "dispose"
      BY <2>2 DEF op
    <3> QED BY <3>5, <3>6 DEF Reached
  <2> QED BY <2>1, <2>2
<1>7. \A x \in DOMAIN sent :
        /\ settled(x)' = settled(x)
        /\ Running(x)' => settled(x) = {}
        /\ \A v \in {"ok", "already"} : v \in {entries'[x], answers'[x]} => settled(x) = {v}
  BY <1>4 DEF AInv, Settled, Running
<1>8. \A r \in Runs : decision'[r] # "none" => Resolved(r)'
  <2> SUFFICES ASSUME NEW r \in Runs, decision'[r] # "none" PROVE Resolved(r)'
    OBVIOUS
  <2>1. Resolved(r) \/ (e.kind = "resolved" /\ r = run(id))
    BY DEF AInv
  <2> QED BY <1>1, <2>1, ResolvedAfter
<1>9. \A x \in Ids : answers'[x] # "none" => x \in DOMAIN sent'
  BY DEF AInv
<1>10. \A x \in DOMAIN sent : step'[x] = step[x] \/ Reached(x)'
  BY <1>3, <1>6
<1> QED BY <1>2, <1>7, <1>8, <1>9, <1>10, AStep

\* A command that begins has nothing settled, and has left nothing behind.
LEMMA ABegin ==
  ASSUME IInv, AInv, NEW id \in Ids, NEW c \in Command, begin(id, c),
         entries[id] = "unknown", answers[id] = "none",
         DOMAIN sent' = DOMAIN sent \cup {id}, sent'[id] = c,
         \A x \in DOMAIN sent : sent'[x] = sent[x],
         UNCHANGED <<answers, runs, decision, ran>>
  PROVE  AInv'
<1>1. c.run \in Runs
  BY CommandType
<1>2. ~started(id) /\ step[id] = "idle" /\ journal \in Seq(Record)
  BY DEF IInv, Types, StartedInv
<1>3. settled(id) = {}
  BY <1>2 DEF settled, recorded, IInv, JournalInv
<1>4. /\ \A x \in Ids \ {id} : entries'[x] = entries[x] /\ step'[x] = step[x]
      /\ step'[id] \in {"idle", "begun"} /\ entries'[id] \notin {"ok", "already"}
  BY <1>2 DEF begin, goto, IInv, Types
<1>5. Grows /\ \A x : settled(x)' = settled(x)
  <2>1. CASE UNCHANGED journal
    BY <2>1 DEF Grows, settled, recorded
  <2>2. CASE append([kind |-> "started", run |-> c.run, id |-> id])
    <3> DEFINE e == [kind |-> "started", run |-> c.run, id |-> id]
    <3>1. e \in Record /\ e.kind = "started" /\ append(e)
      BY <1>1, <2>2, RecordType
    <3> HIDE DEF e
    <3>2. Grows
      BY <3>1 DEF Grows
    <3>3. ASSUME NEW x PROVE settled(x)' = settled(x)
      <4>1. settled(x)' = settled(x) \cup
              (IF e.kind = "settled" /\ e.id = x THEN {e.verdict} ELSE {})
        BY <1>2, <3>1, SettledAfter
      <4> QED BY <3>1, <4>1
    <3> QED BY <3>2, <3>3
  <2> QED BY <2>1, <2>2 DEF begin
<1>6. \A x \in DOMAIN sent : x \in Ids
  BY SentType DEF IInv
<1>7. ASSUME NEW x \in DOMAIN sent
      PROVE  /\ settled(x)' = settled(x)
             /\ Running(x)' => settled(x) = {}
             /\ \A v \in {"ok", "already"} : v \in {entries'[x], answers'[x]} => settled(x) = {v}
             /\ step'[x] = step[x] \/ Reached(x)'
  <2>1. CASE x = id
    BY <1>3, <1>4, <1>5, <2>1 DEF Reached
  <2>2. CASE x # id
    BY <1>4, <1>5, <1>6, <2>2 DEF AInv, Settled, Running
  <2> QED BY <2>1, <2>2
<1>8. ASSUME NEW x \in DOMAIN sent' \ DOMAIN sent
      PROVE  /\ settled(x)' = {} /\ step'[x] \in {"idle", "begun"}
             /\ {entries'[x], answers'[x]} \cap {"ok", "already"} = {}
  BY <1>3, <1>4, <1>5
<1>9. \A r \in Runs : decision'[r] # "none" => Resolved(r)'
  BY <1>5, RunKept DEF AInv
<1>10. \A x \in Ids : answers'[x] # "none" => x \in DOMAIN sent'
  BY DEF AInv
<1> QED BY <1>5, <1>7, <1>8, <1>9, <1>10, AStep

\* At first nothing was sent.
LEMMA AInit == Init => AInv
BY DEF Init, AInv

\* The steps of the handlers.
LEMMA AHandler ==
  ASSUME IInv, AInv, NEW id \in Ids, HandlerOf(id)
  PROVE  AInv'
<1>1. id \in DOMAIN sent /\ step[id] # "idle"
  BY DEF HandlerOf, resolveGrant, issue, decline, buildEnvironment, prepareFails,
         recordPrepared, prepare, planSpawn, runCommand, perform, inspect, inspectFails,
         resolve, resolveRunOutcome, resolveFails, recordResolved, cleanupWorktree,
         dispose, At
<1>2. run(id) \in Runs
  BY <1>1, SentType DEF IInv
<1>3. CASE decline(id) \/ prepareFails(id) \/ inspectFails(id) \/ resolveFails(id)
  BY <1>1, <1>3, AThrow DEF decline, prepareFails, inspectFails, resolveFails
<1>4. CASE prepare(id) \/ inspect(id)
  <2>1. /\ settleCommand(id, "ok") /\ "ok" \in Written
        /\ op(id) = "prepare" => step[id] = "recorded"
        /\ op(id) \notin {"perform", "dispose"}
        /\ UNCHANGED <<sent, answers, runs, decision, ran>>
    BY <1>4 DEF prepare, inspect, At, history, Written
  <2> QED BY <1>1, <2>1, ASettle
<1>5. CASE perform(id)
  <2>1. PICK verdict \in {"ok", "failed"} : verdict = IF step[id] = "done" THEN "ok" ELSE "failed"
    OBVIOUS
  <2>2. /\ settleCommand(id, verdict) /\ op(id) = "perform" /\ verdict \in Written
        /\ UNCHANGED <<sent, answers, runs, decision, ran>>
    BY <1>5, <2>1 DEF perform, At, history, Written
  <2>3. verdict = "ok" => step[id] = "done"
    BY <2>1
  <2> QED BY <1>1, <2>1, <2>2, <2>3, ASettle
<1>6. CASE dispose(id)
  <2>1. PICK verdict \in {"ok", "already"} :
          verdict = IF step[id] = "done" THEN "ok" ELSE "already"
    OBVIOUS
  <2>2. /\ settleCommand(id, verdict) /\ op(id) = "dispose" /\ verdict \in Written
        /\ UNCHANGED <<sent, answers, runs, decision, ran>>
        /\ step[id] # "done" => decision[run(id)] # "none"
    BY <1>6, <2>1 DEF dispose, At, history, Written
  <2>3. (verdict = "ok" => step[id] = "done") /\ (verdict = "already" => step[id] # "done")
    BY <2>1
  <2> QED BY <1>1, <2>2, <2>3, ASettle
<1>7. CASE resolveGrant(id)
  <2>1. CASE throws(id)
    BY <1>1, <2>1, AThrow
  <2>2. CASE ~throws(id)
    <3>1. /\ \E where \in {"granted", "asking"} : goto(id, where)
          /\ UNCHANGED <<sent, journal, entries, answers, runs, decision, ran>>
      BY <1>7, <2>2 DEF resolveGrant, disk, history
    <3> QED BY <1>1, <3>1, AMove DEF goto
  <2> QED BY <2>1, <2>2
<1>8. CASE issue(id)
  BY <1>1, <1>8, AMove DEF issue, goto
<1>9. CASE buildEnvironment(id)
  BY <1>1, <1>9, AMove DEF buildEnvironment, goto, history
<1>10. CASE recordPrepared(id)
  <2> DEFINE e == [kind |-> "prepared", run |-> run(id)]
  <2>1. e \in Record /\ e.kind = "prepared" /\ e.run = run(id)
    BY <1>2, RecordType
  <2>2. /\ append(e) /\ goto(id, "recorded") /\ op(id) = "prepare"
        /\ runs' = runs \cup {run(id)}
        /\ UNCHANGED <<sent, entries, answers, ran, decision>>
    BY <1>10 DEF recordPrepared, At, history
  <2> HIDE DEF e
  <2> QED BY <1>1, <2>1, <2>2, ARecord
<1>11. CASE recordResolved(id)
  <2> DEFINE e == [kind |-> "resolved", run |-> run(id), outcome |-> sent[id].arg]
  <2>1. op(id) = "dispose" /\ sent[id].arg \in Outcomes
    BY <1>1, <1>11, SentType DEF recordResolved, At, IInv
  <2>2. e \in Record /\ e.kind = "resolved" /\ e.run = run(id) /\ e.outcome = sent[id].arg
    BY <1>2, <2>1, RecordType
  <2>3. /\ append(e) /\ goto(id, "recorded") /\ runs' = runs
        /\ UNCHANGED <<sent, entries, answers, ran>>
        /\ \A r \in Runs \ {run(id)} : decision'[r] = decision[r]
    BY <1>11 DEF recordResolved, IInv, Types
  <2> HIDE DEF e
  <2> QED BY <1>1, <2>1, <2>2, <2>3, ARecord
<1>12. CASE planSpawn(id)
  <2>1. /\ op(id) = "perform" /\ ran[id] = 0 /\ ran \in [Ids -> {0, 1}]
        /\ UNCHANGED <<sent, journal, entries, answers, runs, decision>>
        /\ \/ goto(id, "spawned") /\ ran' = [ran EXCEPT ![id] = @ + 1]
           \/ goto(id, "failing") /\ ran' = ran
    BY <1>12 DEF planSpawn, disk, At, IInv, StartedInv, Types
  <2>2. \A x \in DOMAIN sent : x \in Ids
    BY SentType DEF IInv
  <2>3. (\A x \in Ids : ran[x] = 1 => ran'[x] = 1) /\ (goto(id, "failing") \/ ran'[id] = 1)
    BY <2>1
  <2> QED BY <1>1, <2>1, <2>2, <2>3, AMove DEF goto
<1>13. CASE runCommand(id)
  <2>1. /\ op(id) = "perform" /\ step[id] = "spawned"
        /\ \E end \in {"done", "failing"} : goto(id, end)
        /\ UNCHANGED <<sent, journal, entries, answers, runs, decision, ran>>
    BY <1>13 DEF runCommand, At, disk, history
  <2>2. ran'[id] = 1
    BY <1>1, <2>1 DEF AInv, Reached
  <2> QED BY <1>1, <2>1, <2>2, AMove DEF goto
<1>14. CASE resolve(id) \/ resolveRunOutcome(id)
  <2>1. /\ \E where \in {"deciding", "git"} : goto(id, where)
        /\ UNCHANGED <<sent, journal, entries, answers, runs, decision, ran>>
    BY <1>14 DEF resolve, resolveRunOutcome, disk, history
  <2> QED BY <1>1, <2>1, AMove DEF goto
<1>15. CASE cleanupWorktree(id)
  <2>1. /\ op(id) = "dispose" /\ step[id] = "recorded" /\ goto(id, "done")
        /\ UNCHANGED <<sent, journal, entries, answers, runs, decision, ran>>
    BY <1>15 DEF cleanupWorktree, At, history
  <2>2. Decides(id)
    BY <1>1, <2>1 DEF AInv, Reached
  <2> QED BY <1>1, <2>1, <2>2, AMove DEF goto
<1> QED BY <1>3, <1>4, <1>5, <1>6, <1>7, <1>8, <1>9, <1>10, <1>11, <1>12, <1>13, <1>14,
           <1>15 DEF HandlerOf

\* The table of a new launch takes from the journal what was settled as done.
LEMMA ARelaunch ==
  ASSUME IInv, AInv, Relaunch PROVE AInv'
<1>1. /\ UNCHANGED <<sent, journal, answers, ran>> /\ entries' = recoveredCommands
      /\ step' = [id \in Ids |-> "idle"] /\ runs' = recoveredHandles
      /\ decision' = recoveredDecision
  BY DEF Relaunch, disk, history
<1>2. Grows /\ \A x : settled(x)' = settled(x)
  BY <1>1 DEF Grows, settled, recorded
<1>3. \A id \in DOMAIN sent : id \in Ids /\ step'[id] = "idle"
  BY <1>1, SentType DEF IInv
<1>4. ASSUME NEW id \in DOMAIN sent
      PROVE  /\ Running(id)' => settled(id) = {}
             /\ \A v \in {"ok", "already"} :
                  v \in {entries'[id], answers'[id]} => settled(id) = {v}
  <2>1. entries'[id] = IF settled(id) # {} THEN CHOOSE v \in settled(id) : TRUE
                       ELSE IF started(id) THEN "interrupted" ELSE "unknown"
    BY <1>1, <1>3 DEF recoveredCommands
  <2>2. Settled(id)
    BY DEF AInv
  <2>3. settled(id) # {} => settled(id) = {entries'[id]} /\ entries'[id] # "running"
    <3>1. ASSUME NEW v, settled(id) = {v} PROVE entries'[id] = v
      BY <2>1, <3>1
    <3> QED BY <2>2, <3>1 DEF Settled
  <2>4. settled(id) = {} => entries'[id] \in {"interrupted", "unknown"}
    BY <2>1
  <2> QED BY <1>1, <2>2, <2>3, <2>4 DEF Settled, Running
<1>5. \A r \in Runs : decision'[r] # "none" => Resolved(r)'
  BY <1>1, <1>2, DecidedResolved, RunKept
<1>6. \A id \in DOMAIN sent : Reached(id)'
  BY <1>3 DEF Reached
<1>7. \A id \in Ids : answers'[id] # "none" => id \in DOMAIN sent'
  BY <1>1 DEF AInv
<1> QED BY <1>1, <1>2, <1>4, <1>5, <1>6, <1>7, AStep

\* Each step keeps what the answers rest on.
LEMMA ANext == IInv /\ AInv /\ [Next]_vars => AInv'
<1> SUFFICES ASSUME IInv, AInv, [Next]_vars PROVE AInv'
  OBVIOUS
<1>1. CASE Receive
  <2>1. PICK c \in Command : sent' = Append(sent, c) /\ begin(Len(sent) + 1, c)
    BY <1>1 DEF Receive
  <2> DEFINE id == Len(sent) + 1
  <2>2. Len(sent) < MaxCommands /\ MaxCommands \in Nat /\ sent \in Seq(Command)
        /\ UNCHANGED <<answers, runs, decision, ran>>
    BY <1>1, RunnerAssumption DEF Receive, IInv, Types, history
  <2>3. /\ id \in Ids /\ id \notin DOMAIN sent
        /\ DOMAIN sent' = DOMAIN sent \cup {id} /\ sent'[id] = c
        /\ \A x \in DOMAIN sent : sent'[x] = sent[x]
    BY <2>1, <2>2 DEF Ids
  <2>4. entries[id] = "unknown" /\ answers[id] = "none"
    BY <2>3 DEF IInv, Types, AInv
  <2>5. begin(id, c)
    BY <2>1
  <2> HIDE DEF id
  <2> QED BY <2>1, <2>2, <2>3, <2>4, <2>5, ABegin
<1>2. ASSUME NEW id \in Ids, ReceiveAgain(id) PROVE AInv'
  <2>1. /\ id \in DOMAIN sent /\ entries[id] = "unknown" /\ answers[id] = "none"
        /\ begin(id, sent[id]) /\ UNCHANGED <<sent, answers, runs, decision, ran>>
    BY <1>2 DEF ReceiveAgain, history
  <2>2. sent[id] \in Command
    BY <2>1 DEF IInv, Types
  <2>3. DOMAIN sent = DOMAIN sent \cup {id}
    BY <2>1
  <2> QED BY <2>1, <2>2, <2>3, ABegin
<1>3. ASSUME UNCHANGED <<sent, journal, entries, step, runs, decision, ran>>,
             \A x \in Ids : answers'[x] = answers[x]
                \/ (answers'[x] = entries[x] /\ x \in DOMAIN sent)
      PROVE  AInv'
  <2>1. \A x \in DOMAIN sent : x \in Ids
    BY SentType DEF IInv
  <2>2. Grows /\ \A x : settled(x)' = settled(x)
    BY <1>3 DEF Grows, settled, recorded
  <2>3. ASSUME NEW x \in DOMAIN sent
        PROVE  /\ Running(x)' => settled(x) = {}
               /\ \A v \in {"ok", "already"} :
                    v \in {entries'[x], answers'[x]} => settled(x) = {v}
    BY <1>3, <2>1 DEF AInv, Settled, Running
  <2>4. \A r \in Runs : decision'[r] # "none" => Resolved(r)'
    BY <1>3, <2>2, RunKept DEF AInv
  <2>5. \A x \in Ids : answers'[x] # "none" => x \in DOMAIN sent'
    BY <1>3 DEF AInv
  <2> QED BY <1>3, <2>2, <2>3, <2>4, <2>5, AStep
<1>4. ASSUME NEW id \in Ids, Answer(id) PROVE AInv'
  <2>1. id \in DOMAIN sent
    BY <1>4 DEF Answer, IInv, Types, Verdicts
  <2> QED BY <1>3, <1>4, <2>1 DEF Answer, disk, memory, history, IInv, Types
<1>5. ASSUME NEW id \in Ids, touch(id) PROVE AInv'
  BY <1>3, <1>5 DEF touch, memory
<1>6. CASE clearGrants \/ UNCHANGED vars
  BY <1>3, <1>6 DEF clearGrants, vars, disk, memory, history
<1> QED BY <1>1, <1>2, <1>4, <1>5, <1>6, AHandler, ARelaunch DEF Next, HandlerOf

\* What the server was told is done is done, and a launch finds it on record: a handle
\* can be found, or its Run was resolved, a command has run once, a dispose has put its
\* own decision on record, or there was one.
THEOREM AnswersAreTrue == Spec => []AnsweredMeansDone
<1>1. IInv /\ AInv => AnsweredMeansDone
  <2> SUFFICES ASSUME IInv, AInv PROVE AnsweredMeansDone
    OBVIOUS
  <2>1. ASSUME NEW id \in DOMAIN sent
        PROVE  /\ answers[id] = "ok" =>
                    CASE op(id) = "prepare" -> Found(run(id))
                      [] op(id) = "perform" -> ran[id] = 1
                      [] op(id) = "dispose" -> Decides(id)
                      [] OTHER -> settled(id) = {"ok"}
               /\ answers[id] = "already" => Resolved(run(id))
    <3>1. Settled(id)
      BY DEF AInv
    <3>2. op(id) \in {"prepare", "perform", "inspect", "dispose"}
      BY SentType DEF IInv
    <3> QED BY <3>1, <3>2 DEF Effect, Settled
  <2>2. ASSUME NEW i \in recorded("resolved")
        PROVE  journal[i].outcome \in Outcomes /\ 0 < i
    <3>1. i \in DOMAIN journal /\ journal[i].kind = "resolved" /\ journal \in Seq(Record)
      BY DEF recorded, IInv, Types
    <3>2. journal[i] \in Record /\ 0 < i
      BY <3>1
    <3> QED BY <3>1, <3>2, EntryType
  <2>3. ASSUME NEW id \in DOMAIN sent, Decides(id)
        PROVE  \E j \in recorded("started") :
                 /\ journal[j].id = id
                 /\ \E i \in recorded("resolved") :
                      journal[i].run = run(id) /\ journal[i].outcome \in {sent[id].arg} /\ j < i
    BY <2>3 DEF Decides
  <2>4. ASSUME NEW id \in DOMAIN sent, Resolved(run(id))
        PROVE  \E i \in recorded("resolved") :
                 journal[i].run = run(id) /\ journal[i].outcome \in Outcomes /\ 0 < i
    BY <2>2, <2>4 DEF Resolved
  <2> QED BY <2>1, <2>3, <2>4 DEF AnsweredMeansDone, Found
<1> QED BY InitHolds, NextHolds, AInit, ANext, <1>1, PTL DEF Spec

=============================================================================
