----------------------------- MODULE UserProofs -----------------------------
(***************************************************************************)
(* Proofs about both directions between a user and a Run, for any value    *)
(* of the constants:                                                       *)
(*   SteeringMailbox  the instructions a user gives a Run that is going    *)
(*                    on: a command is one message with one event however  *)
(*                    often it is sent, what a snapshot has staged is      *)
(*                    never dropped, the model is told in order;           *)
(*   RunEvents        the events of a Run on their way to the user: the    *)
(*                    path implements EventFeed where one process serves;  *)
(*   RunConsole       the controller behind the screen: all it shows is of *)
(*                    the selected Run and project, a status never goes    *)
(*                    back, an edited approval survives.                   *)
(***************************************************************************)
EXTENDS SteeringMailbox, RunEvents, RunConsole, FiniteSetTheorems, SequenceTheorems,
        WellFoundedInduction, TLAPS

(* Numbers.                                                                 *)

LEMMA MaxOfTwo ==
  ASSUME NEW a \in Nat, NEW b \in Nat
  PROVE  Max({a, b}) \in {a, b} /\ Max({a, b}) >= a /\ Max({a, b}) >= b
<1>1. \E x \in {a, b} : \A y \in {a, b} : x >= y
  <2>1. CASE a >= b BY <2>1
  <2>2. CASE ~(a >= b) BY <2>2
  <2> QED BY <2>1, <2>2
<1> QED BY <1>1 DEF Max

-----------------------------------------------------------------------------
(***************************************************************************)
(* Instructions (SteeringMailbox).                                         *)
(***************************************************************************)

Phases == {"new", "drawn", "blocked", "stored", "refused", "failed"}
Attempt == [phase: Phases, sequence: 0..drawn]
Row == [sequence: 1..drawn, command: Range(CommandOf)]

\* An insert that is neither committed nor rolled back.
Open(a) == attempt[a].phase \in {"drawn", "blocked"}

MailboxType ==
    /\ drawn \in Nat
    /\ mailbox \subseteq Row
    /\ attempt \in [Attempts -> Attempt]
    /\ announced \in Seq(1..drawn)

\* An open insert has a sequence of its own, its command is not stored yet, and
\* no second one of the command passed the index.
OpenApart ==
    \A a \in Attempts : Open(a) =>
        /\ attempt[a].sequence \in 1..drawn
        /\ \A row \in mailbox : row.sequence # attempt[a].sequence
                                /\ row.command # CommandOf[a]
        /\ \A b \in Attempts \ {a} : Open(b) =>
             /\ attempt[b].sequence # attempt[a].sequence
             /\ attempt[a].phase = "drawn" /\ attempt[b].phase = "drawn" =>
                  CommandOf[a] # CommandOf[b]

\* The inductive invariant of the mailbox.
MInv == MailboxType /\ OpenApart /\ OneMessagePerCommand

\* Snapshots and drivers are records, what is staged and what a driver read are
\* sequences; a fresh copy is the row.
Listed(s) ==
    /\ s \in [status: {s.status}, cursor: {s.cursor}, staged: {s.staged}]
    /\ s.staged \in Seq(Range(s.staged))

At(d) == [phase: {driver[d].phase}, copy: {driver[d].copy}, fresh: {driver[d].fresh},
          batch: {driver[d].batch}]

CopiesInv ==
    /\ IsFiniteSet(mailbox)
    /\ told \in Seq(Range(told)) /\ Listed(run)
    /\ DOMAIN driver = Drivers
    /\ \A d \in Drivers :
         /\ driver[d] \in At(d)
         /\ Listed(driver[d].copy) /\ driver[d].batch \in Seq(Range(driver[d].batch))
         /\ driver[d].fresh => driver[d].copy = run

-----------------------------------------------------------------------------
\* The mailbox.

LEMMA MailboxInit == Init => MInv
BY SteeringMailboxAssumption
   DEF Init, MInv, MailboxType, OpenApart, OneMessagePerCommand, Attempt, Phases, Row, Open,
       Range

LEMMA EnqueueStep ==
  ASSUME MInv, NEW a \in Attempts, enqueue(a)
  PROVE  MInv'
<1> DEFINE known == \E row \in mailbox : row.command = CommandOf[a]
           inserts == run.status # "finished"
           outcome == IF known THEN "stored"
                    ELSE IF ~inserts THEN "refused"
                    ELSE IF Drawing(a) # {} THEN "blocked" ELSE "drawn"
           seq == IF outcome \in {"blocked", "drawn"} THEN drawn' ELSE 0
<1>1. /\ attempt[a].phase = "new"
      /\ drawn' = IF inserts THEN drawn + 1 ELSE drawn
      /\ attempt' = [attempt EXCEPT ![a] = [phase |-> outcome, sequence |-> seq]]
      /\ UNCHANGED <<mailbox, announced>>
  BY DEF enqueue
<1>2. /\ MailboxType /\ OpenApart /\ OneMessagePerCommand
      /\ CommandOf[a] \in Range(CommandOf)
  BY SteeringMailboxAssumption DEF MInv, Range
<1>3. drawn' \in Nat /\ drawn' >= drawn
  BY <1>1, <1>2 DEF MailboxType
<1>4. outcome \in {"stored", "refused", "blocked", "drawn"}
  OBVIOUS
<1>5. outcome \in {"blocked", "drawn"} => inserts /\ ~known /\ drawn' = drawn + 1
  BY <1>1
<1>6. seq \in 0..drawn'
  BY <1>3
<1>7. MailboxType'
  <2>1. 1..drawn \subseteq 1..drawn' /\ 0..drawn \subseteq 0..drawn'
    BY <1>2, <1>3 DEF MailboxType
  <2>2. attempt' \in [Attempts -> Attempt']
    BY <1>1, <1>2, <1>4, <1>6, <2>1 DEF MailboxType, Attempt, Phases
  <2>3. mailbox' \subseteq Row'
    BY <1>1, <1>2, <2>1 DEF MailboxType, Row
  <2>4. announced' \in Seq(1..drawn')
    BY <1>1, <1>2, <2>1 DEF MailboxType
  <2> QED BY <1>3, <2>2, <2>3, <2>4 DEF MailboxType
<1>8. attempt'[a] = [phase |-> outcome, sequence |-> seq]
      /\ \A b \in Attempts \ {a} : attempt'[b] = attempt[b]
  BY <1>1, <1>2 DEF MailboxType
<1>9. OpenApart'
  <2> SUFFICES ASSUME NEW b \in Attempts, Open(b)'
               PROVE  /\ attempt'[b].sequence \in 1..drawn'
                      /\ \A row \in mailbox : row.sequence # attempt'[b].sequence
                                              /\ row.command # CommandOf[b]
                      /\ \A c \in Attempts \ {b} : Open(c)' =>
                           /\ attempt'[c].sequence # attempt'[b].sequence
                           /\ attempt'[b].phase = "drawn" /\ attempt'[c].phase = "drawn" =>
                                CommandOf[b] # CommandOf[c]
    BY <1>1 DEF OpenApart
  <2>1. \A row \in mailbox : row.sequence \in 1..drawn
    BY <1>2 DEF MailboxType, Row
  <2>2. \A c \in Attempts \ {a} : Open(c)' => attempt[c].sequence \in 1..drawn
    BY <1>2, <1>8 DEF OpenApart, Open
  <2>3. CASE b = a
    <3>1. outcome \in {"blocked", "drawn"} /\ attempt'[a].sequence = drawn + 1
      BY <1>1, <1>5, <1>8, <2>3 DEF Open
    <3>2. \A c \in Attempts \ {a} : Open(c)' => attempt'[c].sequence # drawn + 1
      BY <1>2, <1>8, <2>2 DEF MailboxType
    <3>3. \A c \in Attempts \ {a} : attempt'[a].phase = "drawn" /\ attempt'[c].phase = "drawn"
                                    => CommandOf[a] # CommandOf[c]
      BY <1>8, <3>1 DEF Drawing
    <3>4. \A row \in mailbox : row.sequence # drawn + 1
      BY <1>2, <2>1 DEF MailboxType
    <3>5. drawn + 1 \in 1..drawn'
      BY <1>2, <1>5, <3>1 DEF MailboxType
    <3> QED BY <1>5, <2>3, <3>1, <3>2, <3>3, <3>4, <3>5
  <2>4. CASE b # a
    <3>1. /\ attempt[b].sequence \in 1..drawn /\ attempt'[b] = attempt[b] /\ Open(b)
      BY <1>8, <2>2, <2>4 DEF Open
    <3>2. \A row \in mailbox : row.sequence # attempt[b].sequence
                               /\ row.command # CommandOf[b]
      BY <1>2, <3>1 DEF OpenApart
    <3>3. ASSUME NEW c \in Attempts \ {b}, Open(c)'
          PROVE  /\ attempt'[c].sequence # attempt'[b].sequence
                 /\ attempt'[b].phase = "drawn" /\ attempt'[c].phase = "drawn" =>
                      CommandOf[b] # CommandOf[c]
      <4>1. CASE c = a
        <5>1. outcome \in {"blocked", "drawn"} /\ attempt'[a].sequence = drawn + 1
          BY <1>1, <1>5, <1>8, <3>3, <4>1 DEF Open
        <5>2. attempt'[b].phase = "drawn" /\ attempt'[a].phase = "drawn" => CommandOf[b] # CommandOf[a]
          BY <1>8, <2>4, <5>1 DEF Drawing
        <5> QED BY <1>2, <3>1, <4>1, <5>1, <5>2 DEF MailboxType
      <4>2. CASE c # a
        BY <1>2, <1>8, <3>1, <3>3, <4>2 DEF OpenApart, Open
      <4> QED BY <4>1, <4>2
    <3>4. attempt[b].sequence \in 1..drawn'
      BY <1>2, <1>3, <3>1 DEF MailboxType
    <3> QED BY <3>1, <3>2, <3>3, <3>4
  <2> QED BY <2>3, <2>4
<1>10. OneMessagePerCommand'
  <2>1. \A b \in Attempts : attempt'[b].phase = "stored" =>
            \E row \in mailbox : row.command = CommandOf[b]
    BY <1>2, <1>8 DEF OneMessagePerCommand
  <2> QED BY <1>1, <1>2, <2>1 DEF OneMessagePerCommand
<1> QED BY <1>7, <1>9, <1>10 DEF MInv

LEMMA CommitStep ==
  ASSUME MInv, NEW a \in Attempts, commitSteer(a)
  PROVE  MInv'
<1> DEFINE new == [sequence |-> attempt[a].sequence, command |-> CommandOf[a]]
<1>1. /\ attempt[a].phase = "drawn"
      /\ announced' = Append(announced, attempt[a].sequence)
      /\ mailbox' = mailbox \cup {new}
      /\ drawn' = drawn
      /\ \A b \in Attempts : attempt'[b] =
            IF b = a THEN [phase |-> "stored", sequence |-> 0]
            ELSE IF CommandOf[b] = CommandOf[a] /\ attempt[b].phase = "blocked"
                 THEN [phase |-> "failed", sequence |-> 0] ELSE attempt[b]
      /\ DOMAIN attempt' = Attempts
      /\ attempt' = [b \in Attempts |-> attempt'[b]]
  BY DEF commitSteer
<1>2. /\ MailboxType /\ OpenApart /\ OneMessagePerCommand
      /\ CommandOf[a] \in Range(CommandOf)
  BY SteeringMailboxAssumption DEF MInv, Range
<1>3. /\ attempt[a].sequence \in 1..drawn
      /\ \A row \in mailbox : row.sequence # attempt[a].sequence /\ row.command # CommandOf[a]
  BY <1>1, <1>2 DEF OpenApart, Open
<1>4. MailboxType'
  <2>1. \A b \in Attempts : attempt'[b] \in Attempt
    BY <1>1, <1>2 DEF MailboxType, Attempt, Phases
  <2>2. attempt' \in [Attempts -> Attempt']
    BY <1>1, <2>1 DEF Attempt
  <2>3. mailbox' \subseteq Row'
    BY <1>1, <1>2, <1>3 DEF MailboxType, Row
  <2>4. announced' \in Seq(1..drawn')
    BY <1>1, <1>2, <1>3 DEF MailboxType
  <2> QED BY <1>1, <1>2, <2>2, <2>3, <2>4 DEF MailboxType
<1>5. \A b \in Attempts : Open(b)' => Open(b) /\ b # a /\ attempt'[b] = attempt[b]
  BY <1>1 DEF Open
<1>6. OpenApart'
  <2> SUFFICES ASSUME NEW b \in Attempts, Open(b)'
               PROVE  /\ attempt'[b].sequence \in 1..drawn'
                      /\ \A row \in mailbox' : row.sequence # attempt'[b].sequence
                                               /\ row.command # CommandOf[b]
                      /\ \A c \in Attempts \ {b} : Open(c)' =>
                           /\ attempt'[c].sequence # attempt'[b].sequence
                           /\ attempt'[b].phase = "drawn" /\ attempt'[c].phase = "drawn" =>
                                CommandOf[b] # CommandOf[c]
    BY DEF OpenApart
  <2>1. Open(b) /\ b # a /\ attempt'[b] = attempt[b]
    BY <1>5
  <2>2. /\ attempt[b].sequence \in 1..drawn
        /\ \A row \in mailbox : row.sequence # attempt[b].sequence
                                /\ row.command # CommandOf[b]
    BY <1>2, <2>1 DEF OpenApart
  <2>3. attempt[a].sequence # attempt[b].sequence /\ CommandOf[a] # CommandOf[b]
    <3>1. Open(a)
      BY <1>1 DEF Open
    <3>2. attempt[b].phase = "drawn" => CommandOf[a] # CommandOf[b]
      BY <1>1, <1>2, <2>1, <3>1 DEF OpenApart
    <3>3. attempt[b].phase = "blocked" => CommandOf[a] # CommandOf[b]
      BY <1>1, <2>1
    <3> QED BY <1>2, <2>1, <3>1, <3>2, <3>3 DEF OpenApart, Open
  <2>4. \A row \in mailbox' : row.sequence # attempt'[b].sequence /\ row.command # CommandOf[b]
    BY <1>1, <2>1, <2>2, <2>3
  <2>5. ASSUME NEW c \in Attempts \ {b}, Open(c)'
        PROVE  /\ attempt'[c].sequence # attempt'[b].sequence
               /\ attempt'[b].phase = "drawn" /\ attempt'[c].phase = "drawn" =>
                    CommandOf[b] # CommandOf[c]
    BY <1>2, <1>5, <2>1, <2>5 DEF OpenApart
  <2> QED BY <1>1, <2>1, <2>2, <2>4, <2>5
<1>7. OneMessagePerCommand'
  <2>1. \A r1, r2 \in mailbox' : r1.command = r2.command => r1 = r2
    BY <1>1, <1>2, <1>3 DEF OneMessagePerCommand
  <2>2. /\ Len(announced') = Len(announced) + 1 /\ Len(announced) \in Nat
        /\ DOMAIN announced' = 1..Len(announced) + 1 /\ DOMAIN announced = 1..Len(announced)
        /\ \A i \in DOMAIN announced : announced'[i] = announced[i]
        /\ announced'[Len(announced) + 1] = attempt[a].sequence
    BY <1>1, <1>2, <1>3 DEF MailboxType
  <2>3. \A i \in DOMAIN announced : announced[i] # attempt[a].sequence
    BY <1>2, <1>3 DEF OneMessagePerCommand, Range
  <2>4. \A i, j \in DOMAIN announced' : announced'[i] = announced'[j] => i = j
    BY <1>2, <2>2, <2>3 DEF OneMessagePerCommand
  <2>5. Range(announced') = {row.sequence : row \in mailbox'}
    <3>1. Range(announced') = Range(announced) \cup {attempt[a].sequence}
      <4>1. DOMAIN announced' = DOMAIN announced \cup {Len(announced) + 1}
        BY <2>2
      <4> QED BY <2>2, <4>1 DEF Range
    <3>2. {row.sequence : row \in mailbox'}
            = {row.sequence : row \in mailbox} \cup {new.sequence}
      BY <1>1, Zenon
    <3> QED BY <1>2, <3>1, <3>2 DEF OneMessagePerCommand
  <2>6. \A b \in Attempts : attempt'[b].phase = "stored" =>
            \E row \in mailbox' : row.command = CommandOf[b]
    <3>1. new \in mailbox' /\ new.command = CommandOf[a] /\ mailbox \subseteq mailbox'
      BY <1>1
    <3>2. \A b \in Attempts : attempt'[b].phase = "stored" => b = a \/ attempt[b].phase = "stored"
      BY <1>1
    <3>3. \A b \in Attempts : attempt[b].phase = "stored" =>
            \E row \in mailbox : row.command = CommandOf[b]
      BY <1>2 DEF OneMessagePerCommand
    <3> HIDE DEF new
    <3> QED BY <3>1, <3>2, <3>3, Zenon
  <2> QED BY <2>1, <2>4, <2>5, <2>6 DEF OneMessagePerCommand
<1> QED BY <1>4, <1>6, <1>7 DEF MInv

LEMMA UnblockStep ==
  ASSUME MInv, NEW a \in Attempts, unblock(a)
  PROVE  MInv'
<1>1. /\ attempt[a].phase = "blocked" /\ Drawing(a) = {}
      /\ attempt' = [attempt EXCEPT ![a].phase = "drawn"]
      /\ UNCHANGED <<mailbox, drawn, announced>>
  BY DEF unblock
<1>2. MailboxType /\ OpenApart /\ OneMessagePerCommand
  BY DEF MInv
<1>3. /\ attempt'[a] = [phase |-> "drawn", sequence |-> attempt[a].sequence]
      /\ \A b \in Attempts \ {a} : attempt'[b] = attempt[b]
      /\ attempt' \in [Attempts -> Attempt]
  BY <1>1, <1>2 DEF MailboxType, Attempt, Phases
<1>4. \A b \in Attempts : (Open(b)' <=> Open(b)) /\ attempt'[b].sequence = attempt[b].sequence
  <2>1. Open(a) /\ Open(a)' /\ attempt'[a].sequence = attempt[a].sequence
    BY <1>1, <1>3 DEF Open
  <2>2. \A b \in Attempts \ {a} : Open(b)' <=> Open(b)
    BY <1>3 DEF Open
  <2> QED BY <1>3, <2>1, <2>2
<1>5. MailboxType'
  BY <1>1, <1>2, <1>3 DEF MailboxType, Attempt, Row
<1>6. OpenApart'
  <2>1. ASSUME NEW b \in Attempts, NEW c \in Attempts \ {b}, Open(b)', Open(c)',
               attempt'[b].phase = "drawn", attempt'[c].phase = "drawn"
        PROVE  CommandOf[b] # CommandOf[c]
    BY <1>1, <1>2, <1>3, <1>4, <2>1 DEF OpenApart, Drawing
  <2> QED BY <1>1, <1>2, <1>4, <2>1 DEF OpenApart
<1>7. OneMessagePerCommand'
  BY <1>1, <1>2, <1>3 DEF OneMessagePerCommand
<1> QED BY <1>5, <1>6, <1>7 DEF MInv

LEMMA CrashStep ==
  ASSUME MInv, NEW w \in Workers, crash(w)
  PROVE  MInv'
<1>1. /\ attempt' = [a \in Attempts |->
            IF HostOf[a] = w /\ attempt[a].phase \in {"drawn", "blocked"}
            THEN [phase |-> "failed", sequence |-> 0] ELSE attempt[a]]
      /\ UNCHANGED <<mailbox, drawn, announced>>
  BY DEF crash
<1>2. MailboxType /\ OpenApart /\ OneMessagePerCommand
  BY DEF MInv
<1>3. attempt' \in [Attempts -> Attempt]
  BY <1>1, <1>2 DEF MailboxType, Attempt, Phases
<1>4. \A a \in Attempts : attempt'[a] = attempt[a] \/ attempt'[a].phase = "failed"
  BY <1>1
<1>5. MailboxType'
  BY <1>1, <1>2, <1>3 DEF MailboxType, Attempt, Row
<1>6. OpenApart'
  BY <1>1, <1>2, <1>4 DEF OpenApart, Open
<1>7. OneMessagePerCommand'
  BY <1>1, <1>2, <1>4 DEF OneMessagePerCommand
<1> QED BY <1>5, <1>6, <1>7 DEF MInv

LEMMA MailboxUnchanged ==
  ASSUME MInv, UNCHANGED steerVars
  PROVE  MInv'
BY DEF MInv, MailboxType, OpenApart, OneMessagePerCommand, Attempt, Row, Open, steerVars

LEMMA MailboxNext == MInv /\ [Next]_vars => MInv'
<1> SUFFICES ASSUME MInv, [Next]_vars PROVE MInv'
  OBVIOUS
<1>1. CASE \E a \in Attempts : steer(a)
  BY <1>1, EnqueueStep, CommitStep, UnblockStep DEF steer
<1>2. CASE \E w \in Workers : crash(w)
  BY <1>2, CrashStep
<1>3. CASE UNCHANGED steerVars
  BY <1>3, MailboxUnchanged
<1>4. ASSUME NEW d \in Drivers, drive(d) PROVE UNCHANGED steerVars
  BY <1>4 DEF drive, readMailbox, stageSteering, leaseLost, turn
<1>5. answer \/ cancel => UNCHANGED steerVars
  BY DEF answer, cancel
<1>6. UNCHANGED vars => UNCHANGED steerVars
  BY DEF vars
<1> QED BY <1>1, <1>2, <1>3, <1>4, <1>5, <1>6 DEF Next

\* However often and wherever a command is sent, it is one message with one event,
\* and a sender that was answered "stored" can rely on it.
THEOREM CommandStoredOnce == Spec => []OneMessagePerCommand
<1>1. MInv => OneMessagePerCommand
  BY DEF MInv
<1> QED BY MailboxInit, MailboxNext, <1>1, PTL DEF Spec

-----------------------------------------------------------------------------
\* The drivers' copies.

LEMMA RangeConcat ==
  ASSUME NEW s, NEW t, s \in Seq(Range(s)), t \in Seq(Range(t))
  PROVE  /\ s \o t \in Seq(Range(s \o t))
         /\ Range(s \o t) = Range(s) \cup Range(t)
<1> DEFINE n == Len(s)
           m == Len(t)
<1>1. /\ n \in Nat /\ m \in Nat /\ DOMAIN s = 1..n /\ DOMAIN t = 1..m
      /\ DOMAIN (s \o t) = 1..n + m
      /\ \A i \in 1..n : (s \o t)[i] = s[i]
      /\ \A i \in 1..m : (s \o t)[n + i] = t[i]
  OBVIOUS
<1>2. \A i \in 1..n + m : i \in 1..n \/ (i - n \in 1..m /\ (s \o t)[i] = t[i - n])
  BY <1>1
<1>3. Range(s \o t) \subseteq Range(s) \cup Range(t)
  BY <1>1, <1>2 DEF Range
<1>4. Range(s) \subseteq Range(s \o t)
  BY <1>1 DEF Range
<1>5. Range(t) \subseteq Range(s \o t)
  <2>1. \A i \in 1..m : n + i \in DOMAIN (s \o t)
    BY <1>1
  <2> QED BY <1>1, <2>1 DEF Range
<1>6. s \o t \in Seq(Range(s) \cup Range(t))
  OBVIOUS
<1> QED BY <1>3, <1>4, <1>5, <1>6

LEMMA ListOf ==
  ASSUME NEW n \in Nat, NEW S, NEW f, f = [k \in 1..n |-> f[k]], \A k \in 1..n : f[k] \in S
  PROVE  f \in Seq(S)
OBVIOUS

\* What a driver reads is a sequence, however many rows there are.
LEMMA ReadAfterListed ==
  ASSUME NEW cursor, IsFiniteSet(mailbox)
  PROVE  readAfter(cursor) \in Seq(Range(readAfter(cursor)))
<1> DEFINE n == Min({Page, Cardinality(unread(cursor))})
           later == {row \in mailbox : row.sequence > cursor}
<1>1. n \in Nat
  <2>1. IsFiniteSet(later)
    BY FS_Subset
  <2>2. unread(cursor) = {row.sequence : row \in later}
    BY DEF unread
  <2>3. IsFiniteSet(unread(cursor))
    <3> DEFINE f == [row \in later |-> row.sequence]
    <3>1. f \in Surjection(later, unread(cursor))
      BY <2>2 DEF Surjection
    <3> QED BY <2>1, <3>1, FS_Surjection
  <2>4. Cardinality(unread(cursor)) \in Nat
    BY <2>3, FS_CardinalityType
  <2> QED BY <2>4, SteeringMailboxAssumption DEF Min
<1>2. DOMAIN readAfter(cursor) = 1..n
  BY DEF readAfter
<1>3. \A k \in 1..n : readAfter(cursor)[k] \in Range(readAfter(cursor))
  BY <1>2 DEF Range
<1>4. readAfter(cursor) = [k \in 1..n |-> readAfter(cursor)[k]]
  BY DEF readAfter
<1> QED BY <1>1, <1>3, <1>4, ListOf

LEMMA CopiesInit == Init => CopiesInv
<1> SUFFICES ASSUME Init PROVE CopiesInv
  OBVIOUS
<1>1. IsFiniteSet(mailbox)
  BY FS_EmptySet DEF Init
<1>2. <<>> \in Seq(Range(<<>>))
  OBVIOUS
<1> QED BY <1>1, <1>2 DEF Init, CopiesInv, Listed, AtLoop, NewRun, At

\* The fields of a snapshot or a driver after an update.
LEMMA Staged ==
  ASSUME NEW s, Listed(s), NEW list, list \in Seq(Range(list)), NEW value
  PROVE  /\ Listed([s EXCEPT !.staged = list, !.cursor = value])
         /\ Listed([s EXCEPT !.staged = list, !.status = value])
         /\ [s EXCEPT !.staged = list, !.cursor = value].staged = list
         /\ [s EXCEPT !.staged = list, !.cursor = value].cursor = value
         /\ [s EXCEPT !.staged = list, !.status = value].staged = list
         /\ [s EXCEPT !.staged = list, !.status = value].cursor = s.cursor
BY DEF Listed

LEMMA StatusOnly ==
  ASSUME NEW s, Listed(s), NEW value
  PROVE  /\ Listed([s EXCEPT !.status = value])
         /\ [s EXCEPT !.status = value].staged = s.staged
         /\ [s EXCEPT !.status = value].cursor = s.cursor
BY DEF Listed

LEMMA CommandKeepsStaged ==
  ASSUME Listed(run), answer \/ cancel
  PROVE  Listed(run') /\ run'.staged = run.staged /\ run'.cursor = run.cursor
<1>1. CASE answer
  <2>1. run' = [run EXCEPT !.status = "running"]
    BY <1>1 DEF answer
  <2> QED BY <2>1, StatusOnly
<1>2. CASE cancel
  <2>1. run' = [run EXCEPT !.status = "finished"]
    BY <1>2 DEF cancel
  <2> QED BY <2>1, StatusOnly
<1> QED BY <1>1, <1>2

LEMMA Overtaken ==
  ASSUME NEW d \in Drivers, driver[d] \in At(d),
         driver'[d] = [driver[d] EXCEPT !.fresh = FALSE]
  PROVE  /\ ~driver'[d].fresh
         /\ driver'[d].copy = driver[d].copy
         /\ driver'[d].batch = driver[d].batch
         /\ driver'[d].phase = driver[d].phase
         /\ driver'[d] \in At(d)'
BY DEF At

\* A conditional write of a snapshot that is a list again keeps the copies.
LEMMA SaveStep ==
  ASSUME CopiesInv, NEW d \in Drivers, NEW next, NEW after, Listed(next), save(d, next, after),
         UNCHANGED mailbox, told' \in Seq(Range(told'))
  PROVE  CopiesInv'
<1>1. <<>> \in Seq(Range(<<>>))
  OBVIOUS
<1>2. CASE driver[d].fresh
  <2>1. /\ run' = next
        /\ driver'[d] = AtLoop
           \/ driver'[d] = [phase |-> after, copy |-> next, fresh |-> TRUE, batch |-> <<>>]
        /\ DOMAIN driver' = Drivers
        /\ \A e \in Drivers \ {d} : driver'[e] = [driver[e] EXCEPT !.fresh = FALSE]
    BY <1>2 DEF save, overtaken, AtLoop, CopiesInv, At
  <2>2. \A e \in Drivers \ {d} : /\ ~driver'[e].fresh
                                 /\ driver'[e].copy = driver[e].copy
                                 /\ driver'[e].batch = driver[e].batch
                                 /\ driver'[e].phase = driver[e].phase
                                 /\ driver'[e] \in At(e)'
    BY <2>1, Overtaken DEF CopiesInv
  <2>3. Listed(NewRun) /\ Listed(run') /\ Listed(next)
    BY <1>1, <2>1 DEF Listed, NewRun
  <2>4. /\ driver'[d] \in At(d)'
        /\ Listed(driver'[d].copy) /\ driver'[d].batch \in Seq(Range(driver'[d].batch))
        /\ driver'[d].fresh => driver'[d].copy = run'
    <3>1. CASE driver'[d] = AtLoop
      BY <1>1, <2>3, <3>1 DEF At, AtLoop
    <3>2. CASE driver'[d] = [phase |-> after, copy |-> next, fresh |-> TRUE, batch |-> <<>>]
      BY <1>1, <2>1, <2>3, <3>2 DEF At
    <3> QED BY <2>1, <3>1, <3>2
  <2>5. \A e \in Drivers \ {d} : Listed(driver'[e].copy) /\ driver'[e].batch \in Seq(Range(driver'[e].batch))
    BY <2>2 DEF CopiesInv
  <2> QED BY <2>1, <2>2, <2>3, <2>4, <2>5 DEF CopiesInv, Listed
<1>3. CASE ~driver[d].fresh
  <2>1. /\ run' = run /\ driver' = [driver EXCEPT ![d] = AtLoop]
    BY <1>3 DEF save
  <2> QED BY <1>1, <2>1 DEF CopiesInv, Listed, NewRun, AtLoop, At
<1> QED BY <1>2, <1>3

LEMMA CopiesNext == CopiesInv /\ [Next]_vars => CopiesInv'
<1> SUFFICES ASSUME CopiesInv, [Next]_vars PROVE CopiesInv'
  OBVIOUS
<1>e. <<>> \in Seq(Range(<<>>))
  OBVIOUS
<1>1. ASSUME NEW a \in Attempts, steer(a) PROVE CopiesInv'
  <2>1. UNCHANGED driveVars
    BY <1>1 DEF steer, enqueue, commitSteer, unblock
  <2>2. mailbox' = mailbox \/ \E x : mailbox' = mailbox \cup {x}
    BY <1>1 DEF steer, enqueue, commitSteer, unblock
  <2>3. IsFiniteSet(mailbox)'
    BY <2>2, FS_AddElement DEF CopiesInv
  <2> QED BY <2>1, <2>3 DEF CopiesInv, Listed, driveVars, At
<1>2. ASSUME NEW d \in Drivers, readMailbox(d) PROVE CopiesInv'
  <2>1. readAfter(run.cursor) \in Seq(Range(readAfter(run.cursor)))
    BY ReadAfterListed DEF CopiesInv
  <2>2. /\ UNCHANGED <<mailbox, run, told>>
        /\ DOMAIN driver' = Drivers
        /\ driver'[d].copy = run /\ driver'[d].batch = readAfter(run.cursor)
        /\ driver'[d] \in At(d)'
        /\ \A e \in Drivers \ {d} : driver'[e] = driver[e]
    BY <1>2 DEF readMailbox, steerVars, CopiesInv, At
  <2> QED BY <2>1, <2>2 DEF CopiesInv, Listed, At
<1>3. ASSUME NEW d \in Drivers, stageSteering(d) PROVE CopiesInv'
  <2> DEFINE s == driver[d].copy.staged \o driver[d].batch
             next == [driver[d].copy EXCEPT !.staged = s, !.cursor = Last(driver[d].batch)]
  <2>1. s \in Seq(Range(s))
    BY RangeConcat DEF CopiesInv, Listed
  <2>2. Listed([driver[d].copy EXCEPT !.staged = @ \o driver[d].batch,
                                      !.cursor = Last(driver[d].batch)])
    BY <2>1, Staged DEF CopiesInv
  <2>3. UNCHANGED <<mailbox, told>>
    BY <1>3 DEF stageSteering, steerVars
  <2> QED BY <1>3, <2>2, <2>3, SaveStep DEF stageSteering, CopiesInv
<1>4. ASSUME NEW d \in Drivers, leaseLost(d) PROVE CopiesInv'
  BY <1>4, <1>e DEF leaseLost, CopiesInv, Listed, steerVars, AtLoop, NewRun, At
<1>5. ASSUME NEW d \in Drivers, turn(d) PROVE CopiesInv'
  <2>1. PICK status \in {"running", "waiting_user", "finished"} :
          save(d, [driver[d].copy EXCEPT !.staged = <<>>, !.status = status], "loop")
    BY <1>5 DEF turn
  <2>2. Listed([driver[d].copy EXCEPT !.staged = <<>>, !.status = status])
    BY <1>e, Staged DEF CopiesInv
  <2>3. UNCHANGED mailbox /\ told' \in Seq(Range(told'))
    BY <1>5, RangeConcat DEF turn, steerVars, CopiesInv, Listed
  <2> QED BY <2>1, <2>2, <2>3, SaveStep
<1>6. ASSUME answer \/ cancel PROVE CopiesInv'
  <2>1. /\ UNCHANGED <<mailbox, told>> /\ run'.staged = run.staged /\ driver' = overtaken
    BY <1>6, CommandKeepsStaged DEF answer, cancel, steerVars, CopiesInv
  <2>2. Listed(run)'
    <3>1. Listed(run')
      BY <1>6, CommandKeepsStaged DEF CopiesInv
    <3> QED BY <3>1 DEF Listed
  <2>3. \A d \in Drivers : driver'[d] = [driver[d] EXCEPT !.fresh = FALSE]
    BY <2>1 DEF overtaken
  <2> QED BY <2>1, <2>2, <2>3, Overtaken DEF CopiesInv, overtaken
<1>7. ASSUME NEW w \in Workers, crash(w) PROVE CopiesInv'
  BY <1>7, <1>e DEF crash, CopiesInv, Listed, AtLoop, NewRun, At
<1>8. CASE UNCHANGED vars
  BY <1>8 DEF vars, steerVars, driveVars, CopiesInv, Listed, At
<1> QED BY <1>1, <1>2, <1>3, <1>4, <1>5, <1>6, <1>7, <1>8 DEF Next, drive

\* What a stored snapshot has staged is told by a later turn or still staged:
\* only a driver whose copy is the row itself can store a turn.
THEOREM StagedNeverDropped == Spec => StagedIsTold
<1> DEFINE Kept == \A m \in Range(run.staged) : m \in Range(told' \o run'.staged)
<1>1. ASSUME CopiesInv, CopiesInv', [Next]_vars PROVE Kept
  <2>1. Range(told' \o run'.staged) = Range(told') \cup Range(run'.staged)
    BY <1>1, RangeConcat DEF CopiesInv, Listed
  <2>2. ASSUME NEW d \in Drivers, stageSteering(d)
        PROVE  Range(run.staged) \subseteq Range(run'.staged)
    <3>1. CASE driver[d].fresh
      <4>1. run'.staged = run.staged \o driver[d].batch
        BY <1>1, <2>2, <3>1, ZenonT(60) DEF stageSteering, save, CopiesInv, Listed
      <4> QED BY <1>1, <4>1, RangeConcat DEF CopiesInv, Listed
    <3>2. CASE ~driver[d].fresh
      BY <2>2, <3>2 DEF stageSteering, save
    <3> QED BY <3>1, <3>2
  <2>3. ASSUME NEW d \in Drivers, turn(d)
        PROVE  Range(run.staged) \subseteq Range(told') \cup Range(run'.staged)
    <3>1. CASE driver[d].fresh
      <4>1. told' = told \o run.staged
        BY <1>1, <2>3, <3>1 DEF turn, CopiesInv
      <4> QED BY <1>1, <4>1, RangeConcat DEF CopiesInv, Listed
    <3>2. CASE ~driver[d].fresh
      BY <2>3, <3>2 DEF turn, save
    <3> QED BY <3>1, <3>2
  <2>4. ASSUME \/ \E a \in Attempts : steer(a)
               \/ \E d \in Drivers : readMailbox(d) \/ leaseLost(d)
               \/ answer \/ cancel
               \/ \E w \in Workers : crash(w)
               \/ UNCHANGED vars
        PROVE  run'.staged = run.staged
    <3>1. (answer \/ cancel) => run'.staged = run.staged
      BY <1>1, CommandKeepsStaged DEF CopiesInv
    <3>2. ~(answer \/ cancel) => run' = run
      BY <2>4 DEF steer, enqueue, commitSteer, unblock, readMailbox, leaseLost, crash, vars,
                  driveVars
    <3> QED BY <3>1, <3>2
  <2> QED BY <1>1, <2>1, <2>2, <2>3, <2>4 DEF Next, drive
<1> QED BY CopiesInit, CopiesNext, <1>1, PTL DEF Spec, StagedIsTold

-----------------------------------------------------------------------------
\* The order of the messages.

Increasing(s) == \A i, j \in DOMAIN s : i < j => s[i] < s[j]

\* A page is a list of numbers in order, all after the cursor.
PageOf(list, cursor) ==
    list \in Seq(Nat) /\ Increasing(list) /\ \A i \in DOMAIN list : cursor < list[i]

\* Everything given so far is in order and not after the cursor; what a driver
\* with a fresh copy has read is after it.
OrderInv ==
    /\ told \in Seq(Nat) /\ run.staged \in Seq(Nat) /\ run.cursor \in Nat
    /\ Increasing(told \o run.staged)
    /\ \A m \in Range(told \o run.staged) : m <= run.cursor
    /\ \A d \in Drivers : driver[d].fresh /\ driver[d].phase = "stage" =>
          PageOf(driver[d].batch, run.cursor) /\ driver[d].batch # <<>>

\* Among finitely many numbers each has a rank of its own, so that every rank is taken.
LEMMA EveryRank ==
  ASSUME NEW S \in SUBSET Nat, IsFiniteSet(S), NEW n, n = Cardinality(S)
  PROVE  /\ n \in Nat
         /\ \A k \in 1..n : \E x \in S : Cardinality({y \in S : y < x}) = k - 1
         /\ \A x, z \in S : Cardinality({y \in S : y < x}) < Cardinality({y \in S : y < z}) => x < z
<1> DEFINE below(x) == {y \in S : y < x}
           rank == [x \in S |-> Cardinality(below(x)) + 1]
<1>1. n \in Nat
  BY FS_CardinalityType
<1>2. ASSUME NEW x \in S
      PROVE  /\ IsFiniteSet(below(x)) /\ Cardinality(below(x)) \in Nat
             /\ Cardinality(below(x)) < n
  <2>1. IsFiniteSet(below(x)) /\ Cardinality(below(x)) \in Nat /\ Cardinality(below(x)) <= n
    BY FS_Subset, FS_CardinalityType
  <2>2. Cardinality(below(x)) # n
    <3>1. below(x) # S
      BY DEF below
    <3> QED BY <3>1, FS_Subset
  <2> QED BY <1>1, <2>1, <2>2
<1>3. ASSUME NEW x \in S, NEW z \in S, x < z
      PROVE  Cardinality(below(x)) < Cardinality(below(z))
  <2>1. below(x) \cup {x} \subseteq below(z) /\ x \notin below(x)
    <3>1. x \in below(z) /\ x \notin below(x)
      BY <1>3
    <3>2. ASSUME NEW y \in below(x) PROVE y \in below(z)
      BY <1>3
    <3> HIDE DEF below
    <3> QED BY <3>1, <3>2
  <2>2. Cardinality(below(x) \cup {x}) = Cardinality(below(x)) + 1
    BY <1>2, <2>1, FS_AddElement
  <2>3. Cardinality(below(x) \cup {x}) <= Cardinality(below(z))
    BY <1>2, <2>1, FS_Subset
  <2> HIDE DEF below
  <2> QED BY <1>2, <2>2, <2>3
<1>4. \A x, z \in S : Cardinality(below(x)) < Cardinality(below(z)) => x < z
  <2> SUFFICES ASSUME NEW x \in S, NEW z \in S, ~(x < z)
               PROVE  ~(Cardinality(below(x)) < Cardinality(below(z)))
    OBVIOUS
  <2>1. x = z \/ z < x
    OBVIOUS
  <2>2. CASE z < x
    <3>1. Cardinality(below(z)) < Cardinality(below(x))
      BY <1>3, <2>2
    <3> HIDE DEF below
    <3> QED BY <1>2, <3>1
  <2>3. CASE x = z
    <3> HIDE DEF below
    <3> QED BY <1>2, <2>3
  <2> QED BY <2>1, <2>2, <2>3
<1>5. rank \in Injection(S, 1..n)
  <2> HIDE DEF below
  <2>1. rank \in [S -> 1..n]
    BY <1>1, <1>2
  <2>2. \A x, z \in S : rank[x] = rank[z] => x = z
    <3> SUFFICES ASSUME NEW x \in S, NEW z \in S, x # z PROVE rank[x] # rank[z]
      OBVIOUS
    <3>1. x < z \/ z < x
      OBVIOUS
    <3> QED BY <1>2, <1>3, <3>1
  <2> QED BY <2>1, <2>2 DEF Injection, IsInjective
<1>6. rank \in Surjection(S, 1..n)
  <2>1. IsFiniteSet(1..n) /\ Cardinality(1..n) = n
    BY <1>1, FS_Interval
  <2> HIDE DEF rank
  <2> QED BY <1>5, <2>1, FS_Injection
<1>7. \A k \in 1..n : \E x \in S : Cardinality(below(x)) = k - 1
  <2> HIDE DEF below
  <2> SUFFICES ASSUME NEW k \in 1..n PROVE \E x \in S : Cardinality(below(x)) = k - 1
    OBVIOUS
  <2>1. PICK x \in S : rank[x] = k
    <3> HIDE DEF rank
    <3> QED BY <1>6 DEF Surjection
  <2> QED BY <1>1, <1>2, <2>1
<1> QED BY <1>1, <1>4, <1>7

\* readAfter is a page.
LEMMA ReadAfterPage ==
  ASSUME NEW cursor \in Nat, MailboxType, IsFiniteSet(mailbox)
  PROVE  PageOf(readAfter(cursor), cursor)
<1> DEFINE S == unread(cursor)
           n == Min({Page, Cardinality(S)})
           later == {row \in mailbox : row.sequence > cursor}
           rank(x) == Cardinality({y \in S : y < x})
<1>1. S \in SUBSET Nat /\ \A x \in S : cursor < x
  BY DEF unread, MailboxType, Row
<1>2. IsFiniteSet(S)
  <2>1. IsFiniteSet(later)
    BY FS_Subset
  <2>2. S = {row.sequence : row \in later}
    BY DEF unread
  <2> DEFINE f == [row \in later |-> row.sequence]
  <2>3. f \in Surjection(later, S)
    BY <2>2 DEF Surjection
  <2> QED BY <2>1, <2>3, FS_Surjection
<1>3. /\ Cardinality(S) \in Nat
      /\ \A k \in 1..Cardinality(S) : \E x \in S : rank(x) = k - 1
      /\ \A x, z \in S : rank(x) < rank(z) => x < z
  BY <1>1, <1>2, EveryRank
<1>4. n \in Nat /\ n <= Cardinality(S)
  BY <1>3, SteeringMailboxAssumption DEF Min
<1>5. readAfter(cursor) = [k \in 1..n |-> CHOOSE x \in S : rank(x) = k - 1]
  BY DEF readAfter
<1> HIDE DEF S, n, rank
<1>6. \A k \in 1..n : readAfter(cursor)[k] \in S /\ rank(readAfter(cursor)[k]) = k - 1
  <2> SUFFICES ASSUME NEW k \in 1..n
               PROVE  readAfter(cursor)[k] \in S /\ rank(readAfter(cursor)[k]) = k - 1
    OBVIOUS
  <2>1. \E x \in S : rank(x) = k - 1
    BY <1>3, <1>4, SMTT(30)
  <2>2. readAfter(cursor)[k] = CHOOSE x \in S : rank(x) = k - 1
    BY <1>5
  <2> QED BY <2>1, <2>2
<1>7. readAfter(cursor) \in Seq(Nat) /\ DOMAIN readAfter(cursor) = 1..n
  <2>1. \A k \in 1..n : readAfter(cursor)[k] \in Nat
    BY <1>1, <1>6
  <2>2. readAfter(cursor) = [k \in 1..n |-> readAfter(cursor)[k]]
    BY <1>5
  <2> HIDE DEF readAfter
  <2> QED BY <1>4, <2>1, <2>2, ListOf
<1>8. Increasing(readAfter(cursor))
  <2> SUFFICES ASSUME NEW i \in 1..n, NEW j \in 1..n, i < j
               PROVE  readAfter(cursor)[i] < readAfter(cursor)[j]
    BY <1>7 DEF Increasing
  <2> QED BY <1>3, <1>4, <1>6
<1> QED BY <1>1, <1>6, <1>7, <1>8 DEF PageOf

LEMMA Grouped ==
  ASSUME NEW s \in Seq(Nat), NEW t \in Seq(Nat), NEW u \in Seq(Nat)
  PROVE  s \o (t \o u) = (s \o t) \o u
BY ConcatAssociative, SMTT(30)

LEMMA AscendingConcat ==
  ASSUME NEW s \in Seq(Nat), NEW c \in Nat, Increasing(s), \A m \in Range(s) : m <= c,
         NEW t, PageOf(t, c), t # <<>>
  PROVE  /\ s \o t \in Seq(Nat) /\ Last(t) \in Nat
         /\ Increasing(s \o t)
         /\ \A m \in Range(s \o t) : m <= Last(t)
<1> DEFINE n == Len(s)
           k == Len(t)
<1>1. /\ n \in Nat /\ k \in Nat \ {0} /\ t \in Seq(Nat) /\ s \o t \in Seq(Nat)
      /\ DOMAIN s = 1..n /\ DOMAIN t = 1..k /\ DOMAIN (s \o t) = 1..n + k
      /\ \A i \in 1..n : (s \o t)[i] = s[i] /\ s[i] \in Nat
      /\ \A i \in 1..n + k : i \notin 1..n => (s \o t)[i] = t[i - n] /\ i - n \in 1..k
      /\ \A i \in 1..k : t[i] \in Nat
      /\ Last(t) = t[k]
  BY DEF PageOf, Last
<1>2. \A i \in 1..n : s[i] <= c
  BY <1>1 DEF Range
<1>3. /\ \A i \in 1..k : c < t[i]
      /\ \A i, j \in 1..k : i < j => t[i] < t[j]
      /\ \A i, j \in 1..n : i < j => s[i] < s[j]
  BY <1>1 DEF PageOf, Increasing
<1> HIDE DEF n, k
<1>4. Increasing(s \o t)
  <2> SUFFICES ASSUME NEW i \in 1..n + k, NEW j \in 1..n + k, i < j
               PROVE  (s \o t)[i] < (s \o t)[j]
    BY <1>1 DEF Increasing
  <2>1. CASE j \in 1..n
    BY <1>1, <1>3, <2>1
  <2>2. CASE j \notin 1..n /\ i \in 1..n
    <3>1. s[i] <= c /\ c < t[j - n] /\ s[i] \in Nat /\ t[j - n] \in Nat
      BY <1>1, <1>2, <1>3, <2>2
    <3> QED BY <1>1, <2>2, <3>1, SMTT(30)
  <2>3. CASE j \notin 1..n /\ i \notin 1..n
    <3>1. i - n \in 1..k /\ j - n \in 1..k /\ i - n < j - n
      BY <1>1, <2>3
    <3> QED BY <1>1, <1>3, <2>3, <3>1
  <2> QED BY <2>1, <2>2, <2>3
<1>5. \A i \in 1..n + k : (s \o t)[i] <= t[k]
  <2> SUFFICES ASSUME NEW i \in 1..n + k PROVE (s \o t)[i] <= t[k]
    OBVIOUS
  <2>1. CASE i \in 1..n
    <3>1. s[i] <= c /\ c < t[k] /\ s[i] \in Nat /\ t[k] \in Nat
      BY <1>1, <1>2, <1>3, <2>1
    <3> QED BY <1>1, <2>1, <3>1
  <2>2. CASE i \notin 1..n
    <3>1. i - n \in 1..k /\ (i - n = k \/ i - n < k) /\ k \in 1..k
      BY <1>1, <2>2
    <3>2. t[i - n] = t[k] \/ t[i - n] < t[k]
      BY <1>1, <1>3, <3>1
    <3> QED BY <1>1, <2>2, <3>1, <3>2
  <2> QED BY <2>1, <2>2
<1>6. \A m \in Range(s \o t) : m <= Last(t)
  BY <1>1, <1>5 DEF Range
<1>7. Last(t) \in Nat
  BY <1>1
<1> QED BY <1>1, <1>4, <1>6, <1>7

LEMMA OrderInit == Init => OrderInv
BY DEF Init, OrderInv, AtLoop, NewRun, Increasing, Range

\* What the order depends on is left alone, and no new driver comes to stage.
LEMMA OrderKept ==
  ASSUME OrderInv, told' \o run'.staged = told \o run.staged, run'.cursor = run.cursor,
         told' \in Seq(Nat), run'.staged \in Seq(Nat),
         \A d \in Drivers : driver'[d].fresh /\ driver'[d].phase = "stage" =>
            /\ driver[d].fresh /\ driver[d].phase = "stage"
            /\ driver'[d].batch = driver[d].batch
  PROVE  OrderInv'
BY DEF OrderInv

\* A conditional write leaves no other driver fresh, and the writer stages nothing.
LEMMA SaveStagesNothing ==
  ASSUME CopiesInv, NEW d \in Drivers, NEW next, NEW after \in {"loop", "model"},
         save(d, next, after)
  PROVE  /\ driver[d].fresh => run' = next
         /\ ~driver[d].fresh => run' = run
         /\ \A e \in Drivers : driver'[e].fresh /\ driver'[e].phase = "stage" =>
               /\ ~driver[d].fresh /\ driver[e].fresh /\ driver[e].phase = "stage"
               /\ driver'[e].batch = driver[e].batch
<1>1. CASE driver[d].fresh
  <2>1. /\ run' = next
        /\ driver'[d] = AtLoop
           \/ driver'[d] = [phase |-> after, copy |-> next, fresh |-> TRUE, batch |-> <<>>]
        /\ \A e \in Drivers \ {d} : driver'[e] = [driver[e] EXCEPT !.fresh = FALSE]
    BY <1>1 DEF save, overtaken, AtLoop, CopiesInv
  <2>2. driver'[d].phase # "stage"
    BY <2>1 DEF AtLoop
  <2>3. \A e \in Drivers \ {d} : ~driver'[e].fresh
    BY <2>1, Overtaken DEF CopiesInv
  <2> QED BY <1>1, <2>1, <2>2, <2>3
<1>2. CASE ~driver[d].fresh
  <2>1. run' = run /\ driver'[d] = AtLoop /\ \A e \in Drivers \ {d} : driver'[e] = driver[e]
    BY <1>2 DEF save, CopiesInv
  <2> QED BY <1>2, <2>1 DEF AtLoop
<1> QED BY <1>1, <1>2

LEMMA OrderNext == MInv /\ CopiesInv /\ OrderInv /\ [Next]_vars => OrderInv'
<1> SUFFICES ASSUME MInv, CopiesInv, OrderInv, [Next]_vars PROVE OrderInv'
  OBVIOUS
<1>1. ASSUME NEW a \in Attempts, steer(a) PROVE OrderInv'
  BY <1>1 DEF steer, enqueue, commitSteer, unblock, driveVars, OrderInv
<1>2. ASSUME NEW d \in Drivers, readMailbox(d) PROVE OrderInv'
  <2>1. PageOf(readAfter(run.cursor), run.cursor)
    BY ReadAfterPage DEF OrderInv, MInv, CopiesInv
  <2>2. /\ UNCHANGED <<run, told>>
        /\ driver'[d].batch = readAfter(run.cursor)
        /\ driver'[d].phase = "stage" => readAfter(run.cursor) # <<>>
        /\ \A e \in Drivers \ {d} : driver'[e] = driver[e]
    BY <1>2 DEF readMailbox, CopiesInv
  <2> QED BY <2>1, <2>2 DEF OrderInv
<1>3. ASSUME NEW d \in Drivers, stageSteering(d) PROVE OrderInv'
  <2> DEFINE b == driver[d].batch
             list == driver[d].copy.staged \o b
             next == [driver[d].copy EXCEPT !.staged = list, !.cursor = Last(b)]
  <2>1. save(d, next, "model") /\ driver[d].phase = "stage" /\ told' = told
    BY <1>3 DEF stageSteering
  <2>2. CASE driver[d].fresh
    <3>1. driver[d].copy = run /\ Listed(run) /\ list \in Seq(Range(list))
      BY <2>2, RangeConcat DEF CopiesInv, Listed
    <3>2. run' = next /\ run'.staged = run.staged \o b /\ run'.cursor = Last(b)
      <4>1. run' = next
        BY <2>1, <2>2, SaveStagesNothing
      <4>2. next.staged = list /\ next.cursor = Last(b)
        <5>1. Listed(driver[d].copy)
          BY <3>1
        <5> HIDE DEF b, list
        <5> QED BY <5>1 DEF Listed
      <4> HIDE DEF next
      <4> QED BY <3>1, <4>1, <4>2
    <3>3. /\ told \o run.staged \in Seq(Nat) /\ Increasing(told \o run.staged)
          /\ \A m \in Range(told \o run.staged) : m <= run.cursor
          /\ PageOf(b, run.cursor) /\ b # <<>> /\ run.cursor \in Nat
      BY <2>1, <2>2 DEF OrderInv
    <3>4. told' \o run'.staged = (told \o run.staged) \o b
      <4>1. told \in Seq(Nat) /\ run.staged \in Seq(Nat) /\ b \in Seq(Nat)
        BY <3>3 DEF OrderInv, PageOf
      <4>2. told' = told /\ run'.staged = run.staged \o b
        BY <2>1, <3>2
      <4>3. told \o (run.staged \o b) = (told \o run.staged) \o b
        <5> HIDE DEF b
        <5> QED BY <4>1, Grouped
      <4> QED BY <4>2, <4>3, Zenon
    <3>5. /\ (told \o run.staged) \o b \in Seq(Nat) /\ Last(b) \in Nat
          /\ Increasing((told \o run.staged) \o b)
          /\ \A m \in Range((told \o run.staged) \o b) : m <= Last(b)
      BY <3>3, AscendingConcat
    <3>6. run'.staged \in Seq(Nat) /\ told' \in Seq(Nat)
      <4>1. run.staged \in Seq(Nat) /\ b \in Seq(Nat) /\ told \in Seq(Nat)
        BY <3>3 DEF OrderInv, PageOf
      <4>2. told' = told /\ run'.staged = run.staged \o b
        BY <2>1, <3>2
      <4> HIDE DEF b
      <4> QED BY <4>1, <4>2
    <3>7. \A e \in Drivers : ~(driver'[e].fresh /\ driver'[e].phase = "stage")
      BY <2>1, <2>2, SaveStagesNothing
    <3> QED BY <3>2, <3>4, <3>5, <3>6, <3>7 DEF OrderInv
  <2>3. CASE ~driver[d].fresh
    <3>1. /\ run' = run
          /\ \A e \in Drivers : driver'[e].fresh /\ driver'[e].phase = "stage" =>
               /\ driver[e].fresh /\ driver[e].phase = "stage"
               /\ driver'[e].batch = driver[e].batch
      BY <2>1, <2>3, SaveStagesNothing
    <3> QED BY <2>1, <3>1, OrderKept DEF OrderInv
  <2> QED BY <2>2, <2>3
<1>4. ASSUME NEW d \in Drivers, leaseLost(d) PROVE OrderInv'
  <2>1. /\ UNCHANGED <<run, told>> /\ driver'[d] = AtLoop
        /\ \A e \in Drivers \ {d} : driver'[e] = driver[e]
    BY <1>4 DEF leaseLost, CopiesInv
  <2> QED BY <2>1 DEF OrderInv, AtLoop
<1>5. ASSUME NEW d \in Drivers, turn(d) PROVE OrderInv'
  <2>1. PICK status \in {"running", "waiting_user", "finished"} :
          save(d, [driver[d].copy EXCEPT !.staged = <<>>, !.status = status], "loop")
    BY <1>5 DEF turn
  <2>2. told' = IF driver[d].fresh THEN told \o driver[d].copy.staged ELSE told
    BY <1>5 DEF turn
  <2>3. CASE driver[d].fresh
    <3>1. driver[d].copy = run /\ Listed(run) /\ <<>> \in Seq(Range(<<>>))
      BY <2>3 DEF CopiesInv
    <3>2. run'.staged = <<>> /\ run'.cursor = run.cursor
      <4> DEFINE next == [run EXCEPT !.staged = <<>>, !.status = status]
      <4>1. run' = next
        BY <2>1, <2>3, <3>1, SaveStagesNothing
      <4>2. next.staged = <<>> /\ next.cursor = run.cursor
        BY <3>1, Staged DEF Listed
      <4> HIDE DEF next
      <4> QED BY <4>1, <4>2
    <3>3. told' \in Seq(Nat) /\ told' \o run'.staged = told \o run.staged
      BY <2>2, <2>3, <3>1, <3>2, SMTT(30) DEF OrderInv
    <3>4. \A e \in Drivers : ~(driver'[e].fresh /\ driver'[e].phase = "stage")
      BY <2>1, <2>3, SaveStagesNothing
    <3> QED BY <3>2, <3>3, <3>4, OrderKept
  <2>4. CASE ~driver[d].fresh
    <3>1. /\ run' = run
          /\ \A e \in Drivers : driver'[e].fresh /\ driver'[e].phase = "stage" =>
               /\ driver[e].fresh /\ driver[e].phase = "stage"
               /\ driver'[e].batch = driver[e].batch
      BY <2>1, <2>4, SaveStagesNothing
    <3> QED BY <2>2, <2>4, <3>1, OrderKept DEF OrderInv
  <2> QED BY <2>3, <2>4
<1>6. ASSUME answer \/ cancel PROVE OrderInv'
  <2>1. /\ told' = told /\ run'.staged = run.staged /\ run'.cursor = run.cursor
        /\ driver' = overtaken
    BY <1>6, CommandKeepsStaged DEF answer, cancel, CopiesInv
  <2>2. \A d \in Drivers : ~driver'[d].fresh
    BY <2>1, Overtaken DEF overtaken, CopiesInv
  <2> QED BY <2>1, <2>2, OrderKept DEF OrderInv
<1>7. ASSUME NEW w \in Workers, crash(w) PROVE OrderInv'
  <2>1. /\ UNCHANGED <<run, told>>
        /\ \A d \in Drivers : driver'[d] = AtLoop \/ driver'[d] = driver[d]
    BY <1>7 DEF crash
  <2> QED BY <2>1 DEF OrderInv, AtLoop
<1>8. CASE UNCHANGED vars
  BY <1>8 DEF vars, driveVars, OrderInv
<1> QED BY <1>1, <1>2, <1>3, <1>4, <1>5, <1>6, <1>7, <1>8 DEF Next, drive

\* The model is told messages in the order of their sequence and none twice, with
\* any number of drivers that overlap, crash or lose their lease.
THEOREM ToldInOrder == Spec => []InstructionsInOrder
<1>1. OrderInv => InstructionsInOrder
  BY DEF OrderInv, InstructionsInOrder, Increasing
<1> QED BY MailboxInit, MailboxNext, CopiesInit, CopiesNext, OrderInit, OrderNext, <1>1, PTL
        DEF Spec

-----------------------------------------------------------------------------
(***************************************************************************)
(* Events (RunEvents).                                                     *)
(***************************************************************************)

RowType == [by: Processes \cup {Nobody}, lease: {"free", "held", "lapsed"}, delivered: BOOLEAN]

(* Log, outbox and claims.  A claimed row is not free; rows are claimed in order, so
   that the free rows are the last ones.                                     *)
RowsInv ==
    /\ log \in Seq({"event", "finished"})
    /\ outbox \in Seq(RowType) /\ Len(outbox) = Len(log)
    /\ \A i, j \in 1..Len(log) : i < j /\ outbox[j] # Free => outbox[i] # Free

ClaimsInv ==
    /\ dispatch \in [Processes -> [claimed: SUBSET (1..Len(log)), left: SUBSET (1..Len(log))]]
    /\ \A w \in Processes :
         /\ dispatch[w].left \subseteq dispatch[w].claimed
         /\ \A i \in dispatch[w].left : outbox[i] # Free

(* A response that was not bypassed has sent the events that follow those the *)
(* follower accepted, in order.                                              *)
Response ==
    [phase: {"none", "subscribed", "read", "live"}, worker: Processes \cup {Nobody},
     read: 0..Len(log), last: 0..Len(log), pending: SUBSET (1..Len(log)),
     pipe: Seq(1..Len(log)), bypassed: BOOLEAN]

USE DEF Response

FeedType ==
    /\ feed \in Response
    /\ seen \in Seq(1..Len(log)) /\ stopped \in BOOLEAN

SeenInv ==
    /\ stopped => feed = NoFeed
    /\ feed.phase = "none" => feed = NoFeed
    /\ feed.phase # "none" => feed.worker \in Processes
    /\ feed.phase = "subscribed" => ~feed.bypassed
    /\ feed.phase \in {"subscribed", "read"} => feed.pipe = <<>> /\ feed.last = lastSequence
    /\ feed.phase = "read" => feed.last <= feed.read
    /\ feed.phase = "live" => feed.pending = {} /\ feed.read = 0
    /\ feed.phase = "live" /\ ~feed.bypassed =>
         /\ feed.last = lastSequence + Len(feed.pipe)
         /\ \A i \in 1..Len(feed.pipe) : feed.pipe[i] = lastSequence + i

(* What a response has: from the backlog or from the dispatcher.            *)
Given == IF feed.phase = "read" THEN 1..feed.read \cup feed.pending ELSE 1..feed.last

(* What its Worker is to hand to it.                                        *)
Awaits(i) ==
    /\ i \in dispatch[feed.worker].left
    /\ outbox[i].by = feed.worker /\ ~outbox[i].delivered

(* Unless it was bypassed, a response has or gets what was claimed, and what it *)
(* has is without a gap.                                                      *)
Whole == feed.phase \in {"read", "live"} /\ ~feed.bypassed

GivenInv ==
    Whole => /\ \A i \in 1..Len(log) : outbox[i] # Free => i \in Given \/ Awaits(i)
             /\ \A m \in Given : 1..m \subseteq Given

-----------------------------------------------------------------------------
(* Rows.                                                                    *)
LEMMA FreeRow == Free \in RowType /\ ~Free.delivered /\ Free.lease = "free" /\ Free.by = Nobody
BY DEF Free, RowType

LEMMA WritesType ==
  ASSUME NEW events \in Writes
  PROVE  /\ events \in Seq({"event", "finished"}) /\ Len(events) \in Nat \ {0}
         /\ [i \in DOMAIN events |-> Free] \in Seq(RowType)
         /\ Len([i \in DOMAIN events |-> Free]) = Len(events)
<1>1. events \in Seq({"event", "finished"}) /\ Len(events) \in Nat \ {0}
  <2>1. CASE events = <<"event">>
    BY <2>1
  <2>2. CASE events = <<"event", "finished">>
    BY <2>2
  <2>3. CASE events = <<"event", "event", "event">>
    BY <2>3
  <2> QED BY <2>1, <2>2, <2>3 DEF Writes
<1>2. DOMAIN events = 1..Len(events)
  BY <1>1, LenProperties
<1> QED BY <1>1, <1>2, FreeRow

LEMMA PublishStep ==
  ASSUME RowsInv, publish
  PROVE  /\ log' \in Seq({"event", "finished"}) /\ outbox' \in Seq(RowType)
         /\ Len(outbox') = Len(log') /\ Len(log') > Len(log)
         /\ \A i \in 1..Len(log) : log'[i] = log[i] /\ outbox'[i] = outbox[i]
         /\ \A i \in 1..Len(log') : i > Len(log) => outbox'[i] = Free
<1>1. PICK events \in Writes : /\ log' = log \o events
                              /\ outbox' = outbox \o [i \in DOMAIN events |-> Free]
  BY DEF publish
<1> DEFINE frees == [i \in DOMAIN events |-> Free]
<1>2. /\ events \in Seq({"event", "finished"}) /\ Len(events) \in Nat \ {0}
      /\ frees \in Seq(RowType) /\ Len(frees) = Len(events)
  BY WritesType
<1>3. \A i \in 1..Len(events) : frees[i] = Free
  BY <1>2, LenProperties
<1>4. log \in Seq({"event", "finished"}) /\ outbox \in Seq(RowType) /\ Len(outbox) = Len(log)
  BY DEF RowsInv
<1> HIDE DEF frees
<1>5. /\ log' \in Seq({"event", "finished"}) /\ Len(log') = Len(log) + Len(events)
      /\ \A i \in 1..Len(log) : log'[i] = log[i]
  BY <1>1, <1>2, <1>4, ConcatProperties
<1>8. Len(log) \in Nat
  BY <1>4, LenProperties
<1>6. outbox' = outbox \o frees
  BY <1>1 DEF frees
<1>7. /\ outbox' \in Seq(RowType) /\ Len(outbox') = Len(log) + Len(events)
      /\ \A i \in 1..Len(log) : outbox'[i] = outbox[i]
      /\ \A i \in 1..Len(events) : outbox'[Len(log) + i] = frees[i]
  <2>1. /\ outbox \o frees \in Seq(RowType)
        /\ Len(outbox \o frees) = Len(outbox) + Len(frees)
        /\ \A i \in 1..(Len(outbox) + Len(frees)) :
             (outbox \o frees)[i] = IF i <= Len(outbox) THEN outbox[i]
                                    ELSE frees[i - Len(outbox)]
    BY <1>2, <1>4, ConcatProperties
  <2> QED BY <1>2, <1>4, <1>6, <1>8, <2>1
<1>9. \A i \in 1..Len(log') : i > Len(log) =>
        i - Len(log) \in 1..Len(events) /\ Len(log) + (i - Len(log)) = i
  BY <1>2, <1>5, <1>8
<1>10. \A i \in 1..Len(log') : i > Len(log) => outbox'[i] = Free
  BY <1>3, <1>7, <1>9
<1> QED BY <1>2, <1>5, <1>7, <1>8, <1>10

(* A dispatcher takes the lowest of the rows that can be claimed.           *)
LEMMA LowestBatch ==
  ASSUME RowsInv, NEW i \in claimable, NEW j \in batch, i < j
  PROVE  i \in batch
<1> DEFINE below(k) == {x \in claimable : x < k}
<1>1. claimable \subseteq 1..Len(log) /\ Len(log) \in Nat
  BY LenProperties DEF claimable, RowsInv
<1>2. IsFiniteSet(below(j)) /\ below(i) \subseteq below(j)
  <2>1. IsFiniteSet(1..Len(log))
    BY <1>1, FS_Interval
  <2>2. below(j) \subseteq 1..Len(log)
    BY <1>1
  <2>3. below(i) \subseteq below(j)
    <3>1. j \in claimable
      BY DEF batch
    <3>2. i \in Int /\ j \in Int /\ \A x \in claimable : x \in Int
      BY <1>1, <3>1
    <3>3. \A x \in claimable : x < i => x < j
      BY <3>2
    <3> QED BY <3>3
  <2> QED BY <2>1, <2>2, <2>3, FS_Subset
<1> HIDE DEF below
<1>3. IsFiniteSet(below(i)) /\ Cardinality(below(i)) <= Cardinality(below(j))
  BY <1>2, FS_Subset
<1>4. Cardinality(below(i)) \in Nat /\ Cardinality(below(j)) \in Nat
  BY <1>2, <1>3, FS_CardinalityType
<1>5. Cardinality(below(j)) < BatchSize
  BY DEF batch, below
<1>6. Cardinality(below(i)) < BatchSize
  BY <1>3, <1>4, <1>5, RunEventsAssumption
<1> QED BY <1>6 DEF batch, below

LEMMA ClaimStep ==
  ASSUME RowsInv, NEW w \in Processes, claim(w) \/ claimLost(w)
  PROVE  /\ outbox' = [i \in 1..Len(log) |->
              IF i \in batch THEN [by |-> w, lease |-> "held", delivered |-> FALSE] ELSE outbox[i]]
         /\ batch \subseteq 1..Len(log) /\ dispatch[w] = Idle
         /\ UNCHANGED <<log, seen, stopped>>
<1>1. outbox' = hold(w, batch) /\ dispatch[w] = Idle /\ UNCHANGED <<log, seen, stopped>>
  BY DEF claim, claimLost
<1>2. DOMAIN outbox = 1..Len(log)
  BY LenProperties DEF RowsInv
<1> QED BY <1>1, <1>2 DEF hold, batch, claimable

(* What a step does to the rows: the log is longer, or rows are claimed by  *)
(* one Worker, or no row becomes claimed or free.                           *)
Relabels ==
    /\ outbox' \in Seq(RowType) /\ Len(outbox') = Len(log)
    /\ \A i \in 1..Len(log) : outbox'[i] = Free <=> outbox[i] = Free

LEMMA ToSeq ==
  ASSUME NEW S, NEW n \in Nat, NEW f, f \in [1..n -> S]
  PROVE  f \in Seq(S) /\ Len(f) = n
OBVIOUS

LEMMA AckStep ==
  ASSUME RowsInv, NEW w \in Processes, ack(w)
  PROVE  Relabels
<1>1. /\ Len(log) \in Nat /\ DOMAIN outbox = 1..Len(log)
      /\ \A i \in 1..Len(log) : outbox[i] \in RowType
  BY LenProperties, ElementOfSeq DEF RowsInv
<1>2. [Free EXCEPT !.delivered = TRUE] \in RowType /\ [Free EXCEPT !.delivered = TRUE] # Free
  BY DEF Free, RowType
<1>3. \A i \in 1..Len(log) : outbox[i].by = w => outbox[i] # Free
  BY FreeRow, RunEventsAssumption DEF Nobody
<1>4. outbox' \in [1..Len(log) -> RowType]
      /\ \A i \in 1..Len(log) : outbox'[i] = Free <=> outbox[i] = Free
  BY <1>1, <1>2, <1>3 DEF ack
<1> QED BY <1>1, <1>4, ToSeq DEF Relabels

LEMMA LapseStep ==
  ASSUME RowsInv, NEW w \in Processes, lapse(w) \/ expire(w)
  PROVE  /\ Relabels /\ UNCHANGED <<log, dispatch, feed, seen, stopped>>
         /\ \A i \in 1..Len(log) : outbox'[i].delivered = outbox[i].delivered
                                   /\ outbox'[i].by = outbox[i].by
<1>1. /\ Len(log) \in Nat /\ DOMAIN outbox = 1..Len(log)
      /\ \A i \in 1..Len(log) : outbox[i] \in RowType
  BY LenProperties, ElementOfSeq DEF RowsInv
<1>2. UNCHANGED <<log, dispatch, feed, seen, stopped>>
  BY DEF lapse, expire, feedVars
<1>3. PICK rows \in SUBSET held(w) : outbox' = lapsed(rows)
  BY DEF lapse, expire
<1>4. \A i \in 1..Len(log) : outbox'[i] \in RowType
                              /\ (outbox'[i] = Free <=> outbox[i] = Free)
                              /\ outbox'[i].delivered = outbox[i].delivered
                              /\ outbox'[i].by = outbox[i].by
  <2> TAKE i \in 1..Len(log)
  <2>1. CASE i \in rows
    <3>1. outbox'[i] = [outbox[i] EXCEPT !.lease = "lapsed"] /\ outbox[i] \in RowType
          /\ outbox[i].lease = "held"
      BY <1>1, <1>3, <2>1 DEF lapsed, held
    <3>2. outbox'[i].lease = "lapsed" /\ outbox'[i] \in RowType
          /\ outbox'[i].delivered = outbox[i].delivered /\ outbox'[i].by = outbox[i].by
      BY <3>1 DEF RowType
    <3> QED BY <3>1, <3>2, FreeRow
  <2>2. CASE i \notin rows
    BY <1>1, <1>3, <2>2 DEF lapsed
  <2> QED BY <2>1, <2>2
<1>5. outbox' \in [1..Len(log) -> RowType]
  BY <1>1, <1>3, <1>4 DEF lapsed
<1> QED BY <1>1, <1>2, <1>4, <1>5, ToSeq DEF Relabels

LEMMA NextRows ==
  ASSUME RowsInv, [EventsNext]_eventsVars
  PROVE  RowsInv'
<1>0. Len(log) \in Nat /\ \A i \in 1..Len(log) : outbox[i] \in RowType
  BY LenProperties, ElementOfSeq DEF RowsInv
<1>1. CASE publish
  <2>1. \A i, j \in 1..Len(log') : i < j /\ outbox'[j] # Free => outbox'[i] # Free
    <3> SUFFICES ASSUME NEW i \in 1..Len(log'), NEW j \in 1..Len(log'), i < j, outbox'[j] # Free
                 PROVE  outbox'[i] # Free
      OBVIOUS
    <3>1. j <= Len(log)
      BY <1>1, PublishStep
    <3>2. i \in 1..Len(log) /\ j \in 1..Len(log)
      BY <1>0, <3>1
    <3> QED BY <1>1, <3>2, PublishStep DEF RowsInv
  <2> QED BY <1>1, <2>1, PublishStep DEF RowsInv
<1>2. ASSUME NEW w \in Processes, claim(w) \/ claimLost(w) PROVE RowsInv'
  <2> DEFINE taken == [by |-> w, lease |-> "held", delivered |-> FALSE]
  <2>1. taken \in RowType /\ taken # Free
    BY DEF RowType, Free
  <2> HIDE DEF taken
  <2>2. outbox' = [i \in 1..Len(log) |-> IF i \in batch THEN taken ELSE outbox[i]]
    BY <1>2, ClaimStep DEF taken
  <2>3. outbox' \in [1..Len(log) -> RowType]
    BY <1>0, <2>1, <2>2
  <2>4. outbox' \in Seq(RowType) /\ Len(outbox') = Len(log)
    BY <1>0, <2>3, ToSeq
  <2>5. \A i, j \in 1..Len(log) : i < j /\ outbox'[j] # Free => outbox'[i] # Free
    <3> SUFFICES ASSUME NEW i \in 1..Len(log), NEW j \in 1..Len(log), i < j,
                        outbox'[j] # Free, outbox'[i] = Free
                 PROVE  FALSE
      OBVIOUS
    <3>1. i \notin batch /\ outbox[i] = Free
      BY <2>1, <2>2
    <3>2. i \in claimable
      BY <3>1, FreeRow, LenProperties DEF claimable, RowsInv
    <3>3. j \notin batch
      BY <3>1, <3>2, LowestBatch
    <3>4. outbox[j] # Free
      BY <2>2, <3>3
    <3> QED BY <3>1, <3>4 DEF RowsInv
  <2>6. log' = log
    BY <1>2, ClaimStep
  <2> QED BY <2>4, <2>5, <2>6 DEF RowsInv
<1>3. ASSUME NEW w \in Processes, ack(w) \/ lapse(w) \/ expire(w) PROVE RowsInv'
  <2>1. Relabels /\ log' = log
    BY <1>3, AckStep, LapseStep DEF ack
  <2> QED BY <2>1 DEF Relabels, RowsInv
<1>4. CASE UNCHANGED <<log, outbox>>
  BY <1>4 DEF RowsInv
<1>5. ASSUME NEW w \in Processes, deliver(w) \/ ackFails(w) \/ restart(w) \/ handle(w)
      PROVE  UNCHANGED <<log, outbox>>
  BY <1>5 DEF deliver, ackFails, restart, handle
<1>6. ASSUME readBacklog \/ sendBacklog \/ followRunEventStream \/ disconnect \/ UNCHANGED eventsVars
      PROVE  UNCHANGED <<log, outbox>>
  BY <1>6 DEF readBacklog, sendBacklog, followRunEventStream, disconnect, eventsVars
<1>7. CASE EventsNext
  BY <1>1, <1>2, <1>3, <1>4, <1>5, <1>6, <1>7 DEF EventsNext, dispatchOnce, follow
<1> QED BY <1>4, <1>6, <1>7

-----------------------------------------------------------------------------
(* Claims.                                                                  *)
\* A row that is not free stays so; a claim is taken up or given up.
LEMMA TouchedStays ==
  ASSUME RowsInv, [EventsNext]_eventsVars, NEW i \in 1..Len(log), outbox[i] # Free
  PROVE  outbox'[i] # Free
<1>1. CASE publish
  BY <1>1, PublishStep
<1>2. ASSUME NEW w \in Processes, claim(w) \/ claimLost(w) PROVE outbox'[i] # Free
  BY <1>2, ClaimStep DEF Free
<1>3. ASSUME NEW w \in Processes, ack(w) \/ lapse(w) \/ expire(w) PROVE outbox'[i] # Free
  BY <1>3, AckStep, LapseStep DEF Relabels
<1>4. CASE UNCHANGED outbox
  BY <1>4
<1>5. ASSUME NEW w \in Processes, deliver(w) \/ ackFails(w) \/ restart(w) \/ handle(w)
      PROVE  UNCHANGED outbox
  BY <1>5 DEF deliver, ackFails, restart, handle
<1>6. ASSUME readBacklog \/ sendBacklog \/ followRunEventStream \/ disconnect \/ UNCHANGED eventsVars
      PROVE  UNCHANGED outbox
  BY <1>6 DEF readBacklog, sendBacklog, followRunEventStream, disconnect, eventsVars
<1>7. CASE EventsNext
  BY <1>1, <1>2, <1>3, <1>4, <1>5, <1>6, <1>7 DEF EventsNext, dispatchOnce, follow
<1> QED BY <1>4, <1>6, <1>7

LEMMA LogGrows ==
  ASSUME RowsInv, [EventsNext]_eventsVars
  PROVE  /\ Len(log) \in Nat /\ Len(log') \in Nat /\ Len(log) <= Len(log')
         /\ \A i \in 1..Len(log) : log'[i] = log[i]
         /\ log' # log => publish
<1>0. Len(log) \in Nat /\ Len(log') \in Nat
  BY NextRows, LenProperties DEF RowsInv
<1>1. CASE publish
  BY <1>0, <1>1, PublishStep
<1>2. ASSUME NEW w \in Processes,
             \/ claim(w) \/ claimLost(w) \/ ack(w) \/ lapse(w) \/ expire(w) \/ deliver(w)
             \/ ackFails(w) \/ restart(w) \/ handle(w)
      PROVE  UNCHANGED log
  BY <1>2 DEF claim, claimLost, ack, lapse, expire, deliver, ackFails, restart, handle
<1>3. ASSUME readBacklog \/ sendBacklog \/ followRunEventStream \/ disconnect \/ UNCHANGED eventsVars
      PROVE  UNCHANGED log
  BY <1>3 DEF readBacklog, sendBacklog, followRunEventStream, disconnect, eventsVars
<1>4. publish \/ UNCHANGED log
  <2>1. CASE EventsNext
    BY <1>2, <1>3, <2>1 DEF EventsNext, dispatchOnce, follow
  <2> QED BY <1>3, <2>1
<1> QED BY <1>0, <1>1, <1>4

LeftOf(w) == dispatch[w].left

LEMMA LeastIn ==
  ASSUME NEW S, S \subseteq Nat, S # {}
  PROVE  Min(S) \in S /\ \A y \in S : Min(S) <= y
<1>1. PICK x \in S : \A y \in S : ~(<<y, x>> \in OpToRel(<, Nat))
  BY NatLessThanWellFounded, WFMin, Zenon
<1>2. \A y \in S : x <= y
  <2> SUFFICES ASSUME NEW y \in S PROVE x <= y
    OBVIOUS
  <2>1. x \in Nat /\ y \in Nat
    OBVIOUS
  <2>2. ~(<<y, x>> \in OpToRel(<, Nat))
    BY <1>1, Zenon
  <2>3. ~(y < x)
    BY <2>1, <2>2 DEF OpToRel
  <2> QED BY ONLY <2>1, <2>3
<1>3. \E e \in S : \A y \in S : e <= y
  BY <1>2
<1> QED BY <1>3 DEF Min

LEMMA LowestLeft ==
  ASSUME ClaimsInv, RowsInv, NEW w \in Processes, LeftOf(w) # {}
  PROVE  /\ Min(LeftOf(w)) \in LeftOf(w) /\ Min(LeftOf(w)) \in 1..Len(log)
         /\ \A i \in LeftOf(w) : Min(LeftOf(w)) <= i
<1>1. LeftOf(w) \subseteq 1..Len(log) /\ Len(log) \in Nat
  BY LenProperties DEF ClaimsInv, LeftOf, RowsInv
<1>2. LeftOf(w) \subseteq Nat
  BY <1>1
<1> QED BY <1>1, <1>2, LeastIn

\* What a step does to the claims: nothing, a Worker takes a batch, gives its
\* claim up, or has handed the lowest row out.
LEMMA ClaimsStep ==
  ASSUME [EventsNext]_eventsVars
  PROVE  \/ UNCHANGED dispatch
         \/ \E w \in Processes : claim(w)
         \/ \E w \in Processes : dispatch' = [dispatch EXCEPT ![w] = Idle]
         \/ \E w \in Processes : deliver(w)
<1> DEFINE Claims == \E w \in Processes : claim(w)
           Gives == \E w \in Processes : dispatch' = [dispatch EXCEPT ![w] = Idle]
           Hands == \E w \in Processes : deliver(w)
<1>1. ASSUME NEW w \in Processes, ack(w) \/ ackFails(w) \/ restart(w) PROVE Gives
  BY <1>1 DEF ack, ackFails, restart
<1>2. ASSUME NEW w \in Processes, claimLost(w) \/ lapse(w) \/ expire(w) \/ handle(w)
      PROVE  UNCHANGED dispatch
  BY <1>2 DEF claimLost, lapse, expire, handle
<1>3. ASSUME \/ readBacklog \/ sendBacklog \/ followRunEventStream \/ disconnect \/ publish
             \/ UNCHANGED eventsVars
      PROVE  UNCHANGED dispatch
  BY <1>3 DEF readBacklog, sendBacklog, followRunEventStream, disconnect, publish, eventsVars
<1> HIDE DEF Gives
<1>4. ASSUME EventsNext PROVE UNCHANGED dispatch \/ Claims \/ Gives \/ Hands
  BY <1>1, <1>2, <1>3, <1>4 DEF EventsNext, dispatchOnce, follow
<1> QED BY <1>3, <1>4 DEF Gives

LEMMA NextClaims ==
  ASSUME RowsInv, ClaimsInv, [EventsNext]_eventsVars
  PROVE  ClaimsInv'
<1>0. 1..Len(log) \subseteq 1..Len(log')
  BY LogGrows
<1>1. \A w \in Processes : \A i \in dispatch[w].left : i \in 1..Len(log) /\ outbox'[i] # Free
  BY TouchedStays DEF ClaimsInv
<1>2. CASE UNCHANGED dispatch
  BY <1>0, <1>1, <1>2 DEF ClaimsInv
<1>3. ASSUME NEW w \in Processes, claim(w) PROVE ClaimsInv'
  <2>1. log' = log /\ \A i \in batch : outbox'[i] # Free
    <3>1. \A i \in batch : outbox'[i].lease = "held"
      BY <1>3, ClaimStep
    <3> QED BY <1>3, <3>1, FreeRow, ClaimStep
  <2>2. batch \subseteq 1..Len(log) /\ dispatch' = [dispatch EXCEPT ![w] = [claimed |-> batch, left |-> batch]]
    BY <1>3, ClaimStep DEF claim
  <2> QED BY <1>1, <2>1, <2>2 DEF ClaimsInv
<1>4. ASSUME NEW w \in Processes, dispatch' = [dispatch EXCEPT ![w] = Idle] PROVE ClaimsInv'
  BY <1>0, <1>1, <1>4 DEF ClaimsInv, Idle
<1>5. ASSUME NEW w \in Processes, deliver(w) PROVE ClaimsInv'
  BY <1>0, <1>1, <1>5 DEF ClaimsInv, deliver
<1> QED BY <1>2, <1>3, <1>4, <1>5, ClaimsStep

-----------------------------------------------------------------------------
(* The feed.                                                                *)
FeedInv == FeedType /\ SeenInv /\ GivenInv

LEMMA LengthType ==
  ASSUME RowsInv PROVE Len(log) \in Nat
BY LenProperties DEF RowsInv

LEMMA LastSeen ==
  ASSUME RowsInv, FeedType
  PROVE  lastSequence \in 0..Len(log) /\ Len(seen) \in Nat
<1>1. Len(log) \in Nat /\ seen \in Seq(1..Len(log)) /\ Len(seen) \in Nat
  BY LengthType, LenProperties DEF FeedType
<1>2. CASE seen = <<>>
  BY <1>1, <1>2 DEF lastSequence
<1>3. CASE seen # <<>>
  <2>1. Len(seen) \in 1..Len(seen)
    BY <1>1, <1>3, EmptySeq
  <2>2. seen[Len(seen)] \in 1..Len(log)
    BY <1>1, <2>1, ElementOfSeq
  <2> QED BY <1>1, <1>3, <2>2 DEF lastSequence, Last
<1> QED BY <1>1, <1>2, <1>3

LEMMA NoFeedType ==
  ASSUME RowsInv
  PROVE  NoFeed \in Response
BY LengthType DEF NoFeed

\* A response that ends takes nothing the follower has accepted.
LEMMA FeedEnds ==
  ASSUME RowsInv, FeedInv, log' = log, feed' = NoFeed, seen' = seen, stopped' = stopped
  PROVE  FeedInv'
<1>1. FeedType'
  BY NoFeedType DEF FeedInv, FeedType
<1>2. SeenInv'
  BY DEF FeedInv, SeenInv, NoFeed
<1>3. GivenInv'
  BY DEF GivenInv, Whole, NoFeed
<1> QED BY <1>1, <1>2, <1>3 DEF FeedInv

\* Rows and claims may change beside the response as long as a row that becomes
\* claimed is to be handed to it.
LEMMA FeedStays ==
  ASSUME RowsInv, FeedInv, feed' = feed, seen' = seen, stopped' = stopped,
         Len(log') \in Nat, Len(log) <= Len(log'),
         Whole => \A i \in 1..Len(log') : outbox'[i] # Free =>
             \/ i \in Given \/ Awaits(i)'
             \/ i \in 1..Len(log) /\ outbox[i] # Free /\ ~Awaits(i)
  PROVE  FeedInv'
<1>0. Len(log) \in Nat
  BY LengthType
<1>1. 1..Len(log) \subseteq 1..Len(log') /\ 0..Len(log) \subseteq 0..Len(log')
  BY <1>0
<1>2. seen' \in Seq(1..Len(log')) /\ feed.pipe \in Seq(1..Len(log'))
  BY <1>0, <1>1 DEF FeedInv, FeedType
<1>3. FeedType'
  BY <1>0, <1>1, <1>2 DEF FeedInv, FeedType
<1>4. SeenInv'
  BY <1>0 DEF FeedInv, SeenInv, lastSequence
<1>5. GivenInv'
  <2>1. Given' = Given /\ (Whole' <=> Whole)
    BY <1>0 DEF Given, Whole
  <2>2. Whole => \A i \in 1..Len(log) : outbox[i] # Free /\ ~Awaits(i) => i \in Given
    BY DEF FeedInv, GivenInv
  <2>3. Whole => \A m \in Given : 1..m \subseteq Given
    BY DEF FeedInv, GivenInv
  <2>4. Whole' => \A i \in 1..Len(log') : outbox'[i] # Free => i \in Given' \/ Awaits(i)'
    BY <2>1, <2>2
  <2> QED BY <2>1, <2>3, <2>4 DEF GivenInv
<1> QED BY <1>3, <1>4, <1>5 DEF FeedInv

\* Rows that go to another round are in the response, or it is bypassed.
LEMMA BypassFeed ==
  ASSUME RowsInv, FeedInv, UNCHANGED <<log, seen, stopped>>, feed' = bypass(batch),
         \A i \in 1..Len(log) : i \notin batch => outbox'[i] = outbox[i],
         Whole => dispatch'[feed.worker].left = dispatch[feed.worker].left
  PROVE  FeedInv'
<1>0. Len(log) \in Nat /\ feed.last \in 0..Len(log) /\ feed.read \in 0..Len(log)
  BY LengthType DEF FeedInv, FeedType
<1>1. CASE feed' = [feed EXCEPT !.bypassed = TRUE] /\ feed.phase \in {"read", "live"}
  <2>1. feed' \in Response
    BY <1>1 DEF FeedInv, FeedType
  <2>2. FeedType'
    BY <2>1 DEF FeedInv, FeedType
  <2>3. /\ feed'.phase = feed.phase /\ feed'.worker = feed.worker /\ feed'.pipe = feed.pipe
        /\ feed'.last = feed.last /\ feed'.read = feed.read /\ feed'.pending = feed.pending
        /\ feed'.bypassed
    BY <1>1 DEF FeedInv, FeedType
  <2>4. SeenInv'
    BY <1>1, <2>3 DEF FeedInv, SeenInv, NoFeed, lastSequence
  <2>5. GivenInv'
    BY <2>3 DEF GivenInv, Whole
  <2> QED BY <2>2, <2>4, <2>5 DEF FeedInv
<1>2. CASE ~(feed' = [feed EXCEPT !.bypassed = TRUE] /\ feed.phase \in {"read", "live"})
  <2>1. feed' = feed
    BY <1>2 DEF bypass
  <2>2. ASSUME Whole, NEW i \in 1..Len(log), outbox'[i] # Free
        PROVE  i \in Given \/ Awaits(i)' \/ (outbox[i] # Free /\ ~Awaits(i))
    <3>1. CASE i \in batch
      <4>1. ~(i > Max({feed.read, feed.last}))
        BY <1>2, <2>2, <3>1 DEF bypass, Whole
      <4>2. CASE feed.phase = "read"
        <5>1. feed.last <= feed.read
          BY <4>2 DEF FeedInv, SeenInv
        <5>2. Max({feed.last, feed.read}) = feed.read /\ {feed.last, feed.read} = {feed.read, feed.last}
          BY <1>0, <5>1, MaxOfTwo
        <5>3. ~(i > feed.read)
          BY <4>1, <5>2
        <5>4. i \in 1..feed.read
          BY <1>0, <5>3
        <5> QED BY <4>2, <5>4 DEF Given
      <4>3. CASE feed.phase = "live"
        <5>1. feed.read = 0
          BY <4>3 DEF FeedInv, SeenInv
        <5>2. Max({feed.read, feed.last}) = feed.last
          BY <1>0, <5>1, MaxOfTwo
        <5> QED BY <1>0, <4>1, <4>3, <5>2 DEF Given
      <4> QED BY <2>2, <4>2, <4>3 DEF Whole
    <3>2. CASE i \notin batch
      <4>1. outbox'[i] = outbox[i] /\ dispatch'[feed.worker].left = dispatch[feed.worker].left
        BY <2>2, <3>2
      <4> QED BY <2>1, <2>2, <4>1 DEF Awaits
    <3> QED BY <3>1, <3>2
  <2> QED BY <1>0, <2>1, <2>2, FeedStays
<1> QED BY <1>1, <1>2

LEMMA ClaimFeed ==
  ASSUME RowsInv, ClaimsInv, FeedInv, NEW w \in Processes, claim(w) \/ claimLost(w)
  PROVE  FeedInv'
<1>0. /\ UNCHANGED <<log, seen, stopped>> /\ dispatch[w] = Idle /\ Len(log) \in Nat
      /\ \A i \in 1..Len(log) : i \notin batch => outbox'[i] = outbox[i]
      /\ \A i \in batch : outbox'[i] = [by |-> w, lease |-> "held", delivered |-> FALSE]
  BY ClaimStep, LengthType
<1>1. CASE claim(w) /\ feed.worker = w
  <2>1. feed' = feed /\ dispatch'[w].left = batch /\ dispatch[w].left = {}
    BY <1>0, <1>1 DEF claim, ClaimsInv, Idle
  <2>2. \A i \in 1..Len(log) : outbox'[i] # Free => Awaits(i)' \/ (outbox[i] # Free /\ ~Awaits(i))
    <3> TAKE i \in 1..Len(log)
    <3>1. CASE i \in batch
      BY <1>0, <1>1, <2>1, <3>1 DEF Awaits
    <3>2. CASE i \notin batch
      BY <1>0, <1>1, <2>1, <3>2 DEF Awaits
    <3> QED BY <3>1, <3>2
  <2> QED BY <1>0, <2>1, <2>2, FeedStays
<1>2. CASE claim(w) /\ feed.worker # w
  <2>1. feed' = bypass(batch)
    BY <1>2 DEF claim
  <2>2. Whole => dispatch'[feed.worker].left = dispatch[feed.worker].left
    BY <1>2 DEF claim, ClaimsInv, FeedInv, SeenInv, Whole
  <2> QED BY <1>0, <2>1, <2>2, BypassFeed
<1>3. CASE claimLost(w)
  <2>1. feed' = bypass(batch) /\ dispatch' = dispatch
    BY <1>3 DEF claimLost
  <2> QED BY <1>0, <2>1, BypassFeed
<1> QED BY <1>1, <1>2, <1>3

LEMMA RowsFeed ==
  ASSUME RowsInv, ClaimsInv, FeedInv, NEW w \in Processes,
         ack(w) \/ ackFails(w) \/ lapse(w) \/ expire(w)
  PROVE  FeedInv'
<1>0. Len(log) \in Nat /\ UNCHANGED <<feed, seen, stopped, log>>
  BY LengthType DEF ack, ackFails, lapse, expire, feedVars
<1>1. CASE ack(w) \/ ackFails(w)
  <2>1. /\ dispatch[w].left = {} /\ dispatch' = [dispatch EXCEPT ![w] = Idle]
        /\ \A i \in 1..Len(log) : outbox[i].by # w => outbox'[i] = outbox[i]
        /\ \A i \in 1..Len(log) : outbox'[i] # Free => outbox[i] # Free
    <3>1. DOMAIN outbox = 1..Len(log)
      BY LenProperties DEF RowsInv
    <3>2. \A i \in 1..Len(log) : outbox'[i] # Free => outbox[i] # Free
      BY <1>1, AckStep DEF Relabels, ackFails
    <3> QED BY <1>1, <3>1, <3>2 DEF ack, ackFails
  <2>2. ASSUME Whole, NEW i \in 1..Len(log), outbox'[i] # Free
        PROVE  Awaits(i)' \/ (outbox[i] # Free /\ ~Awaits(i))
    <3>1. feed.worker \in Processes /\ outbox[i] # Free
      BY <2>1, <2>2 DEF FeedInv, SeenInv, Whole
    <3>2. CASE feed.worker = w
      BY <2>1, <3>1, <3>2 DEF Awaits
    <3>3. CASE feed.worker # w
      <4>1. dispatch'[feed.worker] = dispatch[feed.worker]
        BY <2>1, <3>1, <3>3 DEF ClaimsInv
      <4>2. Awaits(i) => outbox'[i] = outbox[i]
        BY <2>1, <3>3 DEF Awaits
      <4> QED BY <1>0, <3>1, <4>1, <4>2 DEF Awaits
    <3> QED BY <3>2, <3>3
  <2> QED BY <1>0, <2>2, FeedStays
<1>2. CASE lapse(w) \/ expire(w)
  <2>1. /\ dispatch' = dispatch
        /\ \A i \in 1..Len(log) : /\ outbox'[i] # Free => outbox[i] # Free
                                  /\ outbox'[i].delivered = outbox[i].delivered
                                  /\ outbox'[i].by = outbox[i].by
    BY <1>2, LapseStep DEF Relabels
  <2>2. \A i \in 1..Len(log) : Awaits(i) => Awaits(i)'
    BY <1>0, <2>1 DEF Awaits
  <2> QED BY <1>0, <2>1, <2>2, FeedStays
<1> QED BY <1>1, <1>2

LEMMA PublishFeed ==
  ASSUME RowsInv, FeedInv, publish
  PROVE  FeedInv'
<1>1. /\ UNCHANGED <<feed, seen, stopped, dispatch>>
      /\ \A i \in 1..Len(log) : outbox'[i] = outbox[i]
      /\ \A i \in 1..Len(log') : i > Len(log) => outbox'[i] = Free
  BY PublishStep DEF publish, feedVars
<1>2. Len(log) \in Nat /\ Len(log') \in Nat /\ Len(log) <= Len(log')
  BY PublishStep, LengthType, LenProperties
<1>3. ASSUME NEW i \in 1..Len(log'), outbox'[i] # Free
      PROVE  i \in 1..Len(log) /\ outbox[i] # Free /\ (Awaits(i) => Awaits(i)')
  <2>1. i \in 1..Len(log)
    BY <1>1, <1>2, <1>3
  <2> QED BY <1>1, <1>3, <2>1 DEF Awaits
<1> QED BY <1>1, <1>2, <1>3, FeedStays

LEMMA HandleFeed ==
  ASSUME RowsInv, FeedInv, NEW w \in Processes, handle(w)
  PROVE  FeedInv'
<1>0. Len(log) \in Nat /\ lastSequence \in 0..Len(log)
  BY LengthType, LastSeen DEF FeedInv
<1>1. /\ feed' = [NoFeed EXCEPT !.phase = "subscribed", !.worker = w, !.last = lastSequence]
      /\ log' = log /\ seen' = seen /\ stopped' = stopped /\ ~stopped
  BY <1>0 DEF handle
<1>2. FeedType'
  BY <1>0, <1>1, NoFeedType DEF FeedInv, FeedType
<1>3. /\ feed'.phase = "subscribed" /\ feed'.worker = w /\ feed'.last = lastSequence
      /\ feed'.pipe = <<>> /\ ~feed'.bypassed
  BY <1>1 DEF NoFeed
<1>4. SeenInv'
  BY <1>1, <1>3 DEF FeedInv, SeenInv, lastSequence
<1>5. GivenInv'
  BY <1>3 DEF GivenInv, Whole
<1> QED BY <1>2, <1>4, <1>5 DEF FeedInv

LEMMA ReadFeed ==
  ASSUME RowsInv, FeedInv, readBacklog
  PROVE  FeedInv'
<1>0. Len(log) \in Nat /\ feed.last \in 0..Len(log) /\ feed.pending \subseteq 1..Len(log)
  BY LengthType DEF FeedInv, FeedType
<1>1. /\ feed.phase = "subscribed" /\ feed' = [feed EXCEPT !.phase = "read", !.read = Len(log)]
      /\ log' = log /\ seen' = seen /\ stopped' = stopped
  BY DEF readBacklog
<1>2. FeedType'
  <2>1. feed' \in Response
    <3>1. Len(log) \in 0..Len(log)
      BY <1>0
    <3> QED BY <1>1, <3>1 DEF FeedInv, FeedType
  <2> QED BY <1>1, <2>1 DEF FeedInv, FeedType
<1>3. /\ feed'.phase = "read" /\ feed'.read = Len(log) /\ feed'.pending = feed.pending
      /\ feed'.worker = feed.worker /\ feed'.last = feed.last /\ feed'.pipe = feed.pipe
  BY <1>1 DEF FeedInv, FeedType
<1>4. SeenInv'
  BY <1>0, <1>1, <1>3 DEF FeedInv, SeenInv, NoFeed, lastSequence
<1>5. Given' = 1..Len(log)
  BY <1>0, <1>3 DEF Given
<1>6. GivenInv'
  BY <1>0, <1>1, <1>5 DEF GivenInv
<1> QED BY <1>2, <1>4, <1>6 DEF FeedInv

\* A Worker that restarts takes its own responses and claims with it.
LEMMA LostFeed ==
  ASSUME RowsInv, ClaimsInv, FeedInv, NEW w \in Processes, disconnect \/ restart(w)
  PROVE  FeedInv'
<1>1. log' = log /\ seen' = seen /\ stopped' = stopped /\ Len(log) \in Nat
  BY LengthType DEF disconnect, restart
<1>2. CASE feed' = NoFeed
  BY <1>1, <1>2, FeedEnds
<1>3. CASE restart(w) /\ feed.worker # w
  <2>1. feed' = feed /\ outbox' = outbox /\ dispatch' = [dispatch EXCEPT ![w] = Idle]
    BY <1>3 DEF restart
  <2>2. Whole => dispatch'[feed.worker] = dispatch[feed.worker]
    BY <1>3, <2>1 DEF ClaimsInv, FeedInv, SeenInv, Whole
  <2>3. Whole => \A i \in 1..Len(log) : Awaits(i) => Awaits(i)'
    BY <2>1, <2>2 DEF Awaits
  <2> QED BY <1>1, <2>1, <2>3, FeedStays
<1> QED BY <1>2, <1>3 DEF disconnect, restart

\* The dispatcher hands out the lowest row left: the response has all below it.
LEMMA LowestIsNext ==
  ASSUME RowsInv, ClaimsInv, FeedInv, Whole,
         LeftOf(feed.worker) # {}, NEW i \in 1..Len(log), i < Min(LeftOf(feed.worker))
  PROVE  i \in Given
<1> DEFINE e == Min(LeftOf(feed.worker))
<1>0. feed.worker \in Processes
  BY DEF FeedInv, SeenInv, Whole
<1>1. e \in LeftOf(feed.worker) /\ e \in 1..Len(log) /\ \A j \in LeftOf(feed.worker) : e <= j
  BY <1>0, LowestLeft
<1> HIDE DEF e
<1>2. outbox[e] # Free
  BY <1>0, <1>1 DEF ClaimsInv, LeftOf
<1>3. i < e
  BY DEF e
<1>4. outbox[i] # Free
  BY <1>1, <1>2, <1>3 DEF RowsInv
<1>5. i \notin LeftOf(feed.worker)
  BY <1>1, <1>3
<1> QED BY <1>4, <1>5 DEF FeedInv, GivenInv, LeftOf, Awaits

LEMMA DeliverFeed ==
  ASSUME RowsInv, ClaimsInv, FeedInv, NEW w \in Processes, deliver(w)
  PROVE  FeedInv'
<1> DEFINE e == Min(LeftOf(w))
           T == Response
<1>0. Len(log) \in Nat /\ LeftOf(w) # {}
  BY LengthType DEF deliver, LeftOf
<1>1. e \in LeftOf(w) /\ e \in 1..Len(log) /\ \A j \in LeftOf(w) : e <= j
  BY <1>0, LowestLeft
<1>2. /\ log' = log /\ outbox' = outbox /\ seen' = seen /\ stopped' = stopped
      /\ dispatch' = [dispatch EXCEPT ![w].left = @ \ {e}]
      /\ feed' = IF feed.worker # w THEN feed
                 ELSE IF feed.phase = "live" THEN sendLive(feed, e)
                 ELSE [feed EXCEPT !.pending = @ \cup {e}]
  <2>1. e = Min(dispatch[w].left)
    BY DEF LeftOf
  <2>2. dispatch' = [dispatch EXCEPT ![w].left = dispatch[w].left \ {Min(dispatch[w].left)}]
    BY DEF deliver
  <2> HIDE DEF e
  <2> QED BY <2>1, <2>2 DEF deliver
<1>3. feed \in T /\ feed.last \in 0..Len(log) /\ lastSequence \in 0..Len(log)
      /\ feed.pipe \in Seq(1..Len(log)) /\ Len(feed.pipe) \in Nat /\ lastSequence' = lastSequence
  BY <1>2, LenProperties, LastSeen DEF FeedInv, FeedType, lastSequence
<1>4. dispatch'[w].left = LeftOf(w) \ {e}
  BY <1>2 DEF ClaimsInv, LeftOf
<1> HIDE DEF e, T
<1>5. ASSUME feed' \in T PROVE FeedType'
  BY <1>2, <1>5 DEF FeedInv, FeedType, T
<1>6. CASE feed.worker # w
  <2>1. Whole => dispatch'[feed.worker] = dispatch[feed.worker]
    BY <1>2, <1>6 DEF ClaimsInv, FeedInv, SeenInv, Whole
  <2>2. feed' = feed
    BY <1>2, <1>6
  <2>3. Whole => \A i \in 1..Len(log) : Awaits(i) => Awaits(i)'
    BY <1>2, <2>1, <2>2 DEF Awaits
  <2> QED BY <1>0, <1>2, <2>2, <2>3, FeedStays
<1>7. CASE feed.worker = w /\ feed.phase # "live"
  <2>1. feed' = [feed EXCEPT !.pending = @ \cup {e}]
    BY <1>2, <1>7
  <2>2. /\ feed' \in T /\ feed'.phase = feed.phase /\ feed'.worker = w /\ feed'.read = feed.read
        /\ feed'.last = feed.last /\ feed'.pending = feed.pending \cup {e} /\ feed'.pipe = feed.pipe
        /\ feed'.bypassed = feed.bypassed
    BY <1>1, <1>3, <1>7, <2>1 DEF T
  <2>3. feed.phase # "none"
    BY <1>7, RunEventsAssumption DEF FeedInv, SeenInv, NoFeed, Nobody
  <2>4. SeenInv'
    BY <1>2, <1>3, <1>7, <2>2, <2>3 DEF FeedInv, SeenInv, NoFeed
  <2>5. CASE Whole
    <3>0. feed.phase = "read"
      BY <1>7, <2>5 DEF Whole
    <3>1. Given' = Given \cup {e}
      BY <2>2, <3>0 DEF Given
    <3>2. \A i \in 1..Len(log) : i < e => i \in Given
      BY <1>0, <1>7, <2>5, LowestIsNext DEF e
    <3>3. \A m \in Given' : 1..m \subseteq Given'
      <4>1. \A i \in 1..e : i = e \/ i \in Given
        BY <1>0, <1>1, <3>2
      <4>2. \A m \in Given : 1..m \subseteq Given
        BY <2>5 DEF FeedInv, GivenInv
      <4> QED BY <3>1, <4>1, <4>2
    <3>4. \A i \in 1..Len(log) : outbox'[i] # Free => i \in Given' \/ Awaits(i)'
      <4> SUFFICES ASSUME NEW i \in 1..Len(log), outbox[i] # Free, i \notin Given, i # e
                   PROVE  Awaits(i)'
        BY <1>2, <3>1
      <4>1. Awaits(i)
        BY <2>5 DEF FeedInv, GivenInv
      <4> QED BY <1>2, <1>4, <1>7, <2>2, <4>1 DEF Awaits, LeftOf
    <3>5. GivenInv'
      BY <1>2, <3>3, <3>4 DEF GivenInv
    <3> QED BY <1>5, <2>2, <2>4, <3>5 DEF FeedInv
  <2>6. CASE ~Whole
    <3>1. GivenInv'
      BY <2>2, <2>6 DEF GivenInv, Whole
    <3> QED BY <1>5, <2>2, <2>4, <3>1 DEF FeedInv
  <2> QED BY <2>5, <2>6
<1>8. CASE feed.worker = w /\ feed.phase = "live"
  <2>0. feed' = sendLive(feed, e) /\ Given = 1..feed.last
    BY <1>2, <1>8 DEF Given
  <2>1. CASE e <= feed.last
    <3>1. feed' = feed
      BY <2>0, <2>1 DEF sendLive
    <3>2. e \in Given
      BY <1>1, <1>3, <2>0, <2>1
    <3>3. \A i \in 1..Len(log) : Awaits(i) => i = e \/ Awaits(i)'
      BY <1>2, <1>4, <1>8, <3>1 DEF Awaits, LeftOf
    <3> QED BY <1>0, <1>2, <3>1, <3>2, <3>3, FeedStays
  <2>2. CASE ~(e <= feed.last)
    <3>1. feed' = [feed EXCEPT !.pipe = Append(@, e), !.last = e]
      BY <2>0, <2>2 DEF sendLive
    <3>2. Append(feed.pipe, e) \in Seq(1..Len(log)) /\ Len(Append(feed.pipe, e)) = Len(feed.pipe) + 1
          /\ \A i \in 1..Len(feed.pipe) : Append(feed.pipe, e)[i] = feed.pipe[i]
          /\ Append(feed.pipe, e)[Len(feed.pipe) + 1] = e
      BY <1>1, <1>3, AppendProperties
    <3>3. /\ feed' \in T /\ feed'.phase = "live" /\ feed'.worker = w /\ feed'.last = e
          /\ feed'.pending = feed.pending /\ feed'.pipe = Append(feed.pipe, e)
          /\ feed'.read = feed.read /\ feed'.bypassed = feed.bypassed
      <4> DEFINE pipe == Append(feed.pipe, e)
      <4>1. pipe \in Seq(1..Len(log)) /\ e \in 0..Len(log)
        BY <1>0, <1>1, <3>2
      <4>2. feed' = [feed EXCEPT !.pipe = pipe, !.last = e]
        BY <1>3, <3>1 DEF T
      <4> HIDE DEF pipe
      <4>3. /\ feed' \in T /\ feed'.phase = "live" /\ feed'.worker = w /\ feed'.last = e
            /\ feed'.pending = feed.pending /\ feed'.pipe = pipe
            /\ feed'.read = feed.read /\ feed'.bypassed = feed.bypassed
        BY <1>3, <1>8, <4>1, <4>2 DEF T
      <4> QED BY <4>3 DEF pipe
    <3>4. Given' = 1..e
      BY <3>3 DEF Given
    <3>5. ASSUME feed.bypassed PROVE FeedInv'
      <4>1. SeenInv'
        <5>1. ~stopped' /\ feed.pending = {} /\ feed.read = 0 /\ feed.worker \in Processes
          BY <1>2, <1>8 DEF FeedInv, SeenInv, NoFeed
        <5>2. feed'.phase # "none" /\ feed'.phase \notin {"subscribed", "read"} /\ feed'.bypassed
          BY <3>3, <3>5
        <5> QED BY <1>8, <3>3, <5>1, <5>2 DEF SeenInv
      <4>2. GivenInv'
        BY <3>3, <3>5 DEF GivenInv, Whole
      <4> QED BY <1>5, <3>3, <4>1, <4>2 DEF FeedInv
    <3>6. ASSUME ~feed.bypassed PROVE FeedInv'
      <4>0. Whole
        BY <1>8, <3>6 DEF Whole
      <4>1. e = feed.last + 1
        <5>1. feed.last + 1 \in 1..Len(log) /\ feed.last + 1 <= e /\ feed.last + 1 \notin Given
          BY <1>0, <1>1, <1>3, <2>0, <2>2
        <5>2. ~(feed.last + 1 < e)
          BY <1>0, <1>8, <4>0, <5>1, LowestIsNext DEF e
        <5> QED BY <1>1, <1>3, <5>1, <5>2
      <4>2. feed.last = lastSequence + Len(feed.pipe)
            /\ \A i \in 1..Len(feed.pipe) : feed.pipe[i] = lastSequence + i
        BY <1>8, <3>6 DEF FeedInv, SeenInv
      <4>3. Len(feed'.pipe) = Len(feed.pipe) + 1 /\ e = lastSequence + (Len(feed.pipe) + 1)
        BY <1>3, <3>2, <3>3, <4>1, <4>2
      <4>4. \A i \in 1..(Len(feed.pipe) + 1) : feed'.pipe[i] = lastSequence + i
        <5> SUFFICES ASSUME NEW i \in 1..(Len(feed.pipe) + 1)
                     PROVE  feed'.pipe[i] = lastSequence + i
          OBVIOUS
        <5>1. i \in 1..Len(feed.pipe) \/ i = Len(feed.pipe) + 1
          BY <1>3
        <5>2. CASE i \in 1..Len(feed.pipe)
          BY <3>2, <3>3, <4>2, <5>2
        <5>3. CASE i = Len(feed.pipe) + 1
          BY <3>2, <3>3, <4>3, <5>3
        <5> QED BY <5>1, <5>2, <5>3
      <4>5. SeenInv'
        BY <1>2, <1>3, <1>8, <3>3, <4>3, <4>4 DEF FeedInv, SeenInv, NoFeed
      <4>6. GivenInv'
        <5>1. e \in Given' /\ Given \subseteq Given' /\ \A m \in Given' : 1..m \subseteq Given'
          BY <1>1, <1>3, <2>0, <3>4, <4>1
        <5>2. \A i \in 1..Len(log) : outbox[i] # Free => i \in Given' \/ Awaits(i)'
          <6> SUFFICES ASSUME NEW i \in 1..Len(log), outbox[i] # Free, i \notin Given, i # e
                       PROVE  Awaits(i)'
            BY <5>1
          <6>1. Awaits(i)
            BY <4>0 DEF FeedInv, GivenInv
          <6> QED BY <1>2, <1>4, <1>8, <3>3, <6>1 DEF Awaits, LeftOf
        <5> QED BY <1>2, <5>1, <5>2 DEF GivenInv
      <4> QED BY <1>5, <3>3, <4>5, <4>6 DEF FeedInv
    <3> QED BY <3>5, <3>6
  <2> QED BY <2>1, <2>2
<1> QED BY <1>6, <1>7, <1>8

-----------------------------------------------------------------------------
LEMMA PipeParts ==
  ASSUME RowsInv, FeedInv, feed.pipe # <<>>
  PROVE  /\ feed.phase = "live" /\ ~stopped /\ nextFrame \in 1..Len(log)
         /\ nextFrame = feed.pipe[1] /\ 1 \in 1..Len(feed.pipe) /\ Len(feed.pipe) \in Nat
         /\ Tail(feed.pipe) \in Seq(1..Len(log)) /\ Len(Tail(feed.pipe)) = Len(feed.pipe) - 1
         /\ \A i \in 1..Len(Tail(feed.pipe)) : Tail(feed.pipe)[i] = feed.pipe[i + 1]
<1>0. feed.pipe \in Seq(1..Len(log)) /\ Len(feed.pipe) \in Nat \ {0}
  BY LenProperties, EmptySeq DEF FeedInv, FeedType
<1>1. feed.phase = "live" /\ ~stopped
  BY DEF FeedInv, SeenInv, FeedType, NoFeed
<1>2. /\ Tail(feed.pipe) \in Seq(1..Len(log)) /\ Len(Tail(feed.pipe)) = Len(feed.pipe) - 1
      /\ \A i \in 1..Len(Tail(feed.pipe)) : Tail(feed.pipe)[i] = feed.pipe[i + 1]
      /\ Head(feed.pipe) \in 1..Len(log)
  BY <1>0, HeadTailProperties
<1>3. Head(feed.pipe) = feed.pipe[1]
  BY <1>0
<1> QED BY <1>0, <1>1, <1>2, <1>3 DEF nextFrame

\* The follower takes a frame that is new; it is the next in order unless the
\* response was bypassed.
LEMMA TakesFrame ==
  ASSUME RowsInv, FeedInv, followRunEventStream, nextFrame > lastSequence
  PROVE  /\ ~stopped /\ nextFrame \in 1..Len(log)
         /\ ~feed.bypassed => nextFrame = lastSequence + 1
         /\ seen' = Append(seen, nextFrame) /\ stopped' \in BOOLEAN
         /\ feed' = IF stopped' THEN NoFeed ELSE [feed EXCEPT !.pipe = Tail(feed.pipe)]
         /\ UNCHANGED <<log, outbox, dispatch>>
<1>0. feed.pipe # <<>>
  BY DEF followRunEventStream
<1>1. lastSequence \in Int /\ nextFrame \in 1..Len(log) /\ ~stopped /\ Len(log) \in Nat
  BY <1>0, LastSeen, LengthType, PipeParts DEF FeedInv
<1>2. ~(nextFrame <= lastSequence)
  BY <1>1
<1>3. stopped' = endsRun(nextFrame) /\ seen' = Append(seen, nextFrame)
      /\ feed' = IF stopped' THEN NoFeed ELSE [feed EXCEPT !.pipe = Tail(feed.pipe)]
  BY <1>2 DEF followRunEventStream
<1>4. ~feed.bypassed => nextFrame = lastSequence + 1
  BY <1>0, PipeParts DEF FeedInv, SeenInv
<1> QED BY <1>1, <1>3, <1>4 DEF followRunEventStream, endsRun

LEMMA FollowFeed ==
  ASSUME RowsInv, FeedInv, followRunEventStream
  PROVE  FeedInv'
<1> DEFINE T == Response
           rest == [feed EXCEPT !.pipe = Tail(feed.pipe)]
<1>0. /\ feed.pipe # <<>> /\ UNCHANGED <<log, outbox, dispatch>>
      /\ Len(log) \in Nat /\ lastSequence \in 0..Len(log)
  BY LastSeen, LengthType DEF followRunEventStream, FeedInv
<1>1. /\ feed.phase = "live" /\ ~stopped /\ nextFrame \in 1..Len(log)
      /\ nextFrame = feed.pipe[1] /\ 1 \in 1..Len(feed.pipe) /\ Len(feed.pipe) \in Nat
      /\ Tail(feed.pipe) \in Seq(1..Len(log)) /\ Len(Tail(feed.pipe)) = Len(feed.pipe) - 1
      /\ \A i \in 1..Len(Tail(feed.pipe)) : Tail(feed.pipe)[i] = feed.pipe[i + 1]
  BY <1>0, PipeParts
<1>2. seen \in Seq(1..Len(log)) /\ Len(seen) \in Nat /\ feed \in T /\ stopped \in BOOLEAN
  BY LenProperties DEF FeedInv, FeedType
<1>3. /\ rest \in T /\ rest.phase = "live" /\ rest.worker = feed.worker
      /\ rest.last = feed.last /\ rest.pending = feed.pending /\ rest.pipe = Tail(feed.pipe)
      /\ rest.read = feed.read /\ rest.bypassed = feed.bypassed
  BY <1>1, <1>2
<1> HIDE DEF rest, T
<1>4. ASSUME feed' = rest PROVE GivenInv'
  <2>1. Given' = Given /\ (Whole' <=> Whole) /\ \A i \in 1..Len(log) : Awaits(i)' <=> Awaits(i)
    BY <1>0, <1>1, <1>3, <1>4 DEF Given, Whole, Awaits
  <2> QED BY <1>0, <2>1 DEF FeedInv, GivenInv
<1>5. CASE nextFrame > lastSequence
  <2>0. /\ ~feed.bypassed => nextFrame = lastSequence + 1
        /\ seen' = Append(seen, nextFrame) /\ stopped' \in BOOLEAN
        /\ feed' = IF stopped' THEN NoFeed ELSE rest
    BY <1>5, TakesFrame DEF rest
  <2>1. /\ seen' \in Seq(1..Len(log)) /\ Len(seen') = Len(seen) + 1
        /\ seen'[Len(seen) + 1] = nextFrame
    BY <1>1, <1>2, <2>0, AppendProperties
  <2>2. lastSequence' = nextFrame
    <3>1. seen' # <<>>
      BY <1>2, <2>1
    <3> QED BY <2>1, <3>1 DEF lastSequence, Last
  <2>3. CASE stopped'
    <3>1. feed' = NoFeed
      BY <2>0, <2>3
    <3>2. FeedType'
      BY <1>0, <2>0, <2>1, <3>1, NoFeedType DEF FeedInv, FeedType
    <3>3. SeenInv'
      BY <3>1 DEF FeedInv, SeenInv, NoFeed
    <3>4. GivenInv'
      BY <3>1 DEF GivenInv, Whole, NoFeed
    <3> QED BY <3>2, <3>3, <3>4 DEF FeedInv
  <2>4. CASE ~stopped'
    <3>1. feed' = rest
      BY <2>0, <2>4
    <3>2. FeedType'
      BY <1>0, <1>3, <2>0, <2>1, <3>1 DEF FeedType, T
    <3>3. feed.pending = {} /\ feed.read = 0 /\ feed.worker \in Processes
      BY <1>1 DEF FeedInv, SeenInv
    <3>4. ASSUME ~feed.bypassed
          PROVE  /\ feed.last = nextFrame + Len(rest.pipe)
                 /\ \A i \in 1..Len(rest.pipe) : rest.pipe[i] = nextFrame + i
      <4>1. /\ feed.last = lastSequence + Len(feed.pipe)
            /\ \A i \in 1..Len(feed.pipe) : feed.pipe[i] = lastSequence + i
        BY <1>1, <3>4 DEF FeedInv, SeenInv
      <4>2. nextFrame = lastSequence + 1
        BY <2>0, <3>4
      <4>3. \A i \in 1..Len(rest.pipe) : i + 1 \in 1..Len(feed.pipe)
                                          /\ lastSequence + (i + 1) = nextFrame + i
        BY <1>0, <1>1, <1>3, <4>2
      <4>4. feed.last = nextFrame + Len(rest.pipe)
        <5>1. Len(rest.pipe) = Len(feed.pipe) - 1
          BY <1>1, <1>3
        <5>2. Len(feed.pipe) \in Nat /\ lastSequence \in Nat
          BY <1>0, <1>1
        <5>3. feed.last = lastSequence + Len(feed.pipe)
          BY <4>1
        <5>4. \A a, b \in Nat : a + b = (a + 1) + (b - 1)
          OBVIOUS
        <5>5. feed.last = (lastSequence + 1) + (Len(feed.pipe) - 1)
          BY <5>2, <5>3, <5>4
        <5> QED BY ONLY <4>2, <5>1, <5>5, Zenon
      <4>5. ASSUME NEW i \in 1..Len(rest.pipe) PROVE rest.pipe[i] = nextFrame + i
        <5>1. rest.pipe[i] = feed.pipe[i + 1]
          BY <1>1, <1>3
        <5> QED BY <4>1, <4>3, <5>1
      <4> QED BY <4>4, <4>5
    <3>5. SeenInv'
      BY <1>3, <2>2, <2>4, <3>1, <3>3, <3>4 DEF SeenInv, NoFeed
    <3> QED BY <1>4, <3>1, <3>2, <3>5 DEF FeedInv
  <2> QED BY <2>0, <2>3, <2>4
<1>6. CASE ~(nextFrame > lastSequence)
  <2>0. nextFrame <= lastSequence
    BY <1>0, <1>1, <1>6
  <2>1. feed' = rest /\ seen' = seen /\ stopped' = stopped
    BY <2>0 DEF followRunEventStream, rest
  <2>2. FeedType'
    BY <1>0, <1>2, <1>3, <2>1 DEF FeedType, T
  <2>3. feed.bypassed
    <3> SUFFICES ASSUME ~feed.bypassed PROVE FALSE
      OBVIOUS
    <3>1. feed.pipe[1] = lastSequence + 1
      BY <1>1 DEF FeedInv, SeenInv
    <3> QED BY <1>0, <1>1, <2>0, <3>1
  <2>4. SeenInv'
    BY <1>1, <1>3, <2>1, <2>3 DEF FeedInv, SeenInv, NoFeed
  <2> QED BY <1>4, <2>1, <2>2, <2>4 DEF FeedInv
<1> QED BY <1>5, <1>6

-----------------------------------------------------------------------------
\* The backlog, and what arrived meanwhile.

\* The greatest of a set of bounded numbers is the least of its upper bounds.
LEMMA MaxIn ==
  ASSUME NEW n \in Nat, NEW S, S \subseteq 0..n, S # {}
  PROVE  Max(S) \in S /\ \A e \in S : Max(S) >= e
<1> DEFINE B == {m \in Nat : \A e \in S : m >= e}
<1>1. Min(B) \in B /\ \A y \in B : Min(B) <= y
  <2> B \subseteq Nat /\ n \in B
    OBVIOUS
  <2> HIDE DEF B
  <2> QED BY LeastIn
<1> DEFINE x == Min(B)
<1> HIDE DEF x
<1>2. x \in B /\ \A y \in B : x <= y
  BY <1>1 DEF x
<1>3. x \in S
  <2> SUFFICES ASSUME x \notin S PROVE FALSE
    OBVIOUS
  <2>1. PICK e \in S : TRUE
    OBVIOUS
  <2>2. \A f \in S : f \in Nat /\ f < x
    BY <1>2
  <2>3. x - 1 \in B
    BY <1>2, <2>1, <2>2
  <2> QED BY <1>2, <2>3
<1>4. \E y \in S : \A e \in S : y >= e
  BY <1>2, <1>3
<1> QED BY <1>4 DEF Max

\* An interval in ascending order.
LEMMA AscendingInterval ==
  ASSUME NEW a \in Nat, NEW b \in Nat, a <= b
  PROVE  Ascending((a + 1)..b) = [k \in 1..(b - a) |-> a + k]
<1> DEFINE S == (a + 1)..b
<1>1. Cardinality(S) = b - a
  <2>1. a + 1 \in Int /\ b \in Int
    OBVIOUS
  <2>2. Cardinality(S) = IF a + 1 > b THEN 0 ELSE b - (a + 1) + 1
    BY <2>1, FS_Interval
  <2> HIDE DEF S
  <2> QED BY <2>2
<1>2. ASSUME NEW x \in S PROVE Cardinality({y \in S : y < x}) = x - 1 - a
  <2>1. {y \in S : y < x} = (a + 1)..(x - 1)
    BY <1>2
  <2>2. Cardinality((a + 1)..(x - 1)) = x - 1 - a
    BY <1>2, FS_Interval
  <2> QED BY <2>1, <2>2
<1>3. ASSUME NEW k \in 1..(b - a)
      PROVE  (CHOOSE x \in S : Cardinality({y \in S : y < x}) = k - 1) = a + k
  <2>1. a + k \in S /\ a + k - 1 - a = k - 1
    OBVIOUS
  <2>2. Cardinality({y \in S : y < a + k}) = k - 1
    BY <1>2, <2>1
  <2>3. \A x \in S : Cardinality({y \in S : y < x}) = k - 1 => x = a + k
    <3> SUFFICES ASSUME NEW x \in S, Cardinality({y \in S : y < x}) = k - 1 PROVE x = a + k
      OBVIOUS
    <3>1. x - 1 - a = k - 1
      BY <1>2
    <3> QED BY <3>1
  <2> HIDE DEF S
  <2> QED BY <2>1, <2>2, <2>3
<1> HIDE DEF S
<1>4. Ascending(S) = [k \in 1..(b - a) |-> a + k]
  BY <1>1, <1>3 DEF Ascending
<1> QED BY <1>4 DEF S

\* The numbers of a set in ascending order are of the set.
LEMMA AscendingIn ==
  ASSUME NEW n \in Nat, NEW S, S \subseteq 1..n
  PROVE  Ascending(S) \in Seq(S)
<1> DEFINE below(x) == {y \in S : y < x}
           N == Cardinality(S)
<1>0. IsFiniteSet(S) /\ N \in Nat /\ S \subseteq Nat
  <2>1. IsFiniteSet(1..n)
    BY FS_Interval
  <2>2. IsFiniteSet(S)
    BY <2>1, FS_Subset
  <2> QED BY <2>2, FS_CardinalityType
<1>1. \A x : IsFiniteSet(below(x)) /\ Cardinality(below(x)) \in Nat
  <2> TAKE x
  <2>1. below(x) \subseteq S
    OBVIOUS
  <2> HIDE DEF below
  <2> QED BY <1>0, <2>1, FS_Subset, FS_CardinalityType
<1>2. ASSUME NEW x \in S
      PROVE  /\ IsFiniteSet(below(x) \cup {x})
             /\ Cardinality(below(x) \cup {x}) = Cardinality(below(x)) + 1
  <2>1. x \notin below(x)
    BY <1>0
  <2> HIDE DEF below
  <2> QED BY <1>1, <2>1, FS_AddElement
<1> DEFINE Found(k) == \E x \in S : Cardinality(below(x)) = k - 1
<1>3. \A k \in 1..N : Found(k)
  <2> DEFINE B == {k \in 1..N : ~Found(k)}
  <2> SUFFICES ASSUME B # {} PROVE FALSE
    OBVIOUS
  <2> DEFINE k == Min(B)
  <2> HIDE DEF Found
  <2>1. k \in B /\ \A j \in B : k <= j
    <3>1. B \subseteq Nat
      BY <1>0
    <3> HIDE DEF B
    <3> QED BY <3>1, LeastIn
  <2> HIDE DEF k
  <2>2. k \in 1..N /\ ~Found(k)
    BY <2>1
  <2>3. CASE k = 1
    <3>1. S # {}
      BY <1>0, <2>2, FS_EmptySet
    <3> DEFINE x == Min(S)
    <3>2. x \in S /\ \A y \in S : x <= y
      BY <1>0, <3>1, LeastIn
    <3> HIDE DEF x
    <3>3. below(x) = {}
      <4>1. \A y \in S : y \in Nat /\ x \in Nat /\ x <= y
        BY <1>0, <3>2
      <4>2. \A y \in S : ~(y < x)
        BY <4>1
      <4> QED BY <4>2
    <3>4. Cardinality(below(x)) = k - 1
      <4> HIDE DEF below
      <4> QED BY <2>3, <3>3, FS_EmptySet
    <3> HIDE DEF below
    <3> QED BY <2>2, <3>2, <3>4 DEF Found
  <2>4. CASE k # 1
    <3>1. k - 1 \in 1..N /\ k - 1 \notin B
      BY <1>0, <2>1, <2>2, <2>4
    <3>2. PICK x \in S : Cardinality(below(x)) = k - 1 - 1
      BY <3>1 DEF Found
    <3> DEFINE above == {y \in S : y > x}
    <3>3. above # {}
      <4> SUFFICES ASSUME above = {} PROVE FALSE
        OBVIOUS
      <4>1. S = below(x) \cup {x}
        <5>1. \A y \in S : y \in Nat /\ x \in Nat /\ ~(y > x)
          BY <1>0
        <5>2. \A y \in S : y < x \/ y = x
          BY <5>1
        <5> QED BY <5>2
      <4>2. N = k - 1 - 1 + 1
        BY <1>2, <3>2, <4>1
      <4> QED BY <1>0, <2>2, <4>2
    <3> DEFINE z == Min(above)
    <3>4. z \in above /\ \A y \in above : z <= y
      <4>1. above \subseteq Nat
        BY <1>0
      <4> HIDE DEF above
      <4> QED BY <3>3, <4>1, LeastIn
    <3> HIDE DEF z
    <3>5. below(z) = below(x) \cup {x}
      <4>1. z \in Nat /\ x \in Nat /\ z > x /\ z \in S
        BY <1>0, <3>4
      <4>2. \A y \in S : y < z <=> y < x \/ y = x
        <5> TAKE y \in S
        <5>1. y \in Nat
          BY <1>0
        <5>2. y > x => z <= y
          BY <3>4
        <5> QED BY <4>1, <5>1, <5>2
      <4> QED BY <4>2
    <3>6. Cardinality(below(z)) = k - 1
      <4>1. Cardinality(below(z)) = k - 1 - 1 + 1
        BY <1>2, <3>2, <3>5
      <4> QED BY <1>0, <2>2, <4>1
    <3>7. z \in S
      BY <3>4
    <3> HIDE DEF below
    <3> QED BY <2>2, <3>6, <3>7 DEF Found
  <2> QED BY <2>3, <2>4
<1>4. \A k \in 1..N : (CHOOSE x \in S : Cardinality(below(x)) = k - 1) \in S
  BY <1>3
<1>5. Ascending(S) \in [1..N -> S]
  BY <1>4 DEF Ascending
<1> QED BY <1>0, <1>5, ToSeq

LEMMA BacklogFeed ==
  ASSUME RowsInv, FeedInv, sendBacklog
  PROVE  FeedInv'
<1> DEFINE T == Response
           read == feed.read
           late == {event \in feed.pending : event > read}
           m == Max(late \cup {read})
           backlog == [i \in 1..(read - feed.last) |-> feed.last + i]
           pipe == backlog \o Ascending(late)
<1>0. /\ Len(log) \in Nat /\ feed \in T /\ feed.phase = "read"
      /\ feed.last \in 0..Len(log) /\ read \in 0..Len(log) /\ feed.pending \subseteq 1..Len(log)
      /\ feed.last <= read /\ feed.last = lastSequence /\ feed.worker \in Processes
  BY LengthType DEF sendBacklog, FeedInv, FeedType, SeenInv
<1>1. Max({feed.last, read}) = read
  BY <1>0, MaxOfTwo
<1>2. feed' = [feed EXCEPT !.phase = "live", !.pending = {}, !.read = 0, !.pipe = pipe, !.last = m]
      /\ UNCHANGED <<log, outbox, dispatch, seen, stopped>>
  BY <1>1 DEF sendBacklog
<1>3. m \in late \cup {read} /\ (\A e \in late \cup {read} : m >= e) /\ m \in 0..Len(log)
  <2>1. late \cup {read} \subseteq 0..Len(log)
    BY <1>0
  <2> HIDE DEF late, read
  <2> QED BY <1>0, <2>1, MaxIn
<1> HIDE DEF m
<1>4. /\ backlog \in Seq(1..Len(log)) /\ Len(backlog) = read - feed.last
      /\ \A i \in 1..Len(backlog) : backlog[i] = feed.last + i
  <2>1. /\ read - feed.last \in Nat
        /\ \A i \in 1..(read - feed.last) : feed.last + i \in 1..Len(log)
    BY <1>0
  <2>2. backlog \in [1..(read - feed.last) -> 1..Len(log)]
    BY <2>1
  <2> QED BY <2>1, <2>2, ToSeq
<1>5. Ascending(late) \in Seq(1..Len(log))
  <2>1. late \subseteq 1..Len(log)
    BY <1>0
  <2> HIDE DEF late
  <2>2. Ascending(late) \in Seq(late)
    BY <1>0, <2>1, AscendingIn
  <2> DEFINE s == Ascending(late)
  <2> HIDE DEF s
  <2>3. s \in Seq(late)
    BY <2>2 DEF s
  <2>4. s \in [1..Len(s) -> 1..Len(log)] /\ Len(s) \in Nat
    BY <2>1, <2>3, LenProperties, ElementOfSeq
  <2>5. s \in Seq(1..Len(log))
    BY <2>4, ToSeq
  <2> QED BY <2>5 DEF s
<1> HIDE DEF backlog
<1>6. /\ pipe \in Seq(1..Len(log)) /\ Len(pipe) = Len(backlog) + Len(Ascending(late))
      /\ \A i \in 1..(Len(backlog) + Len(Ascending(late))) :
           pipe[i] = IF i <= Len(backlog) THEN backlog[i] ELSE Ascending(late)[i - Len(backlog)]
  <2> HIDE DEF late
  <2> QED BY <1>4, <1>5, ConcatProperties
<1> HIDE DEF pipe, late
<1>7. /\ feed' \in T /\ feed'.phase = "live" /\ feed'.worker = feed.worker /\ feed'.last = m
      /\ feed'.pending = {} /\ feed'.pipe = pipe /\ feed'.read = 0
      /\ feed'.bypassed = feed.bypassed
  <2>1. 0 \in 0..Len(log) /\ m \in 0..Len(log) /\ pipe \in Seq(1..Len(log))
    BY <1>0, <1>3, <1>6
  <2>2. feed' = [feed EXCEPT !.phase = "live", !.pending = {}, !.read = 0, !.pipe = pipe, !.last = m]
    BY <1>2
  <2>3. feed \in T
    BY <1>0
  <2> QED BY ONLY <2>1, <2>2, <2>3
<1>8. FeedType'
  BY <1>2, <1>7 DEF FeedInv, FeedType
<1>9. ~stopped' /\ lastSequence' = lastSequence
  BY <1>0, <1>2 DEF FeedInv, SeenInv, NoFeed, lastSequence
<1>10. CASE feed.bypassed
  <2>1. SeenInv'
    BY <1>0, <1>7, <1>9, <1>10 DEF SeenInv
  <2>2. GivenInv'
    BY <1>7, <1>10 DEF GivenInv, Whole
  <2> QED BY <1>8, <2>1, <2>2 DEF FeedInv
<1>11. CASE ~feed.bypassed
  <2>0. Whole
    BY <1>0, <1>11 DEF Whole
  <2>1. late = (read + 1)..m
    <3>1. \A e \in late : e \in (read + 1)..m
      BY <1>0, <1>3 DEF late
    <3>2. ASSUME NEW e \in (read + 1)..m PROVE e \in late
      <4>1. m \in late
        BY <1>0, <1>3, <3>2
      <4>2. m \in Given /\ e \in 1..m
        BY <1>0, <1>3, <3>2, <4>1 DEF Given, late
      <4>3. e \in Given
        BY <1>0, <2>0, <4>2 DEF FeedInv, GivenInv
      <4> QED BY <1>0, <1>3, <3>2, <4>3 DEF Given, late
    <3> QED BY <3>1, <3>2
  <2>2. Ascending(late) = [k \in 1..(m - read) |-> read + k]
    <3>1. read \in Nat /\ m \in Nat /\ read <= m
      BY <1>0, <1>3
    <3> HIDE DEF read
    <3> QED BY <2>1, <3>1, AscendingInterval
  <2>3. Len(Ascending(late)) = m - read /\ \A k \in 1..(m - read) : Ascending(late)[k] = read + k
    <3>1. m - read \in Nat /\ \A k \in 1..(m - read) : read + k \in Nat
      BY <1>0, <1>3
    <3> QED BY <2>2, <3>1, ToSeq
  <2>4. Len(pipe) = m - feed.last
    BY <1>0, <1>3, <1>4, <1>6, <2>3
  <2>5. ASSUME NEW i \in 1..(m - feed.last) PROVE pipe[i] = feed.last + i
    <3>1. CASE i <= Len(backlog)
      BY <1>0, <1>3, <1>4, <1>6, <2>3, <2>4, <3>1
    <3>2. CASE ~(i <= Len(backlog))
      <4>1. i - Len(backlog) \in 1..(m - read) /\ read + (i - Len(backlog)) = feed.last + i
        <5>1. /\ read \in Int /\ feed.last \in Int /\ m \in Int /\ i \in Int /\ i <= m - feed.last
              /\ Len(backlog) = read - feed.last /\ ~(i <= read - feed.last)
          BY <1>0, <1>3, <1>4, <3>2
        <5> HIDE DEF read
        <5> QED BY ONLY <5>1
      <4> QED BY <1>6, <2>3, <2>4, <3>2, <4>1
    <3> QED BY <3>1, <3>2
  <2>6. SeenInv'
    <3>1. feed'.last = lastSequence + Len(feed'.pipe)
      BY <1>0, <1>3, <1>7, <2>4
    <3>2. \A i \in 1..Len(feed'.pipe) : feed'.pipe[i] = lastSequence + i
      BY <1>0, <1>7, <2>4, <2>5
    <3> QED BY <1>0, <1>7, <1>9, <3>1, <3>2 DEF SeenInv
  <2>7. GivenInv'
    <3>1. Given' = 1..m
      BY <1>7 DEF Given
    <3>2. \A i \in Given : i \in 1..m
      BY <1>0, <1>3, <2>1 DEF Given, late
    <3>3. \A k \in 1..m : 1..k \subseteq 1..m
      BY <1>3
    <3>4. \A i \in 1..Len(log) : Awaits(i) => Awaits(i)'
      BY <1>2, <1>7 DEF Awaits
    <3>5. \A i \in 1..Len(log) : outbox[i] # Free => i \in Given \/ Awaits(i)
      BY <2>0 DEF FeedInv, GivenInv
    <3>6. \A i \in 1..Len(log') : outbox'[i] # Free => i \in Given' \/ Awaits(i)'
      BY <1>2, <3>1, <3>2, <3>4, <3>5
    <3> QED BY <3>1, <3>3, <3>6 DEF GivenInv
  <2> QED BY <1>8, <2>6, <2>7 DEF FeedInv
<1> QED BY <1>10, <1>11

-----------------------------------------------------------------------------
\* The inductive invariant of the path of the events.
EventsInv == RowsInv /\ ClaimsInv /\ FeedInv

LEMMA EventsInitInv ==
  ASSUME EventsInit PROVE EventsInv
<1> USE DEF EventsInit
<1>1. RowsInv
  BY DEF RowsInv
<1>2. ClaimsInv
  BY DEF ClaimsInv, Idle
<1>3. FeedType
  <2>1. seen \in Seq(1..Len(log)) /\ stopped \in BOOLEAN /\ feed = NoFeed
    BY EmptySeq
  <2> QED BY <1>1, <2>1, NoFeedType DEF FeedType
<1>4. SeenInv /\ GivenInv
  BY DEF SeenInv, GivenInv, Whole, NoFeed
<1> QED BY <1>1, <1>2, <1>3, <1>4 DEF EventsInv, FeedInv

LEMMA EventsNextInv ==
  ASSUME EventsInv, [EventsNext]_eventsVars
  PROVE  EventsInv'
<1> USE DEF EventsInv
<1>1. RowsInv' /\ ClaimsInv'
  BY NextRows, NextClaims
<1>2. ASSUME UNCHANGED eventsVars PROVE FeedInv'
  BY <1>2 DEF eventsVars, feedVars, FeedInv, FeedType, SeenInv, GivenInv, Given, Whole, Awaits,
              lastSequence
<1>3. ASSUME publish PROVE FeedInv'
  BY <1>3, PublishFeed
<1>4. ASSUME NEW w \in Processes,
             claim(w) \/ claimLost(w) \/ ack(w) \/ ackFails(w) \/ lapse(w) \/ expire(w)
      PROVE  FeedInv'
  BY <1>4, ClaimFeed, RowsFeed
<1>5. ASSUME NEW w \in Processes, deliver(w) \/ restart(w) \/ handle(w) PROVE FeedInv'
  BY <1>5, DeliverFeed, LostFeed, HandleFeed
<1>6. ASSUME readBacklog \/ sendBacklog \/ followRunEventStream PROVE FeedInv'
  BY <1>6, ReadFeed, BacklogFeed, FollowFeed
<1>7. ASSUME disconnect PROVE FeedInv'
  BY <1>7, FeedEnds DEF disconnect
<1>8. FeedInv'
  <2>1. CASE EventsNext
    BY <1>3, <1>4, <1>5, <1>6, <1>7, <2>1 DEF EventsNext, dispatchOnce, follow
  <2> QED BY <1>2, <2>1
<1> QED BY <1>1, <1>8

LEMMA EventsInvImplies ==
  ASSUME EventsInv PROVE EventsTypeOK /\ DeliveredMeansGiven
<1> USE DEF EventsInv
<1>0. Len(log) \in Nat /\ DOMAIN log = 1..Len(log) /\ DOMAIN outbox = 1..Len(log)
  BY LengthType, LenProperties DEF RowsInv
<1>1. \A i \in 1..Len(log) : outbox[i] \in RowType
  BY <1>0, ElementOfSeq DEF RowsInv
<1>2. /\ feed.pending \subseteq 1..Len(log)
      /\ Range(feed.pipe) \subseteq 1..Len(log) /\ Range(seen) \subseteq 1..Len(log)
  <2>1. /\ feed.pipe \in Seq(1..Len(log)) /\ seen \in Seq(1..Len(log))
        /\ feed.pending \subseteq 1..Len(log)
    BY DEF FeedInv, FeedType
  <2>2. \A s \in Seq(1..Len(log)) : Range(s) \subseteq 1..Len(log)
    BY LenProperties, ElementOfSeq DEF Range
  <2> QED BY <2>1, <2>2
<1>3. EventsTypeOK
  <2>1. \A w \in Processes : /\ dispatch[w].claimed \subseteq DOMAIN log
                             /\ dispatch[w].left \subseteq dispatch[w].claimed
    BY <1>0 DEF ClaimsInv
  <2>2. /\ feed.phase \in {"none", "subscribed", "read", "live"}
        /\ stopped \in BOOLEAN /\ feed.bypassed \in BOOLEAN
        /\ feed.worker \in Processes \cup {Nobody}
    BY DEF FeedInv, FeedType
  <2>3. log \in Seq({"event", "finished"})
    BY DEF RowsInv
  <2> QED BY <1>0, <1>1, <1>2, <2>1, <2>2, <2>3 DEF EventsTypeOK, RowType
<1>4. DeliveredMeansGiven
  <2> SUFFICES ASSUME feed.phase = "live", ~feed.bypassed,
                      NEW i \in 1..Len(log), outbox[i].delivered
               PROVE  i <= feed.last
    BY <1>0 DEF DeliveredMeansGiven
  <2>1. outbox[i] # Free /\ Whole /\ ~Awaits(i)
    BY FreeRow DEF Whole, Awaits
  <2>2. i \in Given
    BY <2>1 DEF FeedInv, GivenInv
  <2> QED BY <1>0, <2>2 DEF Given, FeedInv, FeedType
<1> QED BY <1>3, <1>4

\* For any number of Workers: the types, and a row is marked delivered only after the
\* live response was given its event, unless the response was bypassed (claims of other
\* Workers, claims whose answer is lost).
THEOREM EventsTypeCorrect == EventsSpec => [](EventsTypeOK /\ DeliveredMeansGiven)
<1>1. EventsInit => EventsInv
  BY EventsInitInv
<1>2. EventsInv /\ [EventsNext]_eventsVars => EventsInv'
  BY EventsNextInv
<1>3. EventsInv => EventsTypeOK /\ DeliveredMeansGiven
  BY EventsInvImplies
<1> QED BY <1>1, <1>2, <1>3, PTL DEF EventsSpec

-----------------------------------------------------------------------------
(* Every step appends events, gives the follower the next one, bypasses or  *)
(* ends its response, or is none of its business.                           *)
LEMMA PublishAppends ==
  ASSUME RowsInv, publish
  PROVE  Feed!append
<1>1. /\ log' \in Seq({"event", "finished"}) /\ log \in Seq({"event", "finished"})
      /\ Len(log') > Len(log) /\ \A i \in 1..Len(log) : log'[i] = log[i]
  BY PublishStep DEF RowsInv
<1>2. Len(log) \in Nat /\ Len(log') \in Nat
  BY <1>1, LenProperties
<1>3. \A i \in 1..Len(log) : log'[i] \in {"event", "finished"}
  BY <1>1, ElementOfSeq
<1>4. /\ SubSeq(log', 1, Len(log)) \in Seq({"event", "finished"})
      /\ Len(SubSeq(log', 1, Len(log))) = Len(log)
      /\ \A i \in 1..Len(log) : SubSeq(log', 1, Len(log))[i] = log'[i]
  <2>1. /\ SubSeq(log', 1, Len(log)) \in Seq({"event", "finished"})
        /\ Len(SubSeq(log', 1, Len(log))) = IF 1 <= Len(log) THEN Len(log) - 1 + 1 ELSE 0
        /\ \A i \in 1..(Len(log) - 1 + 1) : SubSeq(log', 1, Len(log))[i] = log'[1 + i - 1]
    BY <1>2, <1>3, SubSeqProperties
  <2>2. Len(log) - 1 + 1 = Len(log) /\ \A i \in 1..Len(log) : 1 + i - 1 = i
    BY <1>2
  <2>3. Len(SubSeq(log', 1, Len(log))) = Len(log)
    BY <1>2, <2>1
  <2> QED BY <2>1, <2>2, <2>3
<1>5. SubSeq(log', 1, Len(log)) = log
  BY <1>1, <1>4, SeqEqual
<1>6. seen' = seen /\ stopped' = stopped /\ feed' = feed
  BY DEF publish, feedVars
<1> QED BY <1>1, <1>5, <1>6 DEF Feed!append

LEMMA StepsAreFeedSteps ==
  ASSUME EventsInv, [EventsNext]_eventsVars
  PROVE  [Feed!FeedNext]_(Feed!feedVars)
<1> USE DEF EventsInv
<1> DEFINE Calm == /\ UNCHANGED <<log, seen, stopped>>
                   /\ feed'.bypassed \in {feed.bypassed, TRUE, FALSE}
<1>0. feed \in Response /\ feed.bypassed \in BOOLEAN
  BY DEF FeedInv, FeedType
<1>1. CASE publish
  BY <1>1, PublishAppends DEF Feed!FeedNext
<1>2. ASSUME followRunEventStream, nextFrame > lastSequence PROVE Feed!FeedNext
  <2>1. /\ ~stopped /\ nextFrame \in 1..Len(log)
        /\ ~feed.bypassed => nextFrame = lastSequence + 1
        /\ seen' = Append(seen, nextFrame) /\ stopped' \in BOOLEAN
        /\ feed' = IF stopped' THEN NoFeed ELSE [feed EXCEPT !.pipe = Tail(feed.pipe)]
        /\ log' = log
    BY <1>2, TakesFrame
  <2>2. lastSequence = Feed!position /\ lastSequence \in Nat /\ Len(log) \in Nat
    BY LastSeen, LengthType DEF FeedInv, lastSequence, Feed!position, Last
  <2>3. nextFrame \in (Feed!position + 1)..Len(log)
    BY <1>2, <2>1, <2>2
  <2>4. feed'.bypassed \in {feed.bypassed, FALSE}
    BY <1>0, <2>1 DEF NoFeed
  <2> QED BY <2>1, <2>2, <2>3, <2>4 DEF Feed!accept, Feed!FeedNext
<1>3. ASSUME followRunEventStream, ~(nextFrame > lastSequence) PROVE Calm
  <2>1. nextFrame <= lastSequence
    BY <1>3, LastSeen, LengthType, PipeParts DEF followRunEventStream, FeedInv
  <2> QED BY <1>0, <1>3, <2>1 DEF followRunEventStream
<1>4. ASSUME NEW w \in Processes, claim(w) \/ claimLost(w) PROVE Calm
  <2>1. feed' \in {feed, [feed EXCEPT !.bypassed = TRUE]}
    BY <1>4 DEF claim, claimLost, bypass
  <2> QED BY <1>0, <1>4, <2>1, ClaimStep
<1>5. ASSUME NEW w \in Processes, deliver(w) PROVE Calm
  <2>1. feed'.bypassed = feed.bypassed
    BY <1>0, <1>5 DEF deliver, sendLive
  <2> QED BY <1>5, <2>1 DEF deliver
<1>6. ASSUME NEW w \in Processes, \/ ack(w) \/ ackFails(w) \/ lapse(w) \/ expire(w) \/ restart(w)
                                  \/ handle(w)
      PROVE  Calm
  <2>1. CASE ack(w) \/ ackFails(w) \/ lapse(w) \/ expire(w)
    BY <1>0, <2>1 DEF ack, ackFails, lapse, expire, feedVars
  <2>2. CASE restart(w) \/ handle(w)
    <3>1. feed' = feed \/ feed'.bypassed = FALSE
      <4>1. CASE restart(w)
        <5>1. feed' = feed \/ feed' = NoFeed
          BY <4>1 DEF restart
        <5> QED BY <5>1 DEF NoFeed
      <4>2. CASE handle(w)
        <5>1. feed' = [NoFeed EXCEPT !.phase = "subscribed", !.worker = w, !.last = lastSequence]
          BY <4>2 DEF handle
        <5> HIDE DEF lastSequence
        <5> QED BY <5>1 DEF NoFeed
      <4> QED BY <2>2, <4>1, <4>2
    <3> QED BY <1>0, <2>2, <3>1 DEF restart, handle
  <2> QED BY <1>6, <2>1, <2>2
<1>7. ASSUME readBacklog \/ sendBacklog \/ disconnect \/ UNCHANGED eventsVars
      PROVE  Calm
  <2>1. feed'.bypassed = feed.bypassed \/ feed'.bypassed = FALSE
    <3>1. CASE readBacklog
      BY <1>0, <3>1 DEF readBacklog
    <3>2. CASE sendBacklog
      <4>1. \E pipe, last : feed' = [feed EXCEPT !.phase = "live", !.pending = {}, !.read = 0,
                                                !.pipe = pipe, !.last = last]
        BY <3>2 DEF sendBacklog
      <4> QED BY <1>0, <4>1
    <3>3. CASE disconnect \/ UNCHANGED eventsVars
      BY <3>3 DEF disconnect, eventsVars, feedVars, NoFeed
    <3> QED BY <1>7, <3>1, <3>2, <3>3
  <2>2. UNCHANGED <<log, seen, stopped>>
    BY <1>7 DEF readBacklog, sendBacklog, disconnect, eventsVars, feedVars
  <2> QED BY <1>0, <2>1, <2>2
<1>8. ASSUME Calm PROVE [Feed!FeedNext]_(Feed!feedVars)
  BY <1>8 DEF Feed!FeedNext, Feed!feedVars, Feed!bypass, Feed!reconnect
<1> HIDE DEF Calm
<1>9. CASE EventsNext
  BY <1>1, <1>2, <1>3, <1>4, <1>5, <1>6, <1>7, <1>8, <1>9 DEF EventsNext, dispatchOnce, follow
<1> QED BY <1>7, <1>8, <1>9

\* For any number of Workers, claims, redelivery, lapsed leases, lost answers, restarts
\* and reconnections give the follower events in order and none twice, and skip none
\* unless rows behind what its response has sent went to another Worker or to a claim
\* whose answer was lost: RunEvents implements EventFeed.
THEOREM StreamImplementsFeed == EventsSpec => ImplementsFeed
<1>1. EventsInit => EventsInv /\ Feed!FeedInit
  <2>1. NoFeed.bypassed = FALSE
    BY DEF NoFeed
  <2>2. ASSUME EventsInit PROVE Feed!FeedInit
    <3>1. feed = NoFeed /\ log = <<>> /\ seen = <<>> /\ stopped = FALSE
      BY <2>2 DEF EventsInit
    <3>2. feed.bypassed = FALSE
      BY <2>1, <3>1
    <3> QED BY <3>1, <3>2, Zenon DEF Feed!FeedInit
  <2> QED BY <2>2, EventsInitInv
<1>2. EventsInv /\ [EventsNext]_eventsVars => EventsInv'
  BY EventsNextInv
<1>3. EventsInv /\ [EventsNext]_eventsVars => [Feed!FeedNext]_(Feed!feedVars)
  BY StepsAreFeedSteps
<1> QED BY <1>1, <1>2, <1>3, PTL DEF EventsSpec, ImplementsFeed, Feed!FeedSpec

-----------------------------------------------------------------------------
(***************************************************************************)
(* The screen (RunConsole).                                                *)
(***************************************************************************)

(* Values of the controller's state.                                        *)
NoRun == Runs \cup {None}
Scopes == Projects \cup {None}
Flags == {"creating", "approval", "input", "resolving", "artifact", "binding"}
Said == {"idle", "connecting", "live", "reconnecting", "closed", "failed"}
Operation == [kind: Kinds, run: NoRun, project: Scopes, step: Steps]

(* The view is of the selected Run, the approval edited is the one it       *)
(* shows, and what was shown of a Run the server has reached.               *)
ViewInv ==
    /\ selected \in NoRun
    /\ view \in [run: NoRun, version: 0..Final] /\ view.run \in {None, selected}
    /\ view.run = None => view.version = 0
    /\ view.run # None => view.version > 0
    /\ draft \in [of: NoRun, edited: BOOLEAN]
    /\ draft.edited => draft.of # None
    /\ draft.of # None => view.run = draft.of /\ waitsApproval(view.run, view.version)

(* Events, changes and artifacts shown are of the selected Run.             *)
TimelineInv ==
    /\ timeline \in Seq([run: Runs, event: 1..Final])
    /\ \A i \in DOMAIN timeline : timeline[i].run = selected

ShownInv == shown \in [changes: {None, selected}, artifact: {None, selected}]

(* History and rules are those of the selected project.                     *)
ScopeInv ==
    /\ project \in Scopes /\ {history, rules} \subseteq {None, project}
    /\ phase \in {"ready", "loading", "needs_auth", "offline"}

(* One inspection of a Run is under way at a time; what it has read is      *)
(* there, and is not older than what is shown.                              *)
InspectionInv ==
    /\ version \in [Runs -> 0..Final]
    /\ inspecting \in [Runs -> SUBSET (0..Final)]
    /\ \A r \in Runs : \A v, w \in inspecting[r] : v = w
    /\ \A r \in Runs : \A v \in inspecting[r] : v <= version[r]

Fresh(r) ==
    /\ view.version <= version[r]
    /\ \A v \in inspecting[r] : v # Asked => view.version <= v

FreshInv == view.run # None => Fresh(view.run)

-----------------------------------------------------------------------------
(* What a step does to the view: nothing, it is emptied for a selection,    *)
(* an answer for the selected Run is applied, or the user edits.            *)
Applies(r, v) ==
    /\ selected = r /\ applyRunView(r, v)
    /\ UNCHANGED <<version, selected>>
    /\ inspecting' = [inspecting EXCEPT ![r] = @ \ {v}]

LEMMA ViewStep ==
  ASSUME [ConsoleNext]_consoleVars
  PROVE  \/ UNCHANGED <<selected, view, draft>>
         \/ \E r \in NoRun : select(r)
         \/ \E r \in Runs : \E v \in inspecting[r] \ {Asked} : Applies(r, v)
         \/ setApprovalDraft
<1> DEFINE Same == UNCHANGED <<selected, view, draft>>
           Selects == \E r \in NoRun : select(r)
<1>1. ASSUME NEW i \in Ops,
             \/ createRun(i) \/ commandRun(i) \/ resolveCurrentResult(i) \/ loadArtifact(i)
             \/ refreshPolicyRules(i) \/ bindDevice(i) \/ createDeviceCode(i) \/ logout(i)
      PROVE  Same
  BY <1>1 DEF createRun, commandRun, resolveCurrentResult, loadArtifact, refreshPolicyRules,
              bindDevice, createDeviceCode, logout, screen
<1>2. ASSUME NEW i \in Ops, selectRun(i) \/ selectProject(i) PROVE Selects
  BY <1>2 DEF selectRun, selectProject, NoRun
<1>3. ASSUME NEW i \in Ops,
             \/ commanded(i) \/ resolved(i) \/ artifactLoaded(i) \/ changesLoaded(i)
             \/ rulesListed(i) \/ ruleRevoked(i) \/ codeIssued(i) \/ deviceBound(i) \/ fails(i)
      PROVE  Same
  BY <1>3 DEF commanded, resolved, artifactLoaded, changesLoaded, rulesListed, ruleRevoked,
              codeIssued, deviceBound, fails, screen
<1>4. ASSUME NEW i \in Ops, created(i) \/ listed(i) \/ loggedOut(i) \/ configured(i)
      PROVE  Same \/ Selects
  BY <1>4 DEF created, creatable, listed, listRuns, loggedOut, configured, applyUnauthenticated,
              NoRun
<1>5. ASSUME NEW r \in Runs,
             serve(r) \/ inspectFails(r) \/ backgroundChanges(r) \/ proceed(r)
      PROVE  Same
  BY <1>5 DEF serve, inspectFails, backgroundChanges, proceed, screen
<1>6. ASSUME NEW r \in Runs, inspected(r)
      PROVE  Same \/ \E v \in inspecting[r] \ {Asked} : Applies(r, v)
  BY <1>6 DEF inspected, Applies
<1>7. CASE onEvent \/ onReconnect \/ UNCHANGED consoleVars
  BY <1>7 DEF onEvent, onReconnect, consoleVars, screen
<1> HIDE DEF Same, Selects
<1>8. ASSUME NEW i \in Ops, click(i) \/ answered(i) \/ fails(i) PROVE Same \/ Selects
  BY <1>1, <1>2, <1>3, <1>4, <1>8 DEF click, answered
<1>9. CASE ConsoleNext
  BY <1>5, <1>6, <1>7, <1>8, <1>9 DEF ConsoleNext, Same, Selects
<1> QED BY <1>7, <1>9
(* An applied answer keeps an edited draft of the same approval.            *)
LEMMA AppliedView ==
  ASSUME ViewInv, NEW r \in Runs, NEW v \in 1..Final, Applies(r, v)
  PROVE  /\ ViewInv'
         /\ view'.run = r /\ view'.version = v
         /\ draft.edited /\ view'.run = view.run /\ waitsApproval(r, v) => draft' = draft
<1> DEFINE approval == IF waitsApproval(r, v) THEN r ELSE None
<1>1. selected = r /\ selected' = r /\ view' = [run |-> r, version |-> v]
  BY DEF Applies, applyRunView
<1>2. draft' = IF draft.of = approval THEN draft ELSE [of |-> approval, edited |-> FALSE]
  BY DEF Applies, applyRunView, draftOf
<1>3. r # None /\ approval \in NoRun
  BY RunConsoleAssumption DEF NoRun
<1>4. draft' \in [of: NoRun, edited: BOOLEAN] /\ draft'.of = approval
  BY <1>2, <1>3 DEF ViewInv
<1>5. draft'.edited => draft'.of # None
  BY <1>2 DEF ViewInv
<1>6. draft'.of # None => view'.run = draft'.of /\ waitsApproval(view'.run, view'.version)
  BY <1>1, <1>4
<1>7. view' \in [run: NoRun, version: 0..Final]
  BY <1>1 DEF NoRun
<1>8. draft.edited /\ view.run = r /\ waitsApproval(r, v) => draft' = draft
  BY <1>2 DEF ViewInv
<1> QED BY <1>1, <1>3, <1>4, <1>5, <1>6, <1>7, <1>8, RunConsoleAssumption DEF ViewInv, NoRun

(* A selection empties the view.                                            *)
LEMMA SelectedView ==
  ASSUME NEW r \in NoRun, select(r)
  PROVE  ViewInv' /\ view' = NoView
<1>1. Final \in Nat
  BY RunConsoleAssumption
<1> QED BY <1>1 DEF select, NoView, NoDraft, ViewInv, NoRun

(* Every step keeps the view that of the selected Run.                      *)
LEMMA NextView ==
  ASSUME ViewInv, InspectionInv, [ConsoleNext]_consoleVars
  PROVE  ViewInv'
<1>1. CASE UNCHANGED <<selected, view, draft>>
  BY <1>1 DEF ViewInv
<1>2. ASSUME NEW r \in NoRun, select(r) PROVE ViewInv'
  BY <1>2, SelectedView
<1>3. ASSUME NEW r \in Runs, NEW v \in inspecting[r] \ {Asked}, Applies(r, v) PROVE ViewInv'
  <2>1. v \in 1..Final
    BY RunConsoleAssumption DEF InspectionInv, Asked
  <2> QED BY <1>3, <2>1, AppliedView
<1>4. CASE setApprovalDraft
  <2>1. view.run \in Runs
    BY <1>4 DEF setApprovalDraft, ViewInv, NoView, NoRun
  <2> QED BY <1>4, <2>1, RunConsoleAssumption DEF setApprovalDraft, ViewInv, NoRun
<1> QED BY <1>1, <1>2, <1>3, <1>4, ViewStep

-----------------------------------------------------------------------------
(* What a step does to the events shown.                                    *)
LEMMA TimelineStep ==
  ASSUME [ConsoleNext]_consoleVars
  PROVE  \/ UNCHANGED <<selected, timeline>>
         \/ \E r \in NoRun : select(r)
         \/ onEvent
<1> DEFINE Same == UNCHANGED <<selected, timeline>>
           Selects == \E r \in NoRun : select(r)
<1>1. ASSUME NEW i \in Ops,
             \/ createRun(i) \/ commandRun(i) \/ resolveCurrentResult(i) \/ loadArtifact(i)
             \/ refreshPolicyRules(i) \/ bindDevice(i) \/ createDeviceCode(i) \/ logout(i)
      PROVE  Same
  BY <1>1 DEF createRun, commandRun, resolveCurrentResult, loadArtifact, refreshPolicyRules,
              bindDevice, createDeviceCode, logout, screen
<1>2. ASSUME NEW i \in Ops, selectRun(i) \/ selectProject(i) PROVE Selects
  BY <1>2 DEF selectRun, selectProject, NoRun
<1>3. ASSUME NEW i \in Ops,
             \/ commanded(i) \/ resolved(i) \/ artifactLoaded(i) \/ changesLoaded(i)
             \/ rulesListed(i) \/ ruleRevoked(i) \/ codeIssued(i) \/ deviceBound(i) \/ fails(i)
      PROVE  Same
  BY <1>3 DEF commanded, resolved, artifactLoaded, changesLoaded, rulesListed, ruleRevoked,
              codeIssued, deviceBound, fails, screen
<1>4. ASSUME NEW i \in Ops, created(i) \/ listed(i) \/ loggedOut(i) \/ configured(i)
      PROVE  Same \/ Selects
  BY <1>4 DEF created, creatable, listed, listRuns, loggedOut, configured, applyUnauthenticated,
              NoRun
<1>5. ASSUME NEW r \in Runs,
             serve(r) \/ inspected(r) \/ inspectFails(r) \/ backgroundChanges(r) \/ proceed(r)
      PROVE  Same
  BY <1>5 DEF serve, inspected, inspectFails, backgroundChanges, proceed, screen
<1>6. CASE onReconnect \/ setApprovalDraft \/ UNCHANGED consoleVars
  BY <1>6 DEF onReconnect, setApprovalDraft, consoleVars, screen
<1> HIDE DEF Same, Selects
<1>7. ASSUME NEW i \in Ops, click(i) \/ answered(i) \/ fails(i) PROVE Same \/ Selects
  BY <1>1, <1>2, <1>3, <1>4, <1>7 DEF click, answered
<1>8. CASE ConsoleNext
  BY <1>5, <1>6, <1>7, <1>8 DEF ConsoleNext, Same, Selects
<1> QED BY <1>6, <1>8 DEF Same

(* The events shown are those of the selected Run.                          *)
LEMMA NextTimeline ==
  ASSUME TimelineInv, InspectionInv,
         follower \in [run: NoRun, last: 0..Final, waits: {"no", "event", "refresh"}],
         [ConsoleNext]_consoleVars
  PROVE  TimelineInv'
<1>1. CASE UNCHANGED <<selected, timeline>>
  BY <1>1 DEF TimelineInv
<1>2. ASSUME NEW r \in NoRun, select(r) PROVE TimelineInv'
  BY <1>2 DEF select, TimelineInv
<1>3. CASE onEvent
  <2>1. CASE UNCHANGED timeline
    BY <1>3, <2>1 DEF onEvent, TimelineInv
  <2> DEFINE event == [run |-> follower.run, event |-> follower.last + 1]
  <2>2. CASE selected = follower.run /\ timeline' = Append(timeline, event)
    <3>1. follower.run \in Runs
      BY <1>3 DEF onEvent, NoRun
    <3>2. follower.last + 1 \in 1..Final
      BY <1>3, <3>1, RunConsoleAssumption DEF onEvent, InspectionInv
    <3>3. event \in [run: Runs, event: 1..Final] /\ event.run = selected
      BY <2>2, <3>1, <3>2
    <3> HIDE DEF event
    <3>4. timeline' \in Seq([run: Runs, event: 1..Final])
      BY <2>2, <3>3 DEF TimelineInv
    <3>5. \A i \in DOMAIN timeline' :
            timeline'[i] = IF i \in DOMAIN timeline THEN timeline[i] ELSE event
      BY <2>2, <3>3, AppendProperties DEF TimelineInv
    <3>6. selected' = selected
      BY <1>3 DEF onEvent
    <3> QED BY <3>3, <3>4, <3>5, <3>6 DEF TimelineInv
  <2> QED BY <1>3, <2>1, <2>2 DEF onEvent
<1> QED BY <1>1, <1>2, <1>3, TimelineStep

-----------------------------------------------------------------------------
(* The work under way: operations, the follower, the stream, the flags.     *)
Commands == {"cancel", "approval", "input", "resolve"}

OpType == op \in [Ops -> {NotStarted, Done} \cup Operation]

OpsInv ==
    /\ OpType
    /\ \A i \in Ops : op[i].kind \in Commands /\ op[i].step = "post" =>
           op[i].run \in Runs /\ (op[i].kind = "approval" => Final > 1)

WorkInv ==
    /\ follower \in [run: NoRun, last: 0..Final, waits: {"no", "event", "refresh"}]
    /\ stream \in [phase: Said, run: NoRun]
    /\ pending \subseteq Flags /\ loads \subseteq Runs /\ discarded \subseteq Runs

(* An operation goes on to its next step with the same kind and Run.        *)
LEMMA GoesToType ==
  ASSUME project \in Scopes, NEW o \in Operation, NEW step \in Steps \cup {"done"}
  PROVE  /\ goesTo(o, step) \in {Done} \cup Operation
         /\ goesTo(o, step).step = step
BY DEF goesTo, Operation, Done, NotStarted, NoRun, Scopes

LEMMA SelectionEndsType ==
  ASSUME project \in Scopes, NEW o \in Operation
  PROVE  /\ selectionEnds(o) \in {Done} \cup Operation
         /\ selectionEnds(o).step # "post"
BY GoesToType DEF selectionEnds, Steps

(* An operation that waits for something is under way.                      *)
LEMMA UnderWay ==
  ASSUME OpType, NEW i \in Ops, op[i].step \in Steps
  PROVE  op[i] \in Operation
BY DEF OpType, Steps, NotStarted, Done

(* What a step does to an operation: nothing, it goes on to a step that     *)
(* posts nothing, or the user starts it, a command for the Run on view.     *)
StartedFor(o) ==
    o.kind \in Commands =>
        /\ view # NoView /\ o.run = view.run
        /\ o.kind = "approval" =>
               waitsApproval(view.run, view.version) /\ ~terminal(view.version)

OpStep(i) == op'[i] = op[i] \/ op'[i].step # "post" \/ StartedFor(op'[i])

LEMMA Started ==
  ASSUME OpType, NEW i \in Ops, NEW o \in Operation, start(i, o), StartedFor(o)
  PROVE  op' = [op EXCEPT ![i] = op'[i]] /\ op'[i] \in Operation /\ StartedFor(op'[i])
<1>1. op' = [op EXCEPT ![i] = o] /\ op'[i] = o
  BY DEF start, OpType
<1> QED BY <1>1

LEMMA NextOps ==
  ASSUME OpType, ScopeInv, selected \in NoRun, view.run \in NoRun, [ConsoleNext]_consoleVars
  PROVE  OpType' /\ \A i \in Ops : OpStep(i)
<1> DEFINE Typed == OpType' /\ \A j \in Ops : OpStep(j)
<1> USE DEF OpType
<1>0. project \in Scopes
  BY DEF ScopeInv
<1>1. ASSUME NEW i \in Ops, click(i) PROVE Typed
  <2>1. op' = [op EXCEPT ![i] = op'[i]] /\ op'[i] \in Operation /\ StartedFor(op'[i])
    <3>1. CASE selectRun(i)
      <4>1. PICK r \in Runs : start(i, [NotStarted EXCEPT !.kind = "select", !.run = r, !.step = "inspect"])
        BY <3>1 DEF selectRun
      <4> DEFINE o == [NotStarted EXCEPT !.kind = "select", !.run = r, !.step = "inspect"]
      <4>2. o \in Operation
        BY <1>0 DEF NotStarted, Operation, Kinds, Steps, NoRun, Scopes
      <4>3. start(i, o) /\ StartedFor(o)
        BY <4>1 DEF StartedFor, NotStarted, Commands
      <4> HIDE DEF o
      <4> QED BY <4>2, <4>3, Started
    <3>2. CASE createRun(i)
      <4> DEFINE o == [NotStarted EXCEPT !.kind = "create", !.project = project, !.step = "post"]
      <4>2. o \in Operation
        BY <1>0 DEF NotStarted, Operation, Kinds, Steps, NoRun, Scopes
      <4>3. start(i, o) /\ StartedFor(o)
        BY <3>2 DEF createRun, StartedFor, NotStarted, Commands
      <4> HIDE DEF o
      <4> QED BY <4>2, <4>3, Started
    <3>3. CASE commandRun(i)
      <4>1. PICK kind \in {"cancel", "approval", "input"} : start(i, [NotStarted EXCEPT !.kind = kind, !.run = view.run, !.step = "post"]) /\ view # NoView /\
                 (kind = "approval" => waitsApproval(view.run, view.version)
                                       /\ ~terminal(view.version))
        BY <3>3 DEF commandRun
      <4> DEFINE o == [NotStarted EXCEPT !.kind = kind, !.run = view.run, !.step = "post"]
      <4>2. o \in Operation
        BY <1>0 DEF NotStarted, Operation, Kinds, Steps, NoRun, Scopes
      <4>3. start(i, o) /\ StartedFor(o)
        BY <4>1 DEF StartedFor, NotStarted, Commands
      <4> HIDE DEF o
      <4> QED BY <4>2, <4>3, Started
    <3>4. CASE resolveCurrentResult(i)
      <4> DEFINE o == [NotStarted EXCEPT !.kind = "resolve", !.run = view.run, !.step = "post"]
      <4>2. o \in Operation
        BY <1>0 DEF NotStarted, Operation, Kinds, Steps, NoRun, Scopes
      <4>3. start(i, o) /\ StartedFor(o)
        BY <3>4 DEF resolveCurrentResult, StartedFor, NotStarted, Commands
      <4> HIDE DEF o
      <4> QED BY <4>2, <4>3, Started
    <3>5. CASE loadArtifact(i)
      <4> DEFINE o == [NotStarted EXCEPT !.kind = "artifact", !.run = view.run, !.step = "post"]
      <4>2. o \in Operation
        BY <1>0 DEF NotStarted, Operation, Kinds, Steps, NoRun, Scopes
      <4>3. start(i, o) /\ StartedFor(o)
        BY <3>5 DEF loadArtifact, StartedFor, NotStarted, Commands
      <4> HIDE DEF o
      <4> QED BY <4>2, <4>3, Started
    <3>6. CASE selectProject(i)
      <4>1. PICK p \in Projects : start(i, [NotStarted EXCEPT !.kind = "history", !.project = p, !.step = "list"])
        BY <3>6 DEF selectProject
      <4> DEFINE o == [NotStarted EXCEPT !.kind = "history", !.project = p, !.step = "list"]
      <4>2. o \in Operation
        BY <1>0 DEF NotStarted, Operation, Kinds, Steps, NoRun, Scopes
      <4>3. start(i, o) /\ StartedFor(o)
        BY <4>1 DEF StartedFor, NotStarted, Commands
      <4> HIDE DEF o
      <4> QED BY <4>2, <4>3, Started
    <3>7. CASE refreshPolicyRules(i)
      <4>1. PICK step \in {"post", "rules"} : start(i, [NotStarted EXCEPT !.kind = "rules", !.project = project, !.step = step])
        BY <3>7 DEF refreshPolicyRules
      <4> DEFINE o == [NotStarted EXCEPT !.kind = "rules", !.project = project, !.step = step]
      <4>2. o \in Operation
        BY <1>0 DEF NotStarted, Operation, Kinds, Steps, NoRun, Scopes
      <4>3. start(i, o) /\ StartedFor(o)
        BY <4>1 DEF StartedFor, NotStarted, Commands
      <4> HIDE DEF o
      <4> QED BY <4>2, <4>3, Started
    <3>8. CASE bindDevice(i)
      <4> DEFINE o == [NotStarted EXCEPT !.kind = "bind", !.step = "post"]
      <4>2. o \in Operation
        BY <1>0 DEF NotStarted, Operation, Kinds, Steps, NoRun, Scopes
      <4>3. start(i, o) /\ StartedFor(o)
        BY <3>8 DEF bindDevice, StartedFor, NotStarted, Commands
      <4> HIDE DEF o
      <4> QED BY <4>2, <4>3, Started
    <3>9. CASE createDeviceCode(i)
      <4> DEFINE o == [NotStarted EXCEPT !.kind = "code", !.project = project, !.step = "post"]
      <4>2. o \in Operation
        BY <1>0 DEF NotStarted, Operation, Kinds, Steps, NoRun, Scopes
      <4>3. start(i, o) /\ StartedFor(o)
        BY <3>9 DEF createDeviceCode, StartedFor, NotStarted, Commands
      <4> HIDE DEF o
      <4> QED BY <4>2, <4>3, Started
    <3>10. CASE logout(i)
      <4> DEFINE o == [NotStarted EXCEPT !.kind = "logout", !.step = "post"]
      <4>2. o \in Operation
        BY <1>0 DEF NotStarted, Operation, Kinds, Steps, NoRun, Scopes
      <4>3. start(i, o) /\ StartedFor(o)
        BY <3>10 DEF logout, StartedFor, NotStarted, Commands
      <4> HIDE DEF o
      <4> QED BY <4>2, <4>3, Started
    <3> QED BY <1>1, <3>1, <3>2, <3>3, <3>4, <3>5, <3>6, <3>7, <3>8, <3>9, <3>10 DEF click
  <2> QED BY <2>1 DEF OpStep
<1>2. ASSUME NEW i \in Ops, answered(i) \/ fails(i) PROVE Typed
  <2>1. /\ op' = [op EXCEPT ![i] = op'[i]]
        /\ op'[i] \in {Done} \cup Operation /\ op'[i].step # "post"
    <3>1. CASE commanded(i) \/ resolved(i) \/ artifactLoaded(i) \/ rulesListed(i)
               \/ ruleRevoked(i) \/ codeIssued(i) \/ deviceBound(i) \/ loggedOut(i)
      <4>1. op[i].step \in Steps
        BY <3>1 DEF commanded, resolved, artifactLoaded, rulesListed, ruleRevoked, codeIssued,
                    deviceBound, loggedOut, Steps
      <4>2. \E step \in {"inspect", "done", "rules", "config"} : becomes(i, step)
        BY <3>1 DEF commanded, resolved, artifactLoaded, rulesListed, ruleRevoked, codeIssued,
                    deviceBound, loggedOut
      <4> QED BY <4>1, <4>2, <1>0, GoesToType, UnderWay DEF becomes, Steps
    <3>2. CASE changesLoaded(i)
      BY <3>2, <1>0, SelectionEndsType, UnderWay DEF changesLoaded, Steps
    <3>3. CASE created(i)
      <4>1. op[i] \in Operation
        BY <3>3, UnderWay DEF created, Steps
      <4>2. PICK r \in Runs : op' = [op EXCEPT ![i].run = r, ![i].step = "inspect"]
        BY <3>3 DEF created, creatable
      <4>3. op' = [op EXCEPT ![i] = [op[i] EXCEPT !.run = r, !.step = "inspect"]]
        BY <4>1, <4>2 DEF Operation
      <4>4. [op[i] EXCEPT !.run = r, !.step = "inspect"] \in Operation
        BY <4>1 DEF Operation, NoRun, Steps
      <4> QED BY <4>3, <4>4
    <3>4. CASE listed(i)
      <4>1. op[i] \in Operation
        BY <3>4, UnderWay DEF listed, Steps
      <4>2. CASE \E step \in {"done", "rules"} : becomes(i, step)
        BY <4>1, <4>2, <1>0, GoesToType DEF becomes, Steps
      <4>3. ASSUME NEW r \in Runs,
                   op' = [op EXCEPT ![i] = [@ EXCEPT !.run = r, !.step = "inspect"]]
            PROVE  /\ op' = [op EXCEPT ![i] = op'[i]]
                   /\ op'[i] \in {Done} \cup Operation /\ op'[i].step # "post"
        <5>1. [op[i] EXCEPT !.run = r, !.step = "inspect"] \in Operation
          BY <4>1 DEF Operation, NoRun, Steps
        <5> QED BY <4>1, <4>3, <5>1 DEF Operation
      <4> QED BY <3>4, <4>2, <4>3 DEF listed, listRuns
    <3>5. CASE configured(i)
      <4>1. op[i] \in Operation
        BY <3>5, UnderWay DEF configured, Steps
      <4>2. CASE becomes(i, "done")
        BY <4>1, <4>2, <1>0, GoesToType DEF becomes
      <4>3. CASE /\ project' \in Scopes
                 /\ op' = [op EXCEPT ![i] = [@ EXCEPT !.step = "list", !.project = project']]
        BY <4>1, <4>3 DEF Operation, Steps
      <4> QED BY <3>5, <4>2, <4>3, <1>0, RunConsoleAssumption DEF configured, config, Scopes
    <3>6. CASE fails(i)
      <4>1. op[i].step \in Steps
        BY <3>6 DEF fails, Steps
      <4>2. CASE \E step \in {"done", "rules"} : becomes(i, step)
        BY <4>1, <4>2, <1>0, GoesToType, UnderWay DEF becomes, Steps
      <4>3. CASE op' = [op EXCEPT ![i] = selectionEnds(@)]
        BY <4>1, <4>3, <1>0, SelectionEndsType, UnderWay
      <4> QED BY <3>6, <4>2, <4>3 DEF fails
    <3> QED BY <1>2, <3>1, <3>2, <3>3, <3>4, <3>5, <3>6 DEF answered
  <2>2. Done \in {NotStarted, Done}
    OBVIOUS
  <2> QED BY <2>1, <2>2 DEF OpStep
<1>3. ASSUME NEW r \in Runs, serve(r) \/ backgroundChanges(r) \/ proceed(r) PROVE Typed
  BY <1>3 DEF serve, backgroundChanges, proceed, OpStep
<1>4. ASSUME NEW r \in Runs, inspected(r) \/ inspectFails(r) PROVE Typed
  <2>1. \A i \in waiters(r) : op[i] \in Operation
    BY UnderWay DEF waiters, Steps
  <2>2. /\ DOMAIN op' = Ops
        /\ \A i \in Ops :
             \/ op'[i] = op[i]
             \/ op'[i] = Done
             \/ i \in waiters(r) /\ op'[i] \in {goesTo(op[i], "list"), goesTo(op[i], "changes"),
                                              selectionEnds(op[i])}
    BY <1>4 DEF inspected, inspectFails, selecting
  <2>5. \A i \in waiters(r) :
          /\ goesTo(op[i], "list") \in {Done} \cup Operation
          /\ goesTo(op[i], "list").step # "post"
          /\ goesTo(op[i], "changes") \in {Done} \cup Operation
          /\ goesTo(op[i], "changes").step # "post"
          /\ selectionEnds(op[i]) \in {Done} \cup Operation
          /\ selectionEnds(op[i]).step # "post"
    BY <2>1, <1>0, GoesToType, SelectionEndsType DEF Steps
  <2>3. \A i \in Ops : op'[i] = op[i] \/ (op'[i] \in {Done} \cup Operation /\ op'[i].step # "post")
    <3>1. Done.step # "post"
      BY DEF Done, NotStarted
    <3> QED BY <2>5, <2>2, <3>1
  <2>4. op' = [i \in Ops |-> op'[i]]
    BY <1>4 DEF inspected, inspectFails
  <2> QED BY <2>3, <2>4 DEF OpStep
<1>5. ASSUME onEvent \/ onReconnect \/ setApprovalDraft \/ UNCHANGED consoleVars PROVE Typed
  BY <1>5 DEF onEvent, onReconnect, setApprovalDraft, consoleVars, OpStep
<1> HIDE DEF Typed
<1>6. Typed
  <2>1. CASE ConsoleNext
    BY <1>1, <1>2, <1>3, <1>4, <1>5, <2>1 DEF ConsoleNext
  <2> QED BY <1>5, <2>1
<1> QED BY <1>6 DEF Typed

(* A command is posted for an existing Run.                                 *)
LEMMA NextOpsInv ==
  ASSUME OpsInv, ScopeInv, ViewInv, [ConsoleNext]_consoleVars
  PROVE  OpsInv'
<1>1. OpType' /\ \A i \in Ops : OpStep(i)
  BY NextOps DEF OpsInv, ViewInv, NoRun
<1>2. view # NoView => view.run \in Runs
  BY DEF ViewInv, NoView, NoRun
<1>3. waitsApproval(view.run, view.version) /\ ~terminal(view.version) => Final > 1
  BY RunConsoleAssumption DEF waitsApproval, terminal
<1> QED BY <1>1, <1>2, <1>3 DEF OpsInv, OpStep, StartedFor

-----------------------------------------------------------------------------
(* What is listed is of the selected project.                               *)
LEMMA NextScope ==
  ASSUME ScopeInv, [ConsoleNext]_consoleVars
  PROVE  ScopeInv'
<1>1. ASSUME NEW i \in Ops,
             \/ createRun(i) \/ commandRun(i) \/ resolveCurrentResult(i) \/ loadArtifact(i)
             \/ refreshPolicyRules(i) \/ bindDevice(i) \/ createDeviceCode(i) \/ logout(i)
             \/ selectRun(i)
      PROVE  ScopeInv'
  BY <1>1 DEF createRun, commandRun, resolveCurrentResult, loadArtifact, refreshPolicyRules,
              bindDevice, createDeviceCode, logout, selectRun, screen, ScopeInv
<1>2. ASSUME NEW i \in Ops, selectProject(i) PROVE ScopeInv'
  BY <1>2 DEF selectProject, ScopeInv, Scopes
<1>3. ASSUME NEW i \in Ops,
             \/ created(i) \/ commanded(i) \/ resolved(i) \/ artifactLoaded(i)
             \/ changesLoaded(i) \/ ruleRevoked(i) \/ codeIssued(i) \/ deviceBound(i)
      PROVE  ScopeInv'
  BY <1>3 DEF created, commanded, resolved, artifactLoaded, changesLoaded, ruleRevoked,
              codeIssued, deviceBound, screen, ScopeInv
<1>4. ASSUME NEW i \in Ops, listed(i) \/ rulesListed(i) PROVE ScopeInv'
  BY <1>4 DEF listed, rulesListed, policyRules, ScopeInv
<1>5. ASSUME NEW i \in Ops, loggedOut(i) \/ configured(i) PROVE ScopeInv'
  BY <1>5, RunConsoleAssumption DEF loggedOut, configured, applyUnauthenticated, config,
                                    ScopeInv, Scopes
<1>6. ASSUME NEW i \in Ops, fails(i) PROVE ScopeInv'
  BY <1>6 DEF fails, ScopeInv
<1>7. ASSUME NEW r \in Runs,
             serve(r) \/ inspected(r) \/ inspectFails(r) \/ backgroundChanges(r) \/ proceed(r)
      PROVE  ScopeInv'
  BY <1>7 DEF serve, inspected, inspectFails, backgroundChanges, proceed, screen, ScopeInv
<1>8. CASE onEvent \/ onReconnect \/ setApprovalDraft \/ UNCHANGED consoleVars
  BY <1>8 DEF onEvent, onReconnect, setApprovalDraft, consoleVars, screen, ScopeInv
<1>9. CASE ConsoleNext
  BY <1>1, <1>2, <1>3, <1>4, <1>5, <1>6, <1>7, <1>8, <1>9 DEF ConsoleNext, click, answered
<1> QED BY <1>8, <1>9

-----------------------------------------------------------------------------
(* Changes and an artifact are shown for the selected Run only.             *)
LEMMA ChangesOfType ==
  ASSUME ShownInv, NEW r \in NoRun
  PROVE  changesOf(r) \in [changes: {None, selected}, artifact: {None, selected}]
BY DEF ShownInv, changesOf, changes

LEMMA NextShown ==
  ASSUME ShownInv, ViewInv, OpsInv, WorkInv, [ConsoleNext]_consoleVars
  PROVE  ShownInv'
<1> DEFINE Same == UNCHANGED <<selected, shown>>
           Selects == \E r \in NoRun : select(r)
<1>1. ASSUME Same PROVE ShownInv'
  BY <1>1 DEF ShownInv
<1>2. ASSUME Selects PROVE ShownInv'
  BY <1>2 DEF select, ShownInv
<1>3. view.run \in {None, selected}
  BY DEF ViewInv
<1>0. \A i \in Ops : op[i].run \in NoRun
  BY DEF OpsInv, OpType, Operation, NotStarted, Done, NoRun
<1>4. ASSUME NEW i \in Ops,
             \/ createRun(i) \/ commandRun(i) \/ resolveCurrentResult(i)
             \/ refreshPolicyRules(i) \/ bindDevice(i) \/ createDeviceCode(i) \/ logout(i)
      PROVE  Same
  BY <1>4 DEF createRun, commandRun, resolveCurrentResult, refreshPolicyRules,
              bindDevice, createDeviceCode, logout, screen
<1>5. ASSUME NEW i \in Ops, selectRun(i) \/ selectProject(i) PROVE Selects
  BY <1>5 DEF selectRun, selectProject, NoRun
<1>6. ASSUME NEW i \in Ops,
             \/ commanded(i) \/ rulesListed(i) \/ ruleRevoked(i) \/ codeIssued(i) \/ deviceBound(i)
      PROVE  Same
  BY <1>6 DEF commanded, rulesListed, ruleRevoked, codeIssued, deviceBound, screen
<1>7. ASSUME NEW i \in Ops, created(i) \/ listed(i) \/ loggedOut(i) \/ configured(i)
      PROVE  Same \/ Selects
  BY <1>7 DEF created, creatable, listed, listRuns, loggedOut, configured, applyUnauthenticated,
              NoRun
<1>8. ASSUME NEW i \in Ops, loadArtifact(i) \/ resolved(i) \/ artifactLoaded(i)
      PROVE  ShownInv'
  BY <1>8, <1>3 DEF loadArtifact, resolved, artifactLoaded, artifacts, ShownInv
<1>9. ASSUME NEW i \in Ops, changesLoaded(i) PROVE ShownInv'
  BY <1>9, <1>0, ChangesOfType DEF changesLoaded, ShownInv
<1>10. ASSUME NEW i \in Ops, fails(i) PROVE ShownInv'
  BY <1>10, <1>3 DEF fails, ShownInv
<1>11. ASSUME NEW r \in Runs, serve(r) \/ inspected(r) \/ inspectFails(r) \/ proceed(r)
       PROVE  Same
  BY <1>11 DEF serve, inspected, inspectFails, proceed, screen
<1>12. ASSUME NEW r \in Runs, backgroundChanges(r) PROVE ShownInv'
  BY <1>12, ChangesOfType DEF backgroundChanges, ShownInv, NoRun
<1>13. ASSUME onEvent \/ onReconnect \/ setApprovalDraft \/ UNCHANGED consoleVars PROVE Same
  BY <1>13 DEF onEvent, onReconnect, setApprovalDraft, consoleVars, screen
<1> HIDE DEF Same, Selects
<1>14. ASSUME NEW i \in Ops, click(i) \/ answered(i) \/ fails(i) PROVE ShownInv'
  BY <1>1, <1>2, <1>4, <1>5, <1>6, <1>7, <1>8, <1>9, <1>10, <1>14 DEF click, answered
<1>15. CASE ConsoleNext
  BY <1>1, <1>11, <1>12, <1>13, <1>14, <1>15 DEF ConsoleNext
<1> QED BY <1>1, <1>13, <1>15

-----------------------------------------------------------------------------
(* The follower, the stream and the flags keep their types.                 *)
LEMMA FollowRunType ==
  ASSUME NEW r \in NoRun, followRun(r)
  PROVE  /\ follower' \in [run: NoRun, last: 0..Final, waits: {"no", "event", "refresh"}]
         /\ stream' \in [phase: Said, run: NoRun]
BY RunConsoleAssumption DEF followRun, NoRun, Said

LEMMA NoFollowerType ==
  NoFollower \in [run: NoRun, last: 0..Final, waits: {"no", "event", "refresh"}]
BY RunConsoleAssumption DEF NoFollower, NoRun

LEMMA NextWork ==
  ASSUME WorkInv, InspectionInv, OpsInv, ViewInv, [ConsoleNext]_consoleVars
  PROVE  WorkInv'
<1> DEFINE FollowerType == follower \in [run: NoRun, last: 0..Final, waits: {"no", "event", "refresh"}]
           StreamType == stream \in [phase: Said, run: NoRun]
           FlagsType == pending \subseteq Flags /\ loads \subseteq Runs /\ discarded \subseteq Runs
<1>0. \A i \in Ops : op[i].run \in NoRun
  BY DEF OpsInv, OpType, Operation, NotStarted, Done, NoRun
<1>1. FlagsType'
  <2>1. ASSUME NEW i \in Ops, click(i) PROVE FlagsType'
    BY <2>1 DEF click, selectRun, createRun, commandRun, resolveCurrentResult, loadArtifact,
                selectProject, refreshPolicyRules, bindDevice, createDeviceCode, logout, screen,
                flag, Flags, WorkInv
  <2>2. ASSUME NEW i \in Ops, resolved(i) PROVE FlagsType'
    <3>1. op[i].run \in Runs
      BY <2>2 DEF resolved, OpsInv, Commands
    <3> QED BY <2>2, <3>1 DEF resolved, resolveRunResult, WorkInv
  <2>3. ASSUME NEW i \in Ops,
               \/ created(i) \/ commanded(i) \/ artifactLoaded(i) \/ changesLoaded(i)
               \/ listed(i) \/ rulesListed(i) \/ ruleRevoked(i)
        PROVE  FlagsType'
    BY <2>3 DEF created, commanded, artifactLoaded, changesLoaded, listed, rulesListed,
                ruleRevoked, screen, WorkInv
  <2>4. ASSUME NEW i \in Ops,
               codeIssued(i) \/ deviceBound(i) \/ loggedOut(i) \/ configured(i) \/ fails(i)
        PROVE  FlagsType'
    BY <2>4 DEF codeIssued, deviceBound, loggedOut, configured, fails, screen, WorkInv
  <2>5. ASSUME NEW r \in Runs,
               serve(r) \/ inspected(r) \/ inspectFails(r) \/ backgroundChanges(r) \/ proceed(r)
        PROVE  FlagsType'
    BY <2>5 DEF serve, inspected, inspectFails, backgroundChanges, proceed, screen, WorkInv
  <2>6. CASE onEvent \/ onReconnect \/ setApprovalDraft \/ UNCHANGED consoleVars
    BY <2>6 DEF onEvent, onReconnect, setApprovalDraft, consoleVars, screen, WorkInv
  <2>7. CASE ConsoleNext
    BY <2>1, <2>2, <2>3, <2>4, <2>5, <2>6, <2>7 DEF ConsoleNext, answered
  <2> QED BY <2>6, <2>7
<1>2. FollowerType' /\ StreamType'
  <2> DEFINE Follows == FollowerType' /\ StreamType'
             Same == UNCHANGED <<follower, stream>>
  <2>0. ASSUME Same PROVE Follows
    BY <2>0 DEF WorkInv
  <2>1. ASSUME NEW i \in Ops, click(i) PROVE Follows
    <3>1. CASE \/ createRun(i) \/ commandRun(i) \/ resolveCurrentResult(i) \/ loadArtifact(i)
               \/ refreshPolicyRules(i) \/ bindDevice(i) \/ createDeviceCode(i)
      <4>1. Same
        BY <3>1 DEF createRun, commandRun, resolveCurrentResult, loadArtifact,
                    refreshPolicyRules, bindDevice, createDeviceCode, screen
      <4> QED BY <4>1, <2>0
    <3>2. CASE selectRun(i) \/ logout(i)
      BY <3>2, NoFollowerType DEF selectRun, logout, screen, WorkInv
    <3>3. CASE selectProject(i)
      BY <3>3, NoFollowerType DEF selectProject, Quiet, Said, NoRun
    <3> QED BY <2>1, <3>1, <3>2, <3>3 DEF click
  <2>2. ASSUME NEW i \in Ops,
               \/ created(i) \/ commanded(i) \/ artifactLoaded(i) \/ resolved(i)
               \/ rulesListed(i) \/ ruleRevoked(i) \/ codeIssued(i) \/ deviceBound(i)
        PROVE  Same
    BY <2>2 DEF created, commanded, artifactLoaded, resolved, rulesListed,
                ruleRevoked, codeIssued, deviceBound, screen
  <2>3. ASSUME NEW i \in Ops, loggedOut(i) \/ configured(i) PROVE Follows
    BY <2>3 DEF loggedOut, configured, applyUnauthenticated, Quiet, Said, NoRun, WorkInv
  <2>4. ASSUME NEW i \in Ops, changesLoaded(i) PROVE Follows
    BY <2>4, <1>0, FollowRunType DEF changesLoaded
  <2>5. ASSUME NEW i \in Ops, listed(i) PROVE Follows
    BY <2>5, <1>0, FollowRunType, NoFollowerType DEF listed, WorkInv
  <2>6. ASSUME NEW i \in Ops, fails(i) PROVE Follows
    <3>1. CASE followRun(op[i].run)
      BY <3>1, <1>0, FollowRunType
    <3>2. CASE UNCHANGED follower /\ stream' \in {stream, [phase |-> "failed", run |-> None]}
      BY <3>2 DEF WorkInv, Said, NoRun
    <3> QED BY <2>6, <3>1, <3>2 DEF fails
  <2>7. ASSUME NEW r \in Runs, serve(r) \/ backgroundChanges(r) \/ proceed(r) PROVE Same
    BY <2>7 DEF serve, backgroundChanges, proceed, screen
  <2>8. ASSUME NEW r \in Runs, inspected(r) PROVE Follows
    <3>1. \/ followRun(r)
          \/ /\ follower' \in {follower, NoFollower, [follower EXCEPT !.waits = "no"]}
             /\ stream' \in {stream, [phase |-> "closed", run |-> r]}
      BY <2>8 DEF inspected
    <3> QED BY <3>1, FollowRunType, NoFollowerType DEF NoRun, WorkInv, Said
  <2>9. ASSUME NEW r \in Runs, inspectFails(r) PROVE Follows
    <3>1. \/ followRun(r)
          \/ /\ follower' \in {follower, NoFollower, [follower EXCEPT !.waits = "no"]}
             /\ stream' \in {stream, [phase |-> "failed", run |-> r],
                             [phase |-> "failed", run |-> None]}
      BY <2>9 DEF inspectFails
    <3> QED BY <3>1, FollowRunType, NoFollowerType DEF NoRun, WorkInv, Said
  <2>10. ASSUME onEvent PROVE Follows
    <3>1. follower.run \in Runs
      BY <2>10 DEF onEvent, WorkInv, NoRun
    <3>2. follower.last + 1 \in 0..Final
      BY <2>10, <3>1, RunConsoleAssumption DEF onEvent, InspectionInv, WorkInv
    <3>3. CASE follower' = NoFollower /\ UNCHANGED stream
      BY <3>3, NoFollowerType DEF WorkInv
    <3>4. CASE /\ follower' = [follower EXCEPT !.last = follower.last + 1, !.waits = "event"]
               /\ stream' = [phase |-> "live", run |-> follower.run]
      BY <3>1, <3>2, <3>4 DEF WorkInv, Said, NoRun
    <3> QED BY <2>10, <3>3, <3>4 DEF onEvent
  <2>11. ASSUME onReconnect PROVE Follows
    BY <2>11, NoFollowerType DEF onReconnect, WorkInv, Said
  <2>12. ASSUME setApprovalDraft \/ UNCHANGED consoleVars PROVE Same
    BY <2>12 DEF setApprovalDraft, consoleVars, screen
  <2> HIDE DEF Follows, Same
  <2>13. Follows
    <3>1. CASE ConsoleNext
      BY <2>0, <2>1, <2>2, <2>3, <2>4, <2>5, <2>6, <2>7, <2>8, <2>9, <2>10, <2>11, <2>12, <3>1
         DEF ConsoleNext, answered
    <3> QED BY <2>0, <2>12, <3>1
  <2> QED BY <2>13 DEF Follows
<1> QED BY <1>1, <1>2 DEF WorkInv

-----------------------------------------------------------------------------
(* What a step does to the server's versions and the inspections: nothing,  *)
(* a version rises and the Run may be inspected, an inspection reads the    *)
(* version, or inspections end.                                             *)
Rises(r, v) ==
    /\ version' = [version EXCEPT ![r] = v]
    /\ inspecting' \in {inspecting, inspectRun(r)}

Ends(r, S) ==
    /\ UNCHANGED version
    /\ inspecting' = [inspecting EXCEPT ![r] = S]

LEMMA ServerStep ==
  ASSUME InspectionInv, OpsInv, WorkInv, [ConsoleNext]_consoleVars
  PROVE  \/ UNCHANGED <<version, inspecting>>
         \/ \E r \in Runs : \E v \in version[r]..Final : Rises(r, v)
         \/ \E r \in Runs : serve(r)
         \/ \E r \in Runs : \E S \in SUBSET inspecting[r] : Ends(r, S)
<1> DEFINE Same == UNCHANGED <<version, inspecting>>
           Rise == \E r \in Runs : \E v \in version[r]..Final : Rises(r, v)
           Serves == \E r \in Runs : serve(r)
           End == \E r \in Runs : \E S \in SUBSET inspecting[r] : Ends(r, S)
<1>0. ASSUME NEW r \in Runs, inspecting' = inspectRun(r), UNCHANGED version PROVE Rise
  <2>1. version' = [version EXCEPT ![r] = version[r]] /\ version[r] \in version[r]..Final
    BY <1>0, RunConsoleAssumption DEF InspectionInv
  <2> QED BY <1>0, <2>1 DEF Rises
<1>1. ASSUME NEW i \in Ops,
             \/ createRun(i) \/ commandRun(i) \/ resolveCurrentResult(i) \/ loadArtifact(i)
             \/ refreshPolicyRules(i) \/ bindDevice(i) \/ createDeviceCode(i) \/ logout(i)
             \/ selectProject(i)
      PROVE  Same
  BY <1>1 DEF createRun, commandRun, resolveCurrentResult, loadArtifact, refreshPolicyRules,
              bindDevice, createDeviceCode, logout, selectProject, screen
<1>2. ASSUME NEW i \in Ops, selectRun(i) PROVE Rise
  <2>1. PICK r \in Runs : inspecting' = inspectRun(r) /\ UNCHANGED version
    BY <1>2 DEF selectRun
  <2> QED BY <2>1, <1>0
<1>3. ASSUME NEW i \in Ops,
             \/ resolved(i) \/ artifactLoaded(i) \/ changesLoaded(i) \/ rulesListed(i)
             \/ ruleRevoked(i) \/ codeIssued(i) \/ deviceBound(i) \/ loggedOut(i)
             \/ configured(i) \/ fails(i)
      PROVE  Same
  BY <1>3 DEF resolved, artifactLoaded, changesLoaded, rulesListed, ruleRevoked, codeIssued,
              deviceBound, loggedOut, configured, fails, screen
<1>4. ASSUME NEW i \in Ops, listed(i) PROVE Same \/ Rise
  <2>1. Same \/ \E r \in Runs : inspecting' = inspectRun(r) /\ UNCHANGED version
    BY <1>4 DEF listed, listRuns
  <2> HIDE DEF Same, Rise
  <2> QED BY <2>1, <1>0
<1>5. ASSUME NEW i \in Ops, created(i) PROVE Rise
  <2>1. PICK r \in creatable(op[i].project) :
               version' = [version EXCEPT ![r] = 1] /\ inspecting' = inspectRun(r)
    BY <1>5 DEF created
  <2>2. r \in Runs /\ 1 \in version[r]..Final
    BY <2>1, RunConsoleAssumption DEF creatable
  <2> QED BY <2>1, <2>2 DEF Rises
<1>6. ASSUME NEW i \in Ops, commanded(i) PROVE Rise
  <2> DEFINE r == op[i].run
             v == sendRunCommand(op[i].kind, version[r])
  <2>1. r \in Runs /\ (op[i].kind = "approval" => Final > 1)
    BY <1>6 DEF commanded, OpsInv, Commands
  <2>2. version[r] \in 0..Final /\ Final \in Nat
    BY <2>1, RunConsoleAssumption DEF InspectionInv
  <2>3. Max({version[r], 2}) \in {version[r], 2} /\ Max({version[r], 2}) >= version[r]
    BY <2>2, MaxOfTwo
  <2>4. v \in version[r]..Final
    <3>1. CASE op[i].kind = "approval"
      BY <3>1, <2>1, <2>2, <2>3 DEF sendRunCommand
    <3>2. CASE op[i].kind = "cancel" \/ op[i].kind = "input"
      BY <3>2, <2>2 DEF sendRunCommand
    <3> QED BY <1>6, <3>1, <3>2 DEF commanded
  <2>5. Rises(r, v)
    BY <1>6, <2>1 DEF commanded, InspectionInv, Rises
  <2> QED BY <2>1, <2>4, <2>5
<1>7. ASSUME NEW r \in Runs, backgroundChanges(r) PROVE Same
  BY <1>7 DEF backgroundChanges
<1>8. ASSUME NEW r \in Runs, inspected(r) PROVE End
  BY <1>8 DEF inspected, Ends
<1>9. ASSUME NEW r \in Runs, inspectFails(r) PROVE End
  BY <1>9 DEF inspectFails, Ends
<1>10. ASSUME NEW r \in Runs, proceed(r) PROVE Rise
  <2>1. version[r] + 1 \in version[r]..Final
    BY <1>10, RunConsoleAssumption DEF proceed, InspectionInv
  <2>2. version' = [version EXCEPT ![r] = version[r] + 1]
    BY <1>10 DEF proceed
  <2>3. inspecting' = inspecting
    BY <1>10 DEF proceed
  <2> QED BY <2>1, <2>2, <2>3 DEF Rises
<1>11. ASSUME onEvent \/ onReconnect PROVE Same \/ Rise
  <2>1. follower.run \in Runs
    BY <1>11 DEF onEvent, onReconnect, WorkInv, NoRun
  <2>2. Same \/ (inspecting' = inspectRun(follower.run) /\ UNCHANGED version)
    BY <1>11 DEF onEvent, onReconnect
  <2> HIDE DEF Same, Rise
  <2> QED BY <2>1, <2>2, <1>0
<1>12. ASSUME setApprovalDraft \/ UNCHANGED consoleVars PROVE Same
  BY <1>12 DEF setApprovalDraft, consoleVars, screen
<1> DEFINE Steps4 == Same \/ Rise \/ Serves \/ End
<1> HIDE DEF Same, Rise, End
<1>13. ASSUME ConsoleNext PROVE Steps4
  BY <1>1, <1>2, <1>3, <1>4, <1>5, <1>6, <1>7, <1>8, <1>9, <1>10, <1>11, <1>12, <1>13
     DEF ConsoleNext, click, answered
<1> QED BY <1>12, <1>13 DEF Same, Rise, End

-----------------------------------------------------------------------------
(* What an inspection has read is there, and what is shown is not newer.    *)
LEMMA InspectRunType ==
  ASSUME InspectionInv, NEW r \in Runs, inspecting' \in {inspecting, inspectRun(r)}
  PROVE  /\ inspecting' \in [Runs -> SUBSET (0..Final)]
         /\ \A s \in Runs : \A v \in inspecting'[s] : v = Asked \/ v \in inspecting[s]
         /\ \A s \in Runs : \A v, w \in inspecting'[s] : v = w
BY RunConsoleAssumption DEF InspectionInv, inspectRun, joins, Asked

LEMMA ServeType ==
  ASSUME InspectionInv, NEW r \in Runs, serve(r)
  PROVE  /\ inspecting' \in [Runs -> SUBSET (0..Final)]
         /\ \A s \in Runs : \A v \in inspecting'[s] : v = version[s] \/ v \in inspecting[s]
         /\ \A s \in Runs : \A v, w \in inspecting'[s] : v = w
<1>1. inspecting[r] = {Asked}
  BY DEF InspectionInv, serve
<1>2. inspecting' = [inspecting EXCEPT ![r] = {version[r]}]
  BY <1>1 DEF serve, inspection
<1> QED BY <1>2 DEF InspectionInv

LEMMA NextInspection ==
  ASSUME InspectionInv, OpsInv, WorkInv, [ConsoleNext]_consoleVars
  PROVE  /\ InspectionInv'
         /\ \A r \in Runs : version[r] <= version'[r]
<1>0. Final \in Nat /\ \A r \in Runs : version[r] \in 0..Final
  BY RunConsoleAssumption DEF InspectionInv
<1>1. CASE UNCHANGED <<version, inspecting>>
  BY <1>0, <1>1 DEF InspectionInv
<1>2. ASSUME NEW r \in Runs, NEW v \in version[r]..Final, Rises(r, v)
      PROVE  InspectionInv' /\ \A s \in Runs : version[s] <= version'[s]
  <2>1. version' \in [Runs -> 0..Final] /\ \A s \in Runs : version[s] <= version'[s]
    BY <1>0, <1>2 DEF Rises, InspectionInv
  <2>2. \A s \in Runs : \A w \in inspecting'[s] : w <= version'[s]
    BY <1>0, <1>2, <2>1, InspectRunType DEF Rises, InspectionInv, Asked
  <2> QED BY <1>2, <2>1, <2>2, InspectRunType DEF Rises, InspectionInv
<1>3. ASSUME NEW r \in Runs, serve(r)
      PROVE  InspectionInv' /\ \A s \in Runs : version[s] <= version'[s]
  <2>1. version' = version
    BY <1>3 DEF serve
  <2> QED BY <1>0, <1>3, <2>1, ServeType DEF InspectionInv
<1>4. ASSUME NEW r \in Runs, NEW S \in SUBSET inspecting[r], Ends(r, S)
      PROVE  InspectionInv' /\ \A s \in Runs : version[s] <= version'[s]
  BY <1>0, <1>4 DEF Ends, InspectionInv
<1> QED BY <1>1, <1>2, <1>3, <1>4, ServerStep

(* What is shown stays what the server has reached, and every answer under  *)
(* way is as new.                                                           *)
LEMMA SameViewFresh ==
  ASSUME InspectionInv, OpsInv, WorkInv, [ConsoleNext]_consoleVars, NEW r \in Runs,
         view \in [run: NoRun, version: 0..Final], view' = view, Fresh(r)
  PROVE  Fresh(r)'
<1>0. Final \in Nat /\ version[r] \in 0..Final /\ view.version \in 0..Final
  BY RunConsoleAssumption DEF InspectionInv
<1>1. version[r] <= version'[r] /\ version'[r] \in 0..Final
  BY NextInspection DEF InspectionInv
<1>2. view.version <= version'[r]
  BY <1>0, <1>1 DEF Fresh
<1>3. \A v \in inspecting'[r] : v # Asked => view.version <= v
  <2>1. CASE UNCHANGED <<version, inspecting>>
    BY <2>1 DEF Fresh
  <2>2. ASSUME NEW s \in Runs, NEW w \in version[s]..Final, Rises(s, w)
        PROVE  \A v \in inspecting'[r] : v # Asked => view.version <= v
    BY <2>2, InspectRunType DEF Fresh, Rises
  <2>3. ASSUME NEW s \in Runs, serve(s)
        PROVE  \A v \in inspecting'[r] : v # Asked => view.version <= v
    BY <2>3, ServeType DEF Fresh
  <2>4. ASSUME NEW s \in Runs, NEW S \in SUBSET inspecting[s], Ends(s, S)
        PROVE  \A v \in inspecting'[r] : v # Asked => view.version <= v
    BY <2>4 DEF Fresh, Ends, InspectionInv
  <2> QED BY <2>1, <2>2, <2>3, <2>4, ServerStep
<1> QED BY <1>2, <1>3 DEF Fresh

LEMMA NextFresh ==
  ASSUME FreshInv, ViewInv, InspectionInv, OpsInv, WorkInv, [ConsoleNext]_consoleVars
  PROVE  FreshInv'
<1>1. CASE view' = view
  BY <1>1, SameViewFresh DEF FreshInv, ViewInv, NoRun
<1>2. ASSUME NEW r \in NoRun, select(r) PROVE FreshInv'
  BY <1>2, SelectedView DEF FreshInv, NoView
<1>3. ASSUME NEW r \in Runs, NEW v \in inspecting[r] \ {Asked}, Applies(r, v) PROVE FreshInv'
  <2>1. view' = [run |-> r, version |-> v]
    BY <1>3 DEF Applies, applyRunView
  <2>2. inspecting'[r] = {} /\ version' = version /\ v <= version[r]
    BY <1>3 DEF Applies, InspectionInv
  <2> QED BY <2>1, <2>2 DEF FreshInv, Fresh
<1>4. CASE setApprovalDraft
  BY <1>1, <1>4 DEF setApprovalDraft
<1> QED BY <1>1, <1>2, <1>3, <1>4, ViewStep

-----------------------------------------------------------------------------
(* The inductive invariant of the controller.                               *)
ConsoleInv ==
    /\ ViewInv /\ TimelineInv /\ ShownInv /\ ScopeInv
    /\ InspectionInv /\ FreshInv /\ OpsInv /\ WorkInv

LEMMA ConsoleInitInv ==
  ASSUME ConsoleInit PROVE ConsoleInv
<1> USE RunConsoleAssumption DEF ConsoleInit
<1>1. ViewInv
  BY DEF ViewInv, NoView, NoDraft, NoRun
<1>2. TimelineInv /\ ShownInv
  BY DEF TimelineInv, ShownInv
<1>3. ScopeInv
  BY DEF ScopeInv, Scopes
<1>4. InspectionInv
  BY DEF InspectionInv
<1>5. FreshInv
  BY DEF FreshInv, NoView
<1>6. OpsInv
  BY DEF OpsInv, OpType, NotStarted, Commands
<1>7. WorkInv
  BY NoFollowerType DEF WorkInv, Quiet, Said, NoRun
<1> QED BY <1>1, <1>2, <1>3, <1>4, <1>5, <1>6, <1>7 DEF ConsoleInv

LEMMA ConsoleNextInv ==
  ASSUME ConsoleInv, [ConsoleNext]_consoleVars PROVE ConsoleInv'
<1> USE DEF ConsoleInv
<1>1. ViewInv' /\ ScopeInv' /\ ShownInv'
  BY NextView, NextScope, NextShown
<1>2. TimelineInv'
  BY NextTimeline DEF WorkInv
<1>3. InspectionInv' /\ FreshInv'
  BY NextInspection, NextFresh
<1>4. OpsInv' /\ WorkInv'
  BY NextOpsInv, NextWork
<1> QED BY <1>1, <1>2, <1>3, <1>4

\* The controller's invariant: what is on the screen, what inspections have read and
\* what is under way agree with the selection and with the server.
THEOREM ConsoleInvariant == ConsoleSpec => []ConsoleInv
<1>1. ConsoleInit => ConsoleInv
  BY ConsoleInitInv
<1>2. ConsoleInv /\ [ConsoleNext]_consoleVars => ConsoleInv'
  BY ConsoleNextInv
<1> QED BY <1>1, <1>2, PTL DEF ConsoleSpec

LEMMA ConsoleInvImplies ==
  ASSUME ConsoleInv PROVE ConsoleTypeOK /\ NoForeignView
<1> USE DEF ConsoleInv
<1>1. NoForeignView
  BY DEF ViewInv, TimelineInv, ShownInv, ScopeInv, NoForeignView
<1>2. /\ version \in [Runs -> 0..Final]
      /\ \A r \in Runs : inspecting[r] \subseteq 0..Final
  BY DEF InspectionInv
<1>3. /\ phase \in {"ready", "loading", "needs_auth", "offline"}
      /\ {project, history, rules} \subseteq Projects \cup {None}
  BY DEF ScopeInv, Scopes
<1>4. selected \in NoRun /\ view.run \in NoRun /\ draft.of \in NoRun
  BY DEF ViewInv
<1>5. shown.changes \in NoRun /\ shown.artifact \in NoRun
  BY <1>4 DEF ShownInv, NoRun
<1>6. \A i \in DOMAIN timeline : timeline[i] \in [run: Runs, event: 1..Final]
  BY LenProperties, ElementOfSeq DEF TimelineInv
<1>7. /\ stream.run \in NoRun /\ follower.run \in NoRun
      /\ stream.phase \in Said /\ follower.waits \in {"no", "event", "refresh"}
      /\ pending \subseteq Flags /\ discarded \subseteq Runs /\ loads \subseteq Runs
  BY DEF WorkInv
<1>8. \A i \in Ops : op[i] \in {NotStarted, Done} \cup Operation
  BY DEF OpsInv, OpType
<1>9. ConsoleTypeOK
  BY <1>2, <1>3, <1>4, <1>5, <1>6, <1>7, <1>8
     DEF ConsoleTypeOK, NoRun, Scopes, Said, Flags, Operation
<1> QED BY <1>1, <1>9

\* The state of the controller keeps its types, whatever is answered in whatever order.
THEOREM ConsoleTypeCorrect == ConsoleSpec => []ConsoleTypeOK
BY ConsoleInvariant, ConsoleInvImplies, PTL

\* Whatever answers come late, for however many Runs, projects and operations, what is
\* shown is of the selected Run and the selected project.
THEOREM ScreenIsOfTheSelection == ConsoleSpec => []NoForeignView
BY ConsoleInvariant, ConsoleInvImplies, PTL

-----------------------------------------------------------------------------
\* An answer applied to the view that shows its Run is as new as the view.
LEMMA ForwardStep ==
  ASSUME ConsoleInv, [ConsoleNext]_consoleVars, view'.run = view.run
  PROVE  view'.version >= view.version
<1> USE DEF ConsoleInv
<1>1. CASE view' = view
  BY <1>1, RunConsoleAssumption DEF ViewInv
<1>2. ASSUME NEW r \in NoRun, select(r) PROVE view'.version >= view.version
  BY <1>2, SelectedView DEF ViewInv, NoView
<1>3. ASSUME NEW r \in Runs, NEW v \in inspecting[r] \ {Asked}, Applies(r, v)
      PROVE  view'.version >= view.version
  <2>1. view' = [run |-> r, version |-> v]
    BY <1>3 DEF Applies, applyRunView
  <2>2. r # None /\ v \in 0..Final /\ v # Asked /\ Final \in Nat
    BY RunConsoleAssumption DEF InspectionInv
  <2>3. view.version <= v
    BY <2>1, <2>2 DEF FreshInv, Fresh
  <2> QED BY <2>1, <2>2, <2>3, RunConsoleAssumption DEF ViewInv
<1>4. CASE setApprovalDraft
  BY <1>1, <1>4 DEF setApprovalDraft
<1> QED BY <1>1, <1>2, <1>3, <1>4, ViewStep

\* The status shown of a Run never goes back: all who want to know a Run's state share one
\* request, so no answer that was read earlier is applied after a later one.
THEOREM StatusNeverGoesBack == ConsoleSpec => NeverBackwards
<1>1. ConsoleInv /\ [ConsoleNext]_consoleVars
        => [view'.run = view.run => view'.version >= view.version]_consoleVars
  BY ForwardStep
<1> QED BY <1>1, ConsoleInvariant, PTL DEF ConsoleSpec, NeverBackwards

\* An edited draft is left alone by every step that still shows its approval.
LEMMA DraftStep ==
  ASSUME ConsoleInv, [ConsoleNext]_consoleVars, ~UNCHANGED consoleVars,
         draft.edited, view'.run = view.run, waitsApproval(view'.run, view'.version)
  PROVE  draft' = draft
<1> USE DEF ConsoleInv
<1>1. CASE UNCHANGED <<selected, view, draft>>
  BY <1>1
<1>2. ASSUME NEW r \in NoRun, select(r) PROVE draft' = draft
  <2>1. view'.version = 0
    BY <1>2, SelectedView DEF NoView
  <2> QED BY <2>1 DEF waitsApproval
<1>3. ASSUME NEW r \in Runs, NEW v \in inspecting[r] \ {Asked}, Applies(r, v)
      PROVE  draft' = draft
  <2>1. v \in 1..Final
    BY RunConsoleAssumption DEF InspectionInv, Asked
  <2> QED BY <1>3, <2>1, AppliedView
<1>4. CASE setApprovalDraft
  <2>1. draft.of = view.run
    BY DEF ViewInv
  <2> QED BY <1>4, <2>1 DEF setApprovalDraft, ViewInv
<1> QED BY <1>1, <1>2, <1>3, <1>4, ViewStep

\* What the operator has typed for an approval survives every refresh that still shows it.
THEOREM EditsSurviveRefreshes == ConsoleSpec => EditSurvives
<1>1. ConsoleInv /\ [ConsoleNext]_consoleVars
        => [(draft.edited /\ view'.run = view.run /\ waitsApproval(view'.run, view'.version))
            => draft' = draft]_consoleVars
  BY DraftStep
<1> QED BY <1>1, ConsoleInvariant, PTL DEF ConsoleSpec, EditSurvives
=============================================================================
