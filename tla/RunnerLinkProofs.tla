-------------------------- MODULE RunnerLinkProofs --------------------------
(***************************************************************************)
(* Proofs about RunnerLink for any number of calls, aborts, sockets and    *)
(* restarts: a call is answered by its own execution only, and nothing     *)
(* runs on the device that nobody waits for.  Both rest on one fact: an id *)
(* the Worker issues is above every id the device has ever executed,       *)
(* because the hello carries the highest of them.                          *)
(***************************************************************************)
EXTENDS RunnerLink, FiniteSetTheorems, WellFoundedInduction, TLAPS

Sessions == [phase: {"none", "hello", "open", "closed"}, authenticating: BOOLEAN,
             resume: Ids \cup {0}, next: Nat, consumed: Nat, acked: Nat,
             pending: SUBSET [id: Ids, call: Calls]]
Runners == [socket: Sockets \cup {0}, welcomed: BOOLEAN, terminated: BOOLEAN,
            last: Ids \cup {0}, retry: BOOLEAN,
            state: {"connecting", "live", "reconnecting", "stopped"}]
Commands == [status: {"unknown", "accepted", "running", "settled"},
             call: Outcomes, aborted: BOOLEAN]
Answers == [status: {"none", "waiting", "answered", "rejected", "aborted"}, by: Outcomes]
Gateways == [route: Sockets \cup {0}, next: Nat \ {0}, consumed: Nat]

Typed ==
    /\ runner \in Runners
    /\ command \in [Ids -> Commands]
    /\ window \in [frames: Seq(ResultFrames), cursor: Nat]
    /\ journal \in [Ids -> Calls \cup {0}]
    /\ session \in [Sockets -> Sessions]
    /\ gateway \in Gateways
    /\ answer \in [Calls -> Answers]
    /\ up \in [Sockets -> Seq(UpFrames)]
    /\ down \in [Sockets -> Seq(DownFrames)]
    /\ \A i \in InFlight : command[i].call \in Calls

\* The ids issued so far: one for every call made and one for every call aborted.
Made(a) == {k \in Calls : a[k].status # "none"}
Aborted(a) == {k \in Calls : a[k].status = "aborted"}
Issued(a) == Cardinality(Made(a)) + Cardinality(Aborted(a))

IsResult(f) == f.kind = "result"
IsCommand(f) == f.kind = "command"
IsAbort(f) == IsCommand(f) /\ f.op = "abort"
IsPerform(f) == IsCommand(f) /\ f.op = "perform"

\* Nothing speaks of an id that was not issued.
BelowIssued(n, x, u, d) ==
    /\ x.phase = "open" => 0 < x.next /\ x.next =< n + 1
    /\ x.resume =< n
    /\ \A f \in Range(u) : f.kind = "hello" => f.last =< n
    /\ \A f \in Range(d) : IsCommand(f) => f.id =< n

Counted ==
    /\ Cardinality(Aborted(answer)) =< MaxAborts
    /\ gateway.next =< Issued(answer) + 1
    /\ runner.last =< Issued(answer)
    /\ \A c \in Sockets : BelowIssued(Issued(answer), session[c], up[c], down[c])

\* A call waits in one place.
Waiting ==
    /\ \A c \in Sockets : \A p \in session[c].pending : answer[p.call].status = "waiting"
    /\ \A c, d \in Sockets : \A p \in session[c].pending, q \in session[d].pending :
           p.call = q.call => c = d /\ p = q

\* What the device knows is not above its mark; its window holds what it settled.
Remembered ==
    /\ \A i \in Ids : command[i].status # "unknown" => i =< runner.last
    /\ \A i \in Ids : journal[i] # 0 => i =< runner.last
    /\ \A f \in Range(window.frames) : command[f.id].status = "settled"

\* A device that was not welcomed has stopped everything, one that will retry has
\* no socket.
Stopped ==
    /\ runner.retry => runner.socket = 0
    /\ ~runner.welcomed => \A i \in InFlight : command[i].aborted
    /\ runner.socket # 0 => session[runner.socket].phase # "none"

\* Of a session x with frames u and d on the way: commands are for open sessions,
Quiet(x, u, d) ==
    /\ x.phase # "open" => x.pending = {}
    /\ x.phase = "none" => u = <<>> /\ d = <<>> /\ x = NoSession
    /\ x.phase \in {"none", "hello"} => \A f \in Range(d) : ~IsCommand(f)

\* before it opens it learns a mark that no result on the way exceeds,
Greeting(x, u) == x.phase = "hello" => \A f \in Range(u) : IsResult(f) =>
    /\ x.authenticating => f.id =< x.resume
    /\ \A h \in Range(u) : h.kind = "hello" => f.id =< h.last

\* and then the results on the way fit the calls that wait.
Serving(x, u) == x.phase = "open" =>
    /\ ~x.authenticating
    /\ \A p \in x.pending : p.id < x.next
    /\ \A f \in Range(u) : IsResult(f) =>
          /\ f.id < x.next
          /\ \A p \in x.pending : p.id = f.id => f.outcome = p.call

Wire(x, u, d) == Quiet(x, u, d) /\ Greeting(x, u) /\ Serving(x, u)

\* On the device's own socket that mark is its last one, what it will execute or
\* remembers fits the calls that wait too,
Introduced(x, u, last) == x.phase = "hello" =>
    /\ x.authenticating => x.resume = last
    /\ \A h \in Range(u) : h.kind = "hello" => h.last = last

Executing(x, d, last, cmd, win) == x.phase = "open" =>
    /\ last < x.next
    /\ \A f \in Range(d) : IsCommand(f) =>
          /\ f.id < x.next
          /\ \A p \in x.pending : p.id = f.id => IsPerform(f) /\ f.call = p.call
    /\ \A p \in x.pending :
          /\ cmd[p.id].status # "unknown" => cmd[p.id].call = p.call
          /\ \A f \in Range(win) : f.id = p.id => f.outcome = p.call

Sorted(d) == \A m, n \in DOMAIN d :
    IsCommand(d[m]) /\ IsCommand(d[n]) /\ m < n => d[m].id < d[n].id

\* and its commands come in the order of their ids, none of them known before.
Ordered(u, d, last, cmd) ==
    /\ \A f \in Range(u) : f.kind # "goodbye" /\ (IsResult(f) => cmd[f.id].status = "settled")
    /\ \A f \in Range(d) : /\ IsCommand(f) => last < f.id
                           /\ IsAbort(f) => f.target < f.id
    /\ Sorted(d)

OwnWire(x, u, d, last, cmd, win) ==
    Introduced(x, u, last) /\ Executing(x, d, last, cmd, win) /\ Ordered(u, d, last, cmd)

Wires == \A c \in Sockets :
    /\ Wire(session[c], up[c], down[c])
    /\ runner.socket = c =>
         OwnWire(session[c], up[c], down[c], runner.last, command, window.frames)

\* Somebody waits for id i, or it is about to be stopped.
Attended(i, k, x, d, dead) ==
    \/ [id |-> i, call |-> k] \in x.pending
    \/ dead
    \/ \E f \in Range(d) : f.kind \in {"goodbye", "nack"} \/ (IsAbort(f) /\ f.target = i)

Attention ==
    /\ \A c \in Sockets : runner.socket = c => \A f \in Range(down[c]) :
          IsPerform(f) => Attended(f.id, f.call, session[c], down[c], c \in cut)
    /\ \A i \in InFlight : ~command[i].aborted =>
          LET c == runner.socket
          IN  c # 0 /\ Attended(i, command[i].call, session[c], down[c], c \in cut)

IInv == Typed /\ Counted /\ Waiting /\ Remembered /\ Stopped /\ Wires /\ Attention

-----------------------------------------------------------------------------
(* Numbers.                                                                 *)

LEMMA MaxOfTwo ==
  ASSUME NEW a \in Nat, NEW b \in Nat
  PROVE  Max({a, b}) \in {a, b} /\ Max({a, b}) >= a /\ Max({a, b}) >= b
<1>1. \E x \in {a, b} : \A y \in {a, b} : x >= y
  <2>1. CASE a >= b BY <2>1
  <2>2. CASE ~(a >= b) BY <2>2
  <2> QED BY <2>1, <2>2
<1> QED BY <1>1 DEF Max

LEMMA LeastIn ==
  ASSUME NEW S, S \subseteq Nat, S # {}
  PROVE  \E x \in S : \A y \in S : x <= y
<1>1. PICK x \in S : \A y \in S : ~(<<y, x>> \in OpToRel(<, Nat))
  BY NatLessThanWellFounded, WFMin, Zenon
<1>2. \A y \in S : x <= y
  <2> SUFFICES ASSUME NEW y \in S PROVE x <= y
    OBVIOUS
  <2>1. x \in Nat /\ y \in Nat
    OBVIOUS
  <2>2. ~(<<y, x>> \in OpToRel(<, Nat))
    BY <1>1, Zenon
  <2>3. ~(y < x)
    BY <2>1, <2>2 DEF OpToRel
  <2> QED BY ONLY <2>1, <2>3
<1> QED BY <1>2

\* The greatest element of a set is the least of its upper bounds.
LEMMA MaxIn ==
  ASSUME NEW n \in Nat, NEW S, S \subseteq 0..n, S # {}
  PROVE  Max(S) \in S /\ \A e \in S : Max(S) >= e
<1> DEFINE B == {m \in Nat : \A e \in S : m >= e}
<1>1. PICK x \in B : \A y \in B : x <= y
  <2> B \subseteq Nat /\ n \in B
    OBVIOUS
  <2> HIDE DEF B
  <2> QED BY LeastIn
<1>2. x \in S
  <2> SUFFICES ASSUME x \notin S PROVE FALSE
    OBVIOUS
  <2>1. PICK e \in S : TRUE
    OBVIOUS
  <2>2. \A f \in S : f \in Nat /\ f < x
    OBVIOUS
  <2>3. x - 1 \in B
    BY <2>1, <2>2
  <2> QED BY <1>1, <2>3
<1>3. \E y \in S : \A e \in S : y >= e
  BY <1>2
<1> QED BY <1>3 DEF Max

-----------------------------------------------------------------------------
(* Frames.                                                                  *)

LEMMA EmptyRange ==
  Range(<<>>) = {}
BY DEF Range

LEMMA OneFrame ==
  ASSUME NEW S, NEW x \in S
  PROVE  <<x>> \in Seq(S) /\ Range(<<x>>) = {x}
BY DEF Range

LEMMA RangeAppend ==
  ASSUME NEW S, NEW q \in Seq(S), NEW x \in S
  PROVE  Append(q, x) \in Seq(S) /\ Range(Append(q, x)) = Range(q) \cup {x}
<1>1. Append(q, x) \in Seq(S) /\ DOMAIN Append(q, x) = 1..(Len(q) + 1)
  OBVIOUS
<1>2. \A n \in 1..Len(q) : Append(q, x)[n] = q[n]
  OBVIOUS
<1>3. Append(q, x)[Len(q) + 1] = x /\ Len(q) + 1 \in DOMAIN Append(q, x)
  OBVIOUS
<1>4. DOMAIN q = 1..Len(q) /\ Len(q) \in Nat
  OBVIOUS
<1>5. Range(Append(q, x)) \subseteq Range(q) \cup {x}
  BY <1>1, <1>2, <1>3, <1>4 DEF Range
<1>6. Range(q) \cup {x} \subseteq Range(Append(q, x))
  BY <1>1, <1>2, <1>3, <1>4 DEF Range
<1> QED BY <1>1, <1>5, <1>6

LEMMA RangeTail ==
  ASSUME NEW S, NEW q \in Seq(S), q # <<>>
  PROVE  /\ Tail(q) \in Seq(S) /\ Range(Tail(q)) \subseteq Range(q)
         /\ Head(q) \in Range(q) /\ Head(q) \in S
<1>1. Tail(q) \in Seq(S) /\ Len(q) \in Nat \ {0} /\ DOMAIN q = 1..Len(q)
  OBVIOUS
<1>2. DOMAIN Tail(q) = 1..(Len(q) - 1) /\ \A n \in 1..(Len(q) - 1) : Tail(q)[n] = q[n + 1]
  OBVIOUS
<1>3. Range(Tail(q)) \subseteq Range(q)
  BY <1>1, <1>2 DEF Range
<1>4. Head(q) = q[1] /\ 1 \in DOMAIN q /\ q[1] \in S
  BY <1>1
<1> QED BY <1>1, <1>3, <1>4 DEF Range

LEMMA HeadOrTail ==
  ASSUME NEW S, NEW q \in Seq(S), q # <<>>
  PROVE  \A f \in Range(q) : f \in Range(Tail(q)) \/ f = Head(q)
<1> SUFFICES ASSUME NEW f \in Range(q) PROVE f \in Range(Tail(q)) \/ f = Head(q)
  OBVIOUS
<1>1. PICK n \in DOMAIN q : f = q[n]
  BY DEF Range
<1>2. CASE n = 1
  BY <1>1, <1>2
<1>3. CASE n # 1
  <2>1. n - 1 \in DOMAIN Tail(q) /\ Tail(q)[n - 1] = q[n]
    BY <1>3
  <2> QED BY <1>1, <2>1 DEF Range
<1> QED BY <1>2, <1>3

LEMMA RangeConcat ==
  ASSUME NEW S, NEW q \in Seq(S), NEW r \in Seq(S)
  PROVE  q \o r \in Seq(S) /\ Range(q \o r) \subseteq Range(q) \cup Range(r)
<1>1. q \o r \in Seq(S) /\ DOMAIN (q \o r) = 1..(Len(q) + Len(r))
  OBVIOUS
<1>2. \A n \in 1..(Len(q) + Len(r)) :
        (q \o r)[n] = IF n <= Len(q) THEN q[n] ELSE r[n - Len(q)]
  OBVIOUS
<1>3. Len(q) \in Nat /\ Len(r) \in Nat /\ DOMAIN q = 1..Len(q) /\ DOMAIN r = 1..Len(r)
  OBVIOUS
<1>4. ASSUME NEW n \in 1..(Len(q) + Len(r)) PROVE (q \o r)[n] \in Range(q) \cup Range(r)
  <2>1. CASE n <= Len(q)
    BY <2>1, <1>2, <1>3 DEF Range
  <2>2. CASE ~(n <= Len(q))
    <3>1. n - Len(q) \in DOMAIN r
      BY <2>2, <1>3
    <3> QED BY <2>2, <3>1, <1>2 DEF Range
  <2> QED BY <2>1, <2>2
<1> QED BY <1>1, <1>4 DEF Range

LEMMA RangeSubSeq ==
  ASSUME NEW S, NEW q \in Seq(S), NEW m \in Nat \ {0}
  PROVE  SubSeq(q, m, Len(q)) \in Seq(S) /\ Range(SubSeq(q, m, Len(q))) \subseteq Range(q)
<1>1. \A n \in m..Len(q) : q[n] \in S /\ n \in DOMAIN q
  OBVIOUS
<1>2. SubSeq(q, m, Len(q)) \in Seq(S)
  OBVIOUS
<1>3. ASSUME NEW n \in DOMAIN SubSeq(q, m, Len(q))
      PROVE  SubSeq(q, m, Len(q))[n] \in Range(q)
  <2>1. SubSeq(q, m, Len(q))[n] = q[m + n - 1] /\ m + n - 1 \in m..Len(q)
    OBVIOUS
  <2> QED BY <2>1, <1>1 DEF Range
<1> QED BY <1>2, <1>3 DEF Range

LEMMA SortedTail ==
  ASSUME NEW S, NEW d \in Seq(S), d # <<>>, Sorted(d)
  PROVE  /\ Sorted(Tail(d))
         /\ \A f \in Range(Tail(d)) : IsCommand(Head(d)) /\ IsCommand(f) => Head(d).id < f.id
<1>1. Len(d) \in Nat \ {0} /\ DOMAIN d = 1..Len(d) /\ Head(d) = d[1]
  OBVIOUS
<1>2. DOMAIN Tail(d) = 1..(Len(d) - 1) /\ \A n \in 1..(Len(d) - 1) : Tail(d)[n] = d[n + 1]
  OBVIOUS
<1>3. \A n \in 1..(Len(d) - 1) : n + 1 \in DOMAIN d /\ 1 < n + 1 /\ 1 \in DOMAIN d
  BY <1>1
<1>4. Sorted(Tail(d))
  BY <1>1, <1>2, <1>3 DEF Sorted
<1>5. ASSUME NEW f \in Range(Tail(d)), IsCommand(Head(d)), IsCommand(f)
      PROVE  Head(d).id < f.id
  <2>1. PICK n \in 1..(Len(d) - 1) : f = d[n + 1]
    BY <1>2 DEF Range
  <2> QED BY <1>1, <1>3, <1>5, <2>1 DEF Sorted
<1> QED BY <1>4, <1>5

LEMMA SortedAppend ==
  ASSUME NEW S, NEW d \in Seq(S), NEW x \in S, Sorted(d),
         \A f \in Range(d) : IsCommand(f) /\ IsCommand(x) => f.id < x.id
  PROVE  Sorted(Append(d, x))
<1>1. DOMAIN Append(d, x) = 1..(Len(d) + 1) /\ Len(d) \in Nat /\ DOMAIN d = 1..Len(d)
  OBVIOUS
<1>2. \A n \in 1..Len(d) : Append(d, x)[n] = d[n] /\ d[n] \in Range(d)
  BY DEF Range
<1>3. Append(d, x)[Len(d) + 1] = x
  OBVIOUS
<1> SUFFICES ASSUME NEW m \in 1..(Len(d) + 1), NEW n \in 1..(Len(d) + 1), m < n,
                    IsCommand(Append(d, x)[m]), IsCommand(Append(d, x)[n])
             PROVE  Append(d, x)[m].id < Append(d, x)[n].id
  BY <1>1 DEF Sorted
<1>4. m \in 1..Len(d)
  BY <1>1
<1>5. CASE n \in 1..Len(d)
  BY <1>1, <1>2, <1>4, <1>5 DEF Sorted
<1>6. CASE n = Len(d) + 1
  BY <1>2, <1>3, <1>4, <1>6
<1> QED BY <1>1, <1>5, <1>6

LEMMA UpKinds ==
  ASSUME NEW f \in UpFrames
  PROVE  /\ f.kind \in {"hello", "goodbye", "result"}
         /\ IsResult(f) => f \in ResultFrames /\ f.id \in Ids /\ f.outcome \in Outcomes
                              /\ f.cursor \in Nat
         /\ f.kind = "hello" => f.last \in Ids \cup {0}
BY DEF UpFrames, ResultFrames, IsResult

LEMMA DownKinds ==
  ASSUME NEW f \in DownFrames
  PROVE  /\ IsCommand(f) => f.id \in Ids /\ (IsAbort(f) \/ IsPerform(f))
         /\ IsAbort(f) => f.target \in Ids /\ ~IsPerform(f)
         /\ IsPerform(f) => f.call \in Calls
         /\ f.kind = "welcome" => f.from \in Nat \ {0}
         /\ f.kind = "ack" => f.cursor \in Nat \ {0}
BY DEF DownFrames, IsCommand, IsAbort, IsPerform

LEMMA AfterKeeps ==
  ASSUME Typed, NEW n \in Nat
  PROVE  After(n) \in Seq(ResultFrames) /\ Range(After(n)) \subseteq Range(window.frames)
<1> DEFINE first == Len(window.frames) - (window.cursor - n) + 1
           m == IF first < 1 THEN 1 ELSE first
<1>1. window.frames \in Seq(ResultFrames) /\ window.cursor \in Nat
  BY DEF Typed
<1>2. Len(window.frames) \in Nat
  BY <1>1
<1>3. m \in Nat \ {0}
  BY <1>1, <1>2
<1>4. After(n) = SubSeq(window.frames, m, Len(window.frames))
  BY DEF After
<1> HIDE DEF m
<1> QED BY <1>1, <1>3, <1>4, RangeSubSeq

LEMMA FramesTyped ==
  ASSUME Typed
  PROVE  /\ \A f \in Range(window.frames) :
              f \in ResultFrames /\ f \in UpFrames /\ IsResult(f) /\ f.id \in Ids
         /\ \A c \in Sockets : /\ \A f \in Range(up[c]) : f \in UpFrames
                              /\ \A f \in Range(down[c]) : f \in DownFrames
<1>1. window.frames \in Seq(ResultFrames)
  BY DEF Typed
<1>2. \A f \in Range(window.frames) : f \in ResultFrames
  BY <1>1 DEF Range
<1>3. \A f \in ResultFrames : f \in UpFrames /\ IsResult(f) /\ f.id \in Ids
  BY DEF ResultFrames, UpFrames, IsResult
<1>4. \A c \in Sockets : up[c] \in Seq(UpFrames) /\ down[c] \in Seq(DownFrames)
  BY DEF Typed
<1>5. \A c \in Sockets : /\ \A f \in Range(up[c]) : f \in UpFrames
                        /\ \A f \in Range(down[c]) : f \in DownFrames
  BY <1>4 DEF Range
<1> QED BY <1>2, <1>3, <1>5

\* What a send adds at the end that it reaches.
LEMMA SentUp ==
  ASSUME Typed, NEW c, NEW fs \in Seq(UpFrames)
  PROVE  /\ SendUp(up, c, fs) \in [Sockets -> Seq(UpFrames)]
         /\ \A d \in Sockets :
              /\ Range(SendUp(up, c, fs)[d]) \subseteq Range(up[d]) \cup Range(fs)
              /\ d # c => SendUp(up, c, fs)[d] = up[d]
<1>1. up \in [Sockets -> Seq(UpFrames)]
  BY DEF Typed
<1>2. CASE Hears(c) /\ c \in Sockets
  <2>1. SendUp(up, c, fs) = [up EXCEPT ![c] = up[c] \o fs]
    BY <1>2 DEF SendUp
  <2>2. up[c] \o fs \in Seq(UpFrames) /\ Range(up[c] \o fs) \subseteq Range(up[c]) \cup Range(fs)
    BY <1>1, <1>2, RangeConcat
  <2> QED BY <1>1, <1>2, <2>1, <2>2
<1>3. CASE ~Hears(c)
  BY <1>1, <1>3 DEF SendUp
<1>4. CASE Hears(c) /\ c \notin Sockets
  <2>1. SendUp(up, c, fs) = [up EXCEPT ![c] = @ \o fs]
    BY <1>4 DEF SendUp
  <2>2. SendUp(up, c, fs) = up
    BY <1>1, <1>4, <2>1
  <2> QED BY <1>1, <2>2
<1> QED BY <1>2, <1>3, <1>4

LEMMA SentDown ==
  ASSUME Typed, NEW c \in Sockets, NEW f \in DownFrames
  PROVE  /\ SendDown(down, c, f) \in [Sockets -> Seq(DownFrames)]
         /\ \A d \in Sockets : d # c => SendDown(down, c, f)[d] = down[d]
         /\ SendDown(down, c, f)[c] = IF runner.socket = c /\ c \notin cut
                                      THEN Append(down[c], f) ELSE down[c]
<1>1. down \in [Sockets -> Seq(DownFrames)] /\ c # 0
  BY DEF Typed, Sockets
<1>2. Append(down[c], f) \in Seq(DownFrames)
  BY <1>1
<1> QED BY <1>1, <1>2 DEF SendDown, Reaches

\* A frame that arrives is taken off its wire.
LEMMA Popped ==
  ASSUME Typed, NEW c, NEW kind
  PROVE  /\ Arrives(up, c, kind) /\ c \in Sockets =>
              /\ Pop(up, c) = [up EXCEPT ![c] = Tail(up[c])]
              /\ Pop(up, c) \in [Sockets -> Seq(UpFrames)]
              /\ Range(Tail(up[c])) \subseteq Range(up[c])
              /\ Head(up[c]) \in Range(up[c]) /\ Head(up[c]) \in UpFrames
         /\ Arrives(down, c, kind) /\ c \in Sockets =>
              /\ Pop(down, c) = [down EXCEPT ![c] = Tail(down[c])]
              /\ Pop(down, c) \in [Sockets -> Seq(DownFrames)]
              /\ Range(Tail(down[c])) \subseteq Range(down[c])
              /\ Head(down[c]) \in Range(down[c]) /\ Head(down[c]) \in DownFrames
              /\ Sorted(down[c]) => Sorted(Tail(down[c]))
<1>1. up \in [Sockets -> Seq(UpFrames)] /\ down \in [Sockets -> Seq(DownFrames)]
  BY DEF Typed
<1>2. ASSUME Arrives(up, c, kind), c \in Sockets
      PROVE  /\ Tail(up[c]) \in Seq(UpFrames)
             /\ Range(Tail(up[c])) \subseteq Range(up[c])
             /\ Head(up[c]) \in Range(up[c]) /\ Head(up[c]) \in UpFrames
  BY <1>1, <1>2, RangeTail DEF Arrives
<1>3. ASSUME Arrives(down, c, kind), c \in Sockets
      PROVE  /\ Tail(down[c]) \in Seq(DownFrames)
             /\ Range(Tail(down[c])) \subseteq Range(down[c])
             /\ Head(down[c]) \in Range(down[c]) /\ Head(down[c]) \in DownFrames
             /\ Sorted(down[c]) => Sorted(Tail(down[c]))
  BY <1>1, <1>3, RangeTail, SortedTail DEF Arrives
<1> QED BY <1>1, <1>2, <1>3 DEF Pop

-----------------------------------------------------------------------------
(* Ids.                                                                     *)

LEMMA CallsFinite ==
  ASSUME NEW a
  PROVE  /\ IsFiniteSet(Made(a)) /\ IsFiniteSet(Aborted(a))
         /\ Cardinality(Made(a)) \in Nat /\ Cardinality(Aborted(a)) \in Nat
         /\ Cardinality(Made(a)) =< MaxCalls /\ Issued(a) \in Nat
<1>1. IsFiniteSet(Calls) /\ Cardinality(Calls) = MaxCalls
  BY FS_Interval, RunnerLinkAssumption DEF Calls
<1>2. Made(a) \subseteq Calls /\ Aborted(a) \subseteq Calls
  BY DEF Made, Aborted
<1>3. /\ IsFiniteSet(Made(a)) /\ IsFiniteSet(Aborted(a))
      /\ Cardinality(Made(a)) =< MaxCalls
  BY <1>1, <1>2, FS_Subset
<1>4. Cardinality(Made(a)) \in Nat /\ Cardinality(Aborted(a)) \in Nat
  BY <1>3, FS_CardinalityType
<1> QED BY <1>3, <1>4 DEF Issued

\* What was made stays made, what was aborted stays aborted.
Continues(a, b) ==
    /\ Made(a) \subseteq Made(b) /\ Aborted(a) \subseteq Aborted(b)

LEMMA IssuedGrows ==
  ASSUME NEW a, NEW b, Continues(a, b)
  PROVE  /\ Issued(a) =< Issued(b)
         /\ Made(a) # Made(b) \/ Aborted(a) # Aborted(b) => Issued(a) + 1 =< Issued(b)
<1>1. /\ IsFiniteSet(Made(a)) /\ IsFiniteSet(Aborted(a))
      /\ IsFiniteSet(Made(b)) /\ IsFiniteSet(Aborted(b))
      /\ Cardinality(Made(a)) \in Nat /\ Cardinality(Aborted(a)) \in Nat
      /\ Cardinality(Made(b)) \in Nat /\ Cardinality(Aborted(b)) \in Nat
  BY CallsFinite
<1>2. /\ Cardinality(Made(a)) =< Cardinality(Made(b))
      /\ Cardinality(Made(a)) = Cardinality(Made(b)) => Made(a) = Made(b)
  BY <1>1, FS_Subset DEF Continues
<1>3. /\ Cardinality(Aborted(a)) =< Cardinality(Aborted(b))
      /\ Cardinality(Aborted(a)) = Cardinality(Aborted(b)) => Aborted(a) = Aborted(b)
  BY <1>1, FS_Subset DEF Continues
<1> QED BY <1>1, <1>2, <1>3 DEF Issued

-----------------------------------------------------------------------------
(* One wire.                                                                *)

\* It stays in order when frames leave it,
LEMMA WireShrinks ==
  ASSUME NEW x, NEW u, NEW d, NEW u2, NEW d2, Wire(x, u, d),
         Range(u2) \subseteq Range(u), Range(d2) \subseteq Range(d),
         x.phase = "none" => u2 = <<>> /\ d2 = <<>>
  PROVE  Wire(x, u2, d2)
<1>1. Quiet(x, u2, d2)
  BY DEF Wire, Quiet
<1>2. Greeting(x, u2)
  BY DEF Wire, Greeting
<1>3. Serving(x, u2)
  BY DEF Wire, Serving
<1> QED BY <1>1, <1>2, <1>3 DEF Wire

LEMMA OwnWireShrinks ==
  ASSUME NEW x, NEW u, NEW d, NEW u2, NEW d2, NEW last, NEW cmd, NEW win, NEW win2,
         OwnWire(x, u, d, last, cmd, win), Range(u2) \subseteq Range(u),
         Range(d2) \subseteq Range(d), Sorted(d) => Sorted(d2),
         Range(win2) \subseteq Range(win)
  PROVE  OwnWire(x, u2, d2, last, cmd, win2)
<1>1. Introduced(x, u2, last)
  BY DEF OwnWire, Introduced
<1>2. Executing(x, d2, last, cmd, win2)
  BY DEF OwnWire, Executing
<1>3. Ordered(u2, d2, last, cmd)
  BY DEF OwnWire, Ordered
<1> QED BY <1>1, <1>2, <1>3 DEF OwnWire

\* when the Worker sends what is not a command,
LEMMA WireTold ==
  ASSUME NEW x, NEW u, NEW d \in Seq(DownFrames), NEW f \in DownFrames, ~IsCommand(f),
         x.phase # "none", Wire(x, u, d)
  PROVE  Wire(x, u, Append(d, f))
<1>1. Range(Append(d, f)) = Range(d) \cup {f}
  BY RangeAppend
<1> QED BY <1>1 DEF Wire, Quiet

LEMMA OwnWireTold ==
  ASSUME NEW x, NEW u, NEW d \in Seq(DownFrames), NEW f \in DownFrames, ~IsCommand(f),
         NEW last, NEW cmd, NEW win, OwnWire(x, u, d, last, cmd, win)
  PROVE  OwnWire(x, u, Append(d, f), last, cmd, win)
<1>1. Range(Append(d, f)) = Range(d) \cup {f}
  BY RangeAppend
<1>2. Executing(x, Append(d, f), last, cmd, win)
  BY <1>1 DEF OwnWire, Executing
<1>3. Ordered(u, Append(d, f), last, cmd)
  <2>1. Ordered(u, d, last, cmd)
    BY DEF OwnWire
  <2>2. Sorted(Append(d, f))
    BY <2>1, SortedAppend DEF Ordered
  <2>3. \A g \in Range(Append(d, f)) : /\ IsCommand(g) => last < g.id
                                       /\ IsAbort(g) => g.target < g.id
    BY <1>1, <2>1 DEF Ordered, IsAbort
  <2> QED BY <2>1, <2>2, <2>3 DEF Ordered
<1> QED BY <1>2, <1>3 DEF OwnWire

\* and when it closes its session.
LEMMA WireCloses ==
  ASSUME NEW x, NEW y, NEW u, NEW d, y.phase = "closed", y.pending = {}, Wire(x, u, d)
  PROVE  Wire(y, u, d)
BY DEF Wire, Quiet, Greeting, Serving

LEMMA OwnWireCloses ==
  ASSUME NEW x, NEW y, NEW u, NEW d, NEW last, NEW cmd, NEW win, y.phase = "closed",
         OwnWire(x, u, d, last, cmd, win)
  PROVE  OwnWire(y, u, d, last, cmd, win)
BY DEF OwnWire, Introduced, Executing

\* The frames of Issued: fewer of them, or more ids issued, changes nothing.
LEMMA BelowMore ==
  ASSUME NEW n \in Nat, NEW m \in Nat, n =< m, NEW x \in Sessions,
         NEW u \in Seq(UpFrames), NEW d \in Seq(DownFrames), NEW u2, NEW d2,
         BelowIssued(n, x, u, d), Range(u2) \subseteq Range(u), Range(d2) \subseteq Range(d)
  PROVE  BelowIssued(m, x, u2, d2)
<1>1. \A f \in Range(u) : f.kind = "hello" => f.last \in Nat
  <2>1. \A f \in Range(u) : f \in UpFrames
    BY DEF Range
  <2> QED BY <2>1, UpKinds DEF Ids
<1>2. \A f \in Range(d) : IsCommand(f) => f.id \in Nat
  <2>1. \A f \in Range(d) : f \in DownFrames
    BY DEF Range
  <2> QED BY <2>1, DownKinds DEF Ids
<1>3. x.next \in Nat /\ x.resume \in Nat
  BY DEF Sessions, Ids
<1> QED BY <1>1, <1>2, <1>3 DEF BelowIssued

-----------------------------------------------------------------------------
(* The wire and the device.                                                 *)

LEMMA DropStep ==
  ASSUME IInv, NEW c \in Sockets, drop(c)
  PROVE  IInv'
<1>1. /\ cut' = cut \cup {c}
      /\ up' = [up EXCEPT ![c] = <<>>] /\ down' = [down EXCEPT ![c] = <<>>]
      /\ UNCHANGED <<runner, command, window, journal, session, gateway, answer>>
  BY DEF drop, runnerVars, hostVars
<1>2. Typed'
  BY <1>1 DEF IInv, Typed, InFlight
<1>3. /\ Range(<<>>) = {} /\ \A d \in Sockets :
            /\ Range(up'[d]) \subseteq Range(up[d]) /\ Range(down'[d]) \subseteq Range(down[d])
            /\ Sorted(down[d]) => Sorted(down'[d])
            /\ down'[d] = down[d] \/ d \in cut'
            /\ up[d] = <<>> => up'[d] = <<>>
            /\ down[d] = <<>> => down'[d] = <<>>
  BY <1>1, EmptyRange DEF IInv, Typed, Sorted
<1>4. Counted'
  BY <1>1, <1>3 DEF IInv, Counted, BelowIssued
<1>5. Waiting' /\ Remembered' /\ Stopped'
  BY <1>1 DEF IInv, Waiting, Remembered, Stopped, InFlight
<1>6. Wires'
  <2>1. ASSUME NEW d \in Sockets PROVE Wire(session[d], up'[d], down'[d])
    <3>1. Wire(session[d], up[d], down[d])
      BY DEF IInv, Wires
    <3>2. session[d].phase = "none" => up'[d] = <<>> /\ down'[d] = <<>>
      BY <1>3, <3>1 DEF Wire, Quiet
    <3> QED BY <1>3, <3>1, <3>2, WireShrinks
  <2>2. ASSUME NEW d \in Sockets, runner.socket = d
        PROVE  OwnWire(session[d], up'[d], down'[d], runner.last, command, window.frames)
    BY <1>3, <2>2, OwnWireShrinks DEF IInv, Wires
  <2> QED BY <1>1, <2>1, <2>2 DEF Wires
<1>7. Attention'
  BY <1>1, <1>3, EmptyRange DEF IInv, Attention, Attended, InFlight
<1> QED BY <1>2, <1>4, <1>5, <1>6, <1>7 DEF IInv

LEMMA Disconnected ==
  ASSUME Typed, disconnect
  PROVE  /\ command' \in [Ids -> Commands]
         /\ \A i \in Ids : /\ command'[i].status = command[i].status
                           /\ command'[i].call = command[i].call
         /\ InFlight' = InFlight /\ \A i \in InFlight' : command'[i].aborted
<1>1. command \in [Ids -> Commands]
  BY DEF Typed
<1>2. ASSUME NEW i \in Ids
      PROVE  /\ command'[i] \in Commands
             /\ command'[i].status = command[i].status
             /\ command'[i].call = command[i].call
             /\ i \in InFlight => command'[i].aborted
  BY <1>1 DEF disconnect, Commands
<1>3. InFlight' = InFlight
  BY <1>2 DEF InFlight
<1>4. InFlight \subseteq Ids
  BY DEF InFlight
<1> QED BY <1>2, <1>3, <1>4 DEF disconnect

\* The device leaves its socket, and says goodbye or not.
LEMMA LeavesStep ==
  ASSUME IInv, disconnect, runner' \in Runners, runner'.socket = 0, ~runner'.welcomed,
         runner'.last = runner.last,
         UNCHANGED <<window, journal, session, gateway, answer, cut>>,
         up' \in [Sockets -> Seq(UpFrames)], down' \in [Sockets -> Seq(DownFrames)],
         \A d \in Sockets :
            /\ \A f \in Range(up'[d]) : f \in Range(up[d]) \/ f.kind = "goodbye"
            /\ Range(down'[d]) \subseteq Range(down[d])
            /\ session[d].phase = "none" => up'[d] = up[d] /\ down'[d] = down[d]
  PROVE  IInv'
<1>1. /\ command' \in [Ids -> Commands]
      /\ \A i \in Ids : /\ command'[i].status = command[i].status
                        /\ command'[i].call = command[i].call
      /\ InFlight' = InFlight /\ \A i \in InFlight' : command'[i].aborted
  BY Disconnected DEF IInv
<1>2. InFlight \subseteq Ids /\ 0 \notin Sockets
  BY DEF InFlight, Sockets
<1>3. Typed'
  BY <1>1, <1>2 DEF IInv, Typed
<1>4. Counted'
  BY DEF IInv, Counted, BelowIssued
<1>5. Waiting'
  BY DEF IInv, Waiting
<1>6. Remembered'
  <2>1. \A f \in Range(window.frames) : f.id \in Ids
    BY FramesTyped DEF IInv
  <2> QED BY <1>1, <2>1 DEF IInv, Remembered
<1>7. Stopped'
  BY <1>1 DEF IInv, Stopped
<1>8. Wires'
  <2> SUFFICES ASSUME NEW d \in Sockets PROVE Wire(session[d], up'[d], down'[d])
    BY <1>2 DEF Wires
  <2>1. Wire(session[d], up[d], down[d])
    BY DEF IInv, Wires
  <2>2. Quiet(session[d], up'[d], down'[d])
    BY <2>1 DEF Wire, Quiet
  <2>3. Greeting(session[d], up'[d])
    BY <2>1 DEF Wire, Greeting, IsResult
  <2>4. Serving(session[d], up'[d])
    BY <2>1 DEF Wire, Serving, IsResult
  <2> QED BY <2>2, <2>3, <2>4 DEF Wire
<1>9. Attention'
  BY <1>1, <1>2 DEF Attention
<1> QED BY <1>3, <1>4, <1>5, <1>6, <1>7, <1>8, <1>9 DEF IInv

LEMMA OfflineRunner ==
  ASSUME Typed, NEW code
  PROVE  /\ Offline(code) \in Runners /\ Offline(code).socket = 0
         /\ ~Offline(code).welcomed /\ Offline(code).last = runner.last
BY DEF Typed, Offline, Runners

LEMMA RunnerNoticesStep ==
  ASSUME IInv, runnerNotices
  PROVE  IInv'
<1>1. disconnect /\ runner' = Offline(RunnerCloseCode.shutdown)
      /\ UNCHANGED <<window, journal, session, gateway, answer, up, down, cut>>
  BY DEF runnerNotices, hostVars, wireVars
<1>2. up' \in [Sockets -> Seq(UpFrames)] /\ down' \in [Sockets -> Seq(DownFrames)]
  BY <1>1 DEF IInv, Typed
<1> QED BY <1>1, <1>2, OfflineRunner, LeavesStep DEF IInv

LEMMA CloseRunnerStep ==
  ASSUME IInv, NEW c \in Sockets, c = runner.socket, NEW code, closeRunner(c, code)
  PROVE  IInv'
<1> DEFINE fs == <<[kind |-> "goodbye"]>>
<1>1. /\ disconnect /\ runner' = [Offline(code) EXCEPT !.terminated = TRUE]
      /\ up' = SendUp(up, c, fs) /\ down' = [down EXCEPT ![c] = <<>>]
      /\ UNCHANGED <<window, journal, session, gateway, answer, cut>>
  BY DEF closeRunner, hostVars
<1>2. runner' \in Runners /\ runner'.socket = 0 /\ ~runner'.welcomed
      /\ runner'.last = runner.last
  BY <1>1, OfflineRunner DEF IInv, Runners
<1>3. fs \in Seq(UpFrames) /\ \A f \in Range(fs) : f.kind = "goodbye"
  <2>1. [kind |-> "goodbye"] \in UpFrames
    BY DEF UpFrames
  <2> QED BY <2>1, OneFrame
<1> HIDE DEF fs
<1>4. /\ up' \in [Sockets -> Seq(UpFrames)]
      /\ \A d \in Sockets : /\ Range(up'[d]) \subseteq Range(up[d]) \cup Range(fs)
                            /\ d # c => up'[d] = up[d]
  BY <1>1, <1>3, SentUp DEF IInv
<1>5. /\ down' \in [Sockets -> Seq(DownFrames)]
      /\ \A d \in Sockets : /\ Range(down'[d]) \subseteq Range(down[d])
                            /\ d # c => down'[d] = down[d]
  BY <1>1, EmptyRange DEF IInv, Typed
<1>6. session[c].phase # "none"
  BY DEF IInv, Stopped, Sockets
<1> QED BY <1>1, <1>2, <1>3, <1>4, <1>5, <1>6, LeavesStep

LEMMA GoodbyeStep ==
  ASSUME IInv, goodbye
  PROVE  IInv'
<1>1. PICK code : closeRunner(runner.socket, code) /\ runner.socket # 0
  BY DEF goodbye, Arrives
<1>2. runner.socket \in Sockets
  BY <1>1 DEF IInv, Typed, Runners
<1> QED BY <1>1, <1>2, CloseRunnerStep

LEMMA ConnectStep ==
  ASSUME IInv, NEW c \in Sockets, connect(c)
  PROVE  IInv'
<1>1. /\ runner.retry /\ session[c].phase = "none"
      /\ UNCHANGED <<command, window, journal, gateway, answer, down, cut>>
  BY DEF connect
<1>2. runner.socket = 0 /\ 0 \notin Sockets
  BY <1>1 DEF IInv, Stopped, Sockets
<1>3. CASE runner.terminated
  <2>1. runner' = [runner EXCEPT !.retry = FALSE] /\ UNCHANGED <<session, up>>
    BY <1>3 DEF connect
  <2>2. Typed'
    BY <1>1, <2>1 DEF IInv, Typed, Runners, InFlight
  <2>3. /\ runner'.socket = runner.socket /\ runner'.last = runner.last
        /\ runner'.welcomed = runner.welcomed /\ ~runner'.retry
    BY <2>1 DEF IInv, Typed, Runners
  <2>4. Counted' /\ Waiting' /\ Remembered' /\ Stopped'
    BY <1>1, <2>1, <2>3
    DEF IInv, Counted, BelowIssued, Waiting, Remembered, Stopped, InFlight
  <2>5. Wires'
    BY <1>1, <2>1, <2>3 DEF IInv, Wires
  <2>6. Attention'
    BY <1>1, <2>1, <2>3 DEF IInv, Attention, InFlight
  <2> QED BY <2>2, <2>4, <2>5, <2>6 DEF IInv
<1>4. CASE ~runner.terminated
  <2> DEFINE h == [kind |-> "hello", last |-> runner.last]
  <2>1. /\ runner' = [runner EXCEPT !.retry = FALSE, !.socket = c]
        /\ session' = [session EXCEPT ![c].phase = "hello"]
        /\ up' = [up EXCEPT ![c] = <<h>>]
    BY <1>4 DEF connect, upgrade
  <2>2. h \in UpFrames /\ h.kind = "hello" /\ h.last = runner.last
    BY DEF UpFrames, IInv, Typed, Runners
  <2> HIDE DEF h
  <2>3. <<h>> \in Seq(UpFrames) /\ Range(<<h>>) = {h}
    BY <2>2, OneFrame
  <2>4. /\ runner'.socket = c /\ runner'.last = runner.last /\ ~runner'.retry
        /\ runner'.welcomed = runner.welcomed /\ runner' \in Runners
    BY <2>1 DEF IInv, Typed, Runners
  <2>5. /\ session'[c].phase = "hello" /\ session'[c].pending = session[c].pending
        /\ session'[c].authenticating = session[c].authenticating
        /\ session'[c].resume = session[c].resume
        /\ up'[c] = <<h>>
        /\ \A d \in Sockets : d # c => session'[d] = session[d] /\ up'[d] = up[d]
    BY <2>1 DEF IInv, Typed, Sessions
  <2>6. Typed'
    <3>1. session' \in [Sockets -> Sessions]
      <4>1. [session[c] EXCEPT !.phase = "hello"] \in Sessions
        BY DEF IInv, Typed, Sessions
      <4> QED BY <2>1, <4>1 DEF IInv, Typed
    <3>2. up' \in [Sockets -> Seq(UpFrames)]
      BY <2>1, <2>3 DEF IInv, Typed
    <3> QED BY <1>1, <2>4, <3>1, <3>2 DEF IInv, Typed, InFlight
  <2>7. Counted'
    <3>1. runner.last =< Issued(answer)
      BY DEF IInv, Counted
    <3>2. BelowIssued(Issued(answer), session'[c], up'[c], down[c])
      BY <2>2, <2>3, <2>5, <3>1 DEF IInv, Counted, BelowIssued
    <3>3. \A d \in Sockets : d # c =>
             BelowIssued(Issued(answer), session'[d], up'[d], down[d])
      BY <2>5 DEF IInv, Counted
    <3> QED BY <1>1, <2>4, <3>2, <3>3 DEF IInv, Counted
  <2>8. Waiting'
    <3>1. \A d \in Sockets : session'[d].pending = session[d].pending
      BY <2>5
    <3> QED BY <1>1, <3>1 DEF IInv, Waiting
  <2>9. Remembered' /\ Stopped'
    BY <1>1, <2>4, <2>5 DEF IInv, Remembered, Stopped, InFlight
  <2>10. Wire(session[c], up[c], down[c])
    BY DEF IInv, Wires
  <2>11. Wires'
    <3>1. Quiet(session'[c], up'[c], down[c])
      BY <1>1, <2>5, <2>10, EmptyRange DEF Wire, Quiet
    <3>2. Greeting(session'[c], up'[c])
      BY <2>2, <2>3, <2>5 DEF Greeting, IsResult
    <3>3. Introduced(session'[c], up'[c], runner.last)
      BY <1>1, <2>2, <2>3, <2>5, <2>10 DEF Wire, Quiet, Introduced, NoSession
    <3>4. Ordered(up'[c], down[c], runner.last, command)
      BY <1>1, <2>2, <2>3, <2>5, <2>10, EmptyRange
      DEF Wire, Quiet, Ordered, Sorted, IsResult
    <3>5. Wire(session'[c], up'[c], down[c])
      BY <2>5, <3>1, <3>2 DEF Wire, Serving
    <3>6. OwnWire(session'[c], up'[c], down[c], runner.last, command, window.frames)
      BY <2>5, <3>3, <3>4 DEF OwnWire, Executing
    <3>7. \A d \in Sockets : d # c => Wire(session'[d], up'[d], down[d])
      BY <2>5 DEF IInv, Wires
    <3> QED BY <1>1, <2>4, <3>5, <3>6, <3>7 DEF Wires
  <2>12. Attention'
    <3>1. Range(down[c]) = {}
      BY <1>1, <2>10, EmptyRange DEF Wire, Quiet
    <3>2. \A i \in InFlight : command[i].aborted
      BY <1>2 DEF IInv, Attention
    <3> QED BY <1>1, <2>4, <3>1, <3>2 DEF Attention, InFlight
  <2> QED BY <2>6, <2>7, <2>8, <2>9, <2>11, <2>12 DEF IInv
<1> QED BY <1>3, <1>4

\* The device takes one frame that is not a command.
LEMMA TakesStep ==
  ASSUME IInv, NEW c \in Sockets, c = runner.socket, down[c] # <<>>,
         Head(down[c]).kind \in {"welcome", "ack"},
         down' = [down EXCEPT ![c] = Tail(down[c])],
         runner' \in Runners, runner'.socket = c, runner'.last = runner.last,
         runner'.retry = runner.retry, runner.welcomed => runner'.welcomed,
         window' \in [frames: Seq(ResultFrames), cursor: Nat],
         Range(window'.frames) \subseteq Range(window.frames),
         up' \in [Sockets -> Seq(UpFrames)],
         \A d \in Sockets : d # c => up'[d] = up[d],
         Range(up'[c]) \subseteq Range(up[c]) \cup Range(window.frames),
         UNCHANGED <<command, journal, session, gateway, answer, cut>>
  PROVE  IInv'
<1>1. /\ Tail(down[c]) \in Seq(DownFrames)
      /\ Range(Tail(down[c])) \subseteq Range(down[c])
      /\ \A f \in Range(down[c]) : f \in Range(Tail(down[c])) \/ f = Head(down[c])
      /\ Sorted(down[c]) => Sorted(Tail(down[c]))
  <2>1. down[c] \in Seq(DownFrames)
    BY DEF IInv, Typed
  <2> QED BY <2>1, RangeTail, HeadOrTail, SortedTail
<1>2. down' \in [Sockets -> Seq(DownFrames)] /\ down'[c] = Tail(down[c])
      /\ \A d \in Sockets : d # c => down'[d] = down[d]
  BY <1>1 DEF IInv, Typed
<1>3. session[c].phase # "none"
  BY DEF IInv, Stopped, Sockets
<1>4. \A f \in Range(window.frames) : f.kind = "result" /\ IsResult(f)
  BY FramesTyped DEF IInv, IsResult
<1>5. Typed'
  BY <1>2 DEF IInv, Typed, InFlight
<1>6. Counted'
  <2>1. \A d \in Sockets : \A f \in Range(up'[d]) : f \in Range(up[d]) \/ f.kind = "result"
    BY <1>4
  <2>2. \A d \in Sockets : Range(down'[d]) \subseteq Range(down[d])
    BY <1>1, <1>2
  <2> QED BY <2>1, <2>2 DEF IInv, Counted, BelowIssued
<1>7. Waiting' /\ Remembered' /\ Stopped'
  BY DEF IInv, Waiting, Remembered, Stopped, InFlight
<1>8. Wire(session[c], up[c], down[c])
      /\ OwnWire(session[c], up[c], down[c], runner.last, command, window.frames)
  BY DEF IInv, Wires
<1>9. Wire(session[c], up'[c], down'[c])
      /\ OwnWire(session[c], up'[c], down'[c], runner.last, command, window'.frames)
  <2>1. Wire(session[c], up[c], down'[c])
    BY <1>1, <1>2, <1>3, <1>8, WireShrinks
  <2>2. OwnWire(session[c], up[c], down'[c], runner.last, command, window.frames)
    BY <1>1, <1>2, <1>8, OwnWireShrinks
  <2>3. \A f \in Range(window.frames) :
           f.id \in Ids /\ command[f.id].status = "settled" /\ f.id =< runner.last
    BY FramesTyped DEF IInv, Remembered
  <2>4. Greeting(session[c], up'[c]) /\ Introduced(session[c], up'[c], runner.last)
    BY <1>4, <2>1, <2>2, <2>3 DEF Wire, OwnWire, Greeting, Introduced, IsResult
  <2>5. Serving(session[c], up'[c])
    <3>1. runner.last \in Nat /\ session[c].next \in Nat
      BY DEF IInv, Typed, Runners, Ids, Sessions
    <3>2. \A f \in Range(window.frames) : f.id \in Nat
      BY FramesTyped DEF IInv, Ids
    <3> QED BY <2>1, <2>2, <2>3, <3>1, <3>2 DEF Wire, OwnWire, Serving, Executing
  <2>6. Quiet(session[c], up'[c], down'[c])
    BY <1>3, <2>1 DEF Wire, Quiet
  <2>7. Executing(session[c], down'[c], runner.last, command, window'.frames)
    BY <2>2 DEF OwnWire, Executing
  <2>8. Ordered(up'[c], down'[c], runner.last, command)
    BY <1>4, <2>2, <2>3 DEF OwnWire, Ordered
  <2> QED BY <2>4, <2>5, <2>6, <2>7, <2>8 DEF Wire, OwnWire
<1>10. Wires'
  BY <1>2, <1>9 DEF IInv, Wires
<1>11. Attention'
  <2>1. \A i, k : Attended(i, k, session[c], down[c], c \in cut)
           => Attended(i, k, session[c], down'[c], c \in cut)
    BY <1>1, <1>2 DEF Attended, IsAbort, IsCommand
  <2>2. Range(down'[c]) \subseteq Range(down[c])
    BY <1>1, <1>2
  <2> QED BY <2>1, <2>2 DEF IInv, Attention, InFlight
<1> QED BY <1>5, <1>6, <1>7, <1>10, <1>11 DEF IInv

LEMMA WelcomeStep ==
  ASSUME IInv, welcome
  PROVE  IInv'
<1> DEFINE c == runner.socket
           from == Head(down[c]).from
<1>1. /\ Arrives(down, c, "welcome") /\ down' = Pop(down, c)
      /\ runner' = [runner EXCEPT !.welcomed = TRUE, !.state = "live"]
      /\ up' = SendUp(up, c, After(from - 1))
      /\ UNCHANGED <<command, window, journal, session, gateway, answer, cut>>
  BY DEF welcome, hostVars
<1>2. c \in Sockets /\ down[c] # <<>> /\ Head(down[c]).kind = "welcome"
  BY <1>1 DEF Arrives, IInv, Typed, Runners
<1>3. from - 1 \in Nat
  <2>1. Head(down[c]) \in DownFrames
    BY <1>1, <1>2, Popped DEF IInv
  <2> QED BY <1>2, <2>1, DownKinds
<1>4. /\ After(from - 1) \in Seq(UpFrames)
      /\ Range(After(from - 1)) \subseteq Range(window.frames)
  <2>1. ResultFrames \subseteq UpFrames
    BY DEF UpFrames
  <2>2. After(from - 1) \in Seq(ResultFrames)
    BY <1>3, AfterKeeps DEF IInv
  <2>3. After(from - 1) \in Seq(UpFrames)
    BY <2>1, <2>2
  <2> QED BY <1>3, <2>3, AfterKeeps DEF IInv
<1>5. /\ up' \in [Sockets -> Seq(UpFrames)]
      /\ \A d \in Sockets : d # c => up'[d] = up[d]
      /\ Range(up'[c]) \subseteq Range(up[c]) \cup Range(window.frames)
  BY <1>1, <1>2, <1>4, SentUp DEF IInv
<1>6. down' = [down EXCEPT ![c] = Tail(down[c])]
  BY <1>1, <1>2, Popped DEF IInv
<1>7. /\ runner' \in Runners /\ runner'.socket = c /\ runner'.last = runner.last
      /\ runner'.retry = runner.retry /\ runner'.welcomed
  BY <1>1 DEF IInv, Typed, Runners
<1>8. window' \in [frames: Seq(ResultFrames), cursor: Nat]
      /\ Range(window'.frames) \subseteq Range(window.frames)
  BY <1>1 DEF IInv, Typed
<1> QED BY <1>1, <1>2, <1>5, <1>6, <1>7, <1>8, TakesStep

LEMMA AckStep ==
  ASSUME IInv, ack
  PROVE  IInv'
<1> DEFINE c == runner.socket
           n == Head(down[c]).cursor
<1>1. /\ Arrives(down, c, "ack") /\ down' = Pop(down, c)
      /\ window' = [window EXCEPT !.frames = After(n)]
      /\ UNCHANGED <<runner, command, journal, session, gateway, answer, up, cut>>
  BY DEF ack, hostVars
<1>2. c \in Sockets /\ down[c] # <<>> /\ Head(down[c]).kind = "ack"
  BY <1>1 DEF Arrives, IInv, Typed, Runners
<1>3. n \in Nat
  <2>1. Head(down[c]) \in DownFrames
    BY <1>1, <1>2, Popped DEF IInv
  <2> QED BY <1>2, <2>1, DownKinds
<1>4. window' \in [frames: Seq(ResultFrames), cursor: Nat]
      /\ Range(window'.frames) \subseteq Range(window.frames)
  BY <1>1, <1>3, AfterKeeps DEF IInv, Typed
<1>5. down' = [down EXCEPT ![c] = Tail(down[c])]
  BY <1>1, <1>2, Popped DEF IInv
<1>6. up' \in [Sockets -> Seq(UpFrames)] /\ runner' \in Runners
  BY <1>1 DEF IInv, Typed
<1> QED BY <1>1, <1>2, <1>4, <1>5, <1>6, TakesStep

\* A recorded result goes to the window and, if it can, onto the wire.
NewResult(i, o) ==
    [kind |-> "result", id |-> i, cursor |-> window.cursor + 1, outcome |-> o]

LEMMA NewResultType ==
  ASSUME Typed, NEW i \in Ids, NEW o \in Outcomes
  PROVE  /\ NewResult(i, o) \in ResultFrames /\ NewResult(i, o) \in UpFrames
         /\ NewResult(i, o).id = i /\ NewResult(i, o).outcome = o
<1>1. window.cursor \in Nat
  BY DEF Typed
<1> QED BY <1>1 DEF NewResult, ResultFrames, UpFrames

LEMMA Recorded ==
  ASSUME Typed, NEW i \in Ids, NEW o \in Outcomes, record(i, o)
  PROVE  /\ window' \in [frames: Seq(ResultFrames), cursor: Nat]
         /\ Range(window'.frames) = Range(window.frames) \cup {NewResult(i, o)}
         /\ up' \in [Sockets -> Seq(UpFrames)]
         /\ \A d \in Sockets : /\ Range(up'[d]) \subseteq Range(up[d]) \cup {NewResult(i, o)}
                               /\ d # runner.socket => up'[d] = up[d]
<1> DEFINE f == NewResult(i, o)
<1>1. /\ window' = [frames |-> Append(window.frames, f), cursor |-> window.cursor + 1]
      /\ up' = SendUp(up, runner.socket, <<f>>)
  BY DEF record, NewResult
<1>2. window.frames \in Seq(ResultFrames) /\ window.cursor \in Nat
  BY DEF Typed
<1>3. f \in ResultFrames /\ f \in UpFrames
  BY NewResultType
<1> HIDE DEF f
<1>4. Append(window.frames, f) \in Seq(ResultFrames)
      /\ Range(Append(window.frames, f)) = Range(window.frames) \cup {f}
  BY <1>2, <1>3, RangeAppend
<1>5. <<f>> \in Seq(UpFrames) /\ Range(<<f>>) = {f}
  BY <1>3, OneFrame
<1>6. /\ up' \in [Sockets -> Seq(UpFrames)]
      /\ \A d \in Sockets : /\ Range(up'[d]) \subseteq Range(up[d]) \cup {f}
                            /\ d # runner.socket => up'[d] = up[d]
  BY <1>1, <1>5, SentUp
<1>7. window' \in [frames: Seq(ResultFrames), cursor: Nat]
      /\ Range(window'.frames) = Range(window.frames) \cup {f}
  BY <1>1, <1>2, <1>4
<1> QED BY <1>6, <1>7 DEF f

\* The device ends a command and answers it.
LEMMA EndsStep ==
  ASSUME IInv, NEW i \in InFlight, command' = Settled(i, command[i].call),
         record(i, command[i].call),
         UNCHANGED <<runner, journal, session, gateway, answer, down, cut>>
  PROVE  IInv'
<1>1. i \in Ids /\ command[i].status # "unknown" /\ command[i].call \in Outcomes
  BY DEF InFlight, IInv, Typed, Outcomes, Commands
<1> PICK o \in Outcomes : o = command[i].call
  BY <1>1
<1> PICK f \in ResultFrames : f = NewResult(i, o)
  BY <1>1, NewResultType DEF IInv
<1>2. /\ f.id = i /\ f.outcome = o
      /\ window' \in [frames: Seq(ResultFrames), cursor: Nat]
      /\ Range(window'.frames) = Range(window.frames) \cup {f}
      /\ up' \in [Sockets -> Seq(UpFrames)]
      /\ \A d \in Sockets : /\ Range(up'[d]) \subseteq Range(up[d]) \cup {f}
                            /\ d # runner.socket => up'[d] = up[d]
  <2>1. record(i, o) /\ Typed /\ i \in Ids
    BY <1>1 DEF IInv
  <2>2. f.id = i /\ f.outcome = o
    BY <2>1, NewResultType
  <2>3. /\ window' \in [frames: Seq(ResultFrames), cursor: Nat]
        /\ Range(window'.frames) = Range(window.frames) \cup {NewResult(i, o)}
        /\ up' \in [Sockets -> Seq(UpFrames)]
        /\ \A d \in Sockets :
              /\ Range(up'[d]) \subseteq Range(up[d]) \cup {NewResult(i, o)}
              /\ d # runner.socket => up'[d] = up[d]
    BY <2>1, Recorded, Zenon
  <2> QED BY <2>2, <2>3
<1>3. /\ command' \in [Ids -> Commands]
      /\ command'[i].status = "settled" /\ command'[i].call = command[i].call
      /\ \A j \in Ids : j # i => command'[j] = command[j]
  BY <1>1 DEF Settled, Unknown, IInv, Typed, Commands
<1>4. InFlight' = InFlight \ {i}
  BY <1>1, <1>3 DEF InFlight
<1>5. IsResult(f) /\ f.kind = "result" /\ i =< runner.last
  BY <1>1 DEF ResultFrames, IsResult, IInv, Remembered
<1>6. Typed'
  BY <1>2, <1>3, <1>4 DEF IInv, Typed, InFlight
<1>7. Counted'
  BY <1>2, <1>5 DEF IInv, Counted, BelowIssued
<1>8. Waiting'
  BY DEF IInv, Waiting
<1>9. Remembered'
  <2>1. \A g \in Range(window.frames) : g.id \in Ids /\ command[g.id].status = "settled"
    BY FramesTyped DEF IInv, Remembered
  <2> QED BY <1>2, <1>3, <1>5, <2>1 DEF IInv, Remembered
<1>10. Stopped'
  BY <1>3, <1>4 DEF IInv, Stopped, InFlight
<1>11. ASSUME NEW c \in Sockets, runner.socket = c
       PROVE  Wire(session[c], up'[c], down[c])
              /\ OwnWire(session[c], up'[c], down[c], runner.last, command', window'.frames)
  <2>1. Wire(session[c], up[c], down[c])
        /\ OwnWire(session[c], up[c], down[c], runner.last, command, window.frames)
    BY <1>11 DEF IInv, Wires
  <2>2. session[c].phase # "none" /\ session[c] \in Sessions
    BY <1>11 DEF IInv, Stopped, Sockets, Typed
  <2>3. Range(up'[c]) \subseteq Range(up[c]) \cup {f}
    BY <1>2
  <2>4. Quiet(session[c], up'[c], down[c])
    BY <2>1, <2>2 DEF Wire, Quiet
  <2>5. Greeting(session[c], up'[c]) /\ Introduced(session[c], up'[c], runner.last)
    BY <1>2, <1>5, <2>1, <2>3 DEF Wire, OwnWire, Greeting, Introduced, IsResult
  <2>6. Serving(session[c], up'[c])
    <3>1. runner.last \in Nat /\ session[c].next \in Nat /\ i \in Nat
      BY <1>1, <2>2 DEF IInv, Typed, Runners, Ids, Sessions
    <3> QED BY <1>1, <1>2, <1>5, <2>1, <2>3, <3>1 DEF Wire, OwnWire, Serving, Executing
  <2>7. Executing(session[c], down[c], runner.last, command', window'.frames)
    <3>1. \A p \in session[c].pending : p.id \in Ids
      BY <2>2 DEF Sessions
    <3>2. \A p \in session[c].pending : session[c].phase = "open" /\ p.id = i => o = p.call
      BY <1>1, <2>1 DEF OwnWire, Executing
    <3>3. ASSUME NEW p \in session[c].pending, session[c].phase = "open"
          PROVE  /\ command'[p.id].status # "unknown" => command'[p.id].call = p.call
                 /\ \A g \in Range(window'.frames) : g.id = p.id => g.outcome = p.call
      <4>1. /\ command[p.id].status # "unknown" => command[p.id].call = p.call
            /\ \A g \in Range(window.frames) : g.id = p.id => g.outcome = p.call
        BY <2>1, <3>3 DEF OwnWire, Executing
      <4>2. p.id = i => command'[p.id].call = p.call
        BY <1>3, <3>2, <3>3
      <4>3. p.id # i => command'[p.id] = command[p.id]
        BY <1>3, <3>1
      <4> QED BY <1>2, <3>2, <3>3, <4>1, <4>2, <4>3
    <3> QED BY <2>1, <3>3 DEF OwnWire, Executing
  <2>8. Ordered(up'[c], down[c], runner.last, command')
    <3>1. \A g \in Range(up[c]) : IsResult(g) => g.id \in Ids
      BY FramesTyped, UpKinds DEF IInv
    <3> QED BY <1>2, <1>3, <1>5, <2>1, <2>3, <3>1 DEF OwnWire, Ordered
  <2> QED BY <2>4, <2>5, <2>6, <2>7, <2>8 DEF Wire, OwnWire
<1>12. Wires'
  BY <1>2, <1>11 DEF IInv, Wires
<1>13. Attention'
  BY <1>3, <1>4 DEF IInv, Attention, InFlight
<1> QED BY <1>6, <1>7, <1>8, <1>9, <1>10, <1>12, <1>13 DEF IInv

LEMMA RefuseStep ==
  ASSUME IInv, NEW i \in Ids, refuse(i)
  PROVE  IInv'
BY EndsStep DEF refuse, InFlight, hostVars

LEMMA SettleCommandStep ==
  ASSUME IInv, NEW i \in Ids, settleCommand(i)
  PROVE  IInv'
BY EndsStep DEF settleCommand, InFlight, hostVars

LEMMA BeginCommandStep ==
  ASSUME IInv, NEW i \in Ids, beginCommand(i)
  PROVE  IInv'
<1>1. /\ command[i].status = "accepted"
      /\ command' = [command EXCEPT ![i].status = "running"]
      /\ journal' = [journal EXCEPT ![i] = command[i].call]
      /\ UNCHANGED <<runner, window, session, gateway, answer, up, down, cut>>
  BY DEF beginCommand, hostVars, wireVars
<1>2. /\ command' \in [Ids -> Commands] /\ command'[i].status = "running"
      /\ \A j \in Ids : /\ j # i => command'[j] = command[j]
                        /\ command'[j].call = command[j].call
                        /\ command'[j].aborted = command[j].aborted
  BY <1>1 DEF IInv, Typed, Commands
<1>3. InFlight' = InFlight /\ i \in InFlight
  BY <1>1, <1>2 DEF InFlight
<1>4. Typed'
  BY <1>1, <1>2, <1>3 DEF IInv, Typed, InFlight
<1>5. Counted' /\ Waiting'
  BY <1>1 DEF IInv, Counted, BelowIssued, Waiting
<1>6. Remembered'
  <2>1. \A g \in Range(window.frames) : g.id \in Ids
    BY FramesTyped DEF IInv
  <2>2. \A j \in Ids : journal'[j] # 0 => journal[j] # 0 \/ j = i
    BY <1>1 DEF IInv, Typed
  <2> QED BY <1>1, <1>2, <2>1, <2>2 DEF IInv, Remembered
<1>7. Stopped'
  BY <1>1, <1>2, <1>3 DEF IInv, Stopped, InFlight
<1>8. ASSUME NEW c \in Sockets, runner.socket = c
      PROVE  OwnWire(session[c], up[c], down[c], runner.last, command', window.frames)
  <2>1. OwnWire(session[c], up[c], down[c], runner.last, command, window.frames)
    BY <1>8 DEF IInv, Wires
  <2>2. \A p \in session[c].pending : p.id \in Ids
    BY DEF IInv, Typed, Sessions
  <2>3. Executing(session[c], down[c], runner.last, command', window.frames)
    BY <1>1, <1>2, <2>1, <2>2 DEF OwnWire, Executing
  <2>4. \A g \in Range(up[c]) : IsResult(g) => g.id \in Ids
    BY FramesTyped, UpKinds DEF IInv
  <2>5. Ordered(up[c], down[c], runner.last, command')
    BY <1>1, <1>2, <2>1, <2>4 DEF OwnWire, Ordered
  <2> QED BY <2>1, <2>3, <2>5 DEF OwnWire
<1>9. Wires'
  BY <1>1, <1>8 DEF IInv, Wires
<1>10. Attention'
  BY <1>1, <1>2, <1>3 DEF IInv, Attention, InFlight
<1> QED BY <1>4, <1>5, <1>6, <1>7, <1>9, <1>10 DEF IInv

\* The command that comes next, before it is served.
LEMMA NextCommand ==
  ASSUME IInv, NEW c \in Sockets, c = runner.socket, Arrives(down, c, "command")
  PROVE  /\ Head(down[c]) \in DownFrames /\ IsCommand(Head(down[c]))
         /\ Head(down[c]) \in Range(down[c])
         /\ Head(down[c]).id \in Ids /\ runner.last < Head(down[c]).id
         /\ command[Head(down[c]).id].status = "unknown"
         /\ session[c].phase \in {"open", "closed"}
         /\ \A g \in Range(Tail(down[c])) : IsCommand(g) => Head(down[c]).id < g.id
         /\ IsAbort(Head(down[c])) => /\ Head(down[c]).target \in Ids
                                      /\ Head(down[c]).target < Head(down[c]).id
<1>1. /\ Head(down[c]) \in DownFrames /\ Head(down[c]) \in Range(down[c])
      /\ IsCommand(Head(down[c]))
  BY Popped DEF IInv, Arrives, IsCommand
<1>2. /\ Head(down[c]).id \in Ids
      /\ IsAbort(Head(down[c])) => Head(down[c]).target \in Ids
  BY <1>1, DownKinds
<1>3. Wire(session[c], up[c], down[c])
      /\ OwnWire(session[c], up[c], down[c], runner.last, command, window.frames)
  BY DEF IInv, Wires
<1>4. /\ runner.last < Head(down[c]).id /\ Sorted(down[c])
      /\ IsAbort(Head(down[c])) => Head(down[c]).target < Head(down[c]).id
  BY <1>1, <1>3 DEF OwnWire, Ordered
<1>5. command[Head(down[c]).id].status = "unknown"
  <2>1. runner.last \in Nat /\ Head(down[c]).id \in Nat
    BY <1>2 DEF IInv, Typed, Runners, Ids
  <2>2. ~(Head(down[c]).id =< runner.last)
    BY <2>1, <1>4
  <2> QED BY <1>2, <2>2 DEF IInv, Remembered
<1>6. session[c].phase \in {"open", "closed"}
  BY <1>1, <1>3 DEF Wire, Quiet, IInv, Typed, Sessions
<1>7. \A g \in Range(Tail(down[c])) : IsCommand(g) => Head(down[c]).id < g.id
  <2>1. down[c] \in Seq(DownFrames) /\ down[c] # <<>>
    BY DEF IInv, Typed, Arrives
  <2> QED BY <1>1, <1>4, <2>1, SortedTail
<1> QED BY <1>1, <1>2, <1>4, <1>5, <1>6, <1>7

\* The device takes the command f: it runs it, or ends it, or lets it pass,
KeepsOthers(f) ==
    \A i \in Ids : i # f.id => /\ command'[i].status = command[i].status
                              /\ command'[i].call = command[i].call
                              /\ command'[i].aborted \in {command[i].aborted, TRUE}
Executes(f) ==
    \/ command'[f.id].status = "unknown"
    \/ /\ IsPerform(f) /\ runner.welcomed
       /\ command'[f.id].status = "accepted" /\ command'[f.id].call = f.call
    \/ IsAbort(f) /\ command'[f.id].status = "settled"
StopsTarget(f) == IsAbort(f) /\ f.target \in InFlight => command'[f.target].aborted = TRUE

Serves(f) ==
    command' \in [Ids -> Commands] /\ KeepsOthers(f) /\ Executes(f) /\ StopsTarget(f)

\* and leaves the frames r behind.
Leaves(c, f, r) ==
    /\ r \subseteq ResultFrames
    /\ \A g \in r : IsAbort(f) /\ command'[f.id].status = "settled" /\ g.id = f.id
    /\ window' \in [frames: Seq(ResultFrames), cursor: Nat]
    /\ Range(window'.frames) = Range(window.frames) \cup r
    /\ up' \in [Sockets -> Seq(UpFrames)]
    /\ \A d \in Sockets : /\ Range(up'[d]) \subseteq Range(up[d]) \cup r
                          /\ d # c => up'[d] = up[d]

TakesCommand(c, f) ==
    /\ c = runner.socket /\ f = Head(down[c]) /\ Arrives(down, c, "command")
    /\ down' = Pop(down, c) /\ runner' = [runner EXCEPT !.last = f.id]
    /\ UNCHANGED <<journal, session, gateway, answer, cut>>

LEMMA TakesCommandStep ==
  ASSUME IInv, NEW c \in Sockets, NEW f, NEW r, TakesCommand(c, f), Serves(f),
         Leaves(c, f, r)
  PROVE  IInv'
<1>0. UNCHANGED <<journal, session, gateway, answer, cut>> /\ runner.socket = c
  BY DEF TakesCommand
<1>1. /\ f \in DownFrames /\ IsCommand(f) /\ f \in Range(down[c]) /\ f.id \in Ids
      /\ f.id \in Nat /\ runner.last \in Nat /\ runner.last < f.id
      /\ command[f.id].status = "unknown" /\ session[c].phase \in {"open", "closed"}
      /\ \A g \in Range(Tail(down[c])) : IsCommand(g) => f.id < g.id
      /\ IsAbort(f) => f.target \in Ids /\ f.target < f.id
  <2>1. c = runner.socket /\ f = Head(down[c]) /\ Arrives(down, c, "command")
    BY DEF TakesCommand
  <2>2. runner.last \in Nat /\ Ids \subseteq Nat
    BY DEF IInv, Typed, Runners, Ids
  <2> QED BY <2>1, <2>2, NextCommand
<1>2. /\ down' \in [Sockets -> Seq(DownFrames)] /\ down'[c] = Tail(down[c])
      /\ \A d \in Sockets : d # c => down'[d] = down[d]
      /\ Range(Tail(down[c])) \subseteq Range(down[c])
      /\ Sorted(down[c]) => Sorted(Tail(down[c]))
  <2>1. Arrives(down, c, "command") /\ down' = Pop(down, c)
    BY DEF TakesCommand
  <2>2. down \in [Sockets -> Seq(DownFrames)]
    BY DEF IInv, Typed
  <2> QED BY <2>1, <2>2, Popped, ZenonT(60) DEF IInv
<1>3. \A g \in Range(down[c]) : g \in Range(down'[c]) \/ g = f
  <2>1. down[c] \in Seq(DownFrames) /\ down[c] # <<>> /\ f = Head(down[c])
    BY DEF IInv, Typed, Arrives, TakesCommand
  <2> QED BY <1>2, <2>1, HeadOrTail
<1>4. /\ runner' \in Runners /\ runner'.socket = c /\ runner'.last = f.id
      /\ runner'.retry = runner.retry /\ runner'.welcomed = runner.welcomed
  BY <1>1 DEF IInv, Typed, Runners, TakesCommand
<1>5. \A g \in r : IsResult(g) /\ g.kind = "result"
  BY DEF ResultFrames, IsResult, Leaves
<1>6. /\ InFlight \subseteq InFlight' /\ f.id \notin InFlight
      /\ \A i \in InFlight' : i \in InFlight \/ (i = f.id /\ IsPerform(f) /\ runner.welcomed)
  BY <1>1 DEF InFlight, Serves, KeepsOthers, Executes, StopsTarget
<1>7. Typed'
  <2>1. \A i \in InFlight' : command'[i].call \in Calls
    <3>1. \A i \in InFlight : command'[i].call \in Calls
      BY <1>6, ZenonT(60) DEF InFlight, IInv, Typed, Serves, KeepsOthers, Executes, StopsTarget
    <3>2. IsPerform(f) => f.call \in Calls
      BY <1>1, DownKinds
    <3>3. f.id \in InFlight' => IsPerform(f) /\ command'[f.id].call = f.call
      BY DEF InFlight, Serves, KeepsOthers, Executes, StopsTarget
    <3> QED BY <1>6, <3>1, <3>2, <3>3
  <2> QED BY <1>0, <1>2, <1>4, <2>1 DEF IInv, Typed, Serves, KeepsOthers,
    Executes, StopsTarget, Leaves
<1>8. Counted'
  <2>1. f.id =< Issued(answer)
    BY <1>1 DEF IInv, Counted, BelowIssued
  <2>2. \A d \in Sockets : Range(down'[d]) \subseteq Range(down[d])
    BY <1>2
  <2>3. \A d \in Sockets : \A g \in Range(up'[d]) : g \in Range(up[d]) \/ g.kind = "result"
    BY <1>5 DEF Leaves
  <2> QED BY <1>0, <1>4, <2>1, <2>2, <2>3 DEF IInv, Counted, BelowIssued
<1>9. Waiting'
  BY <1>0 DEF IInv, Waiting
<1>10. Remembered'
  <2>1. \A g \in Range(window.frames) : g.id \in Ids /\ command[g.id].status = "settled"
    BY FramesTyped DEF IInv, Remembered
  <2>2. \A i \in Nat : i =< runner.last => i =< f.id
    BY <1>1
  <2>3. \A i \in Ids : command'[i].status # "unknown" => i =< f.id
    <3>1. ASSUME NEW i \in Ids, command'[i].status # "unknown" PROVE i =< f.id
      <4>1. i \in Nat
        BY DEF Ids
      <4>2. CASE i = f.id
        BY <1>1, <4>2
      <4>3. CASE i # f.id
        <5>1. command[i].status # "unknown"
          BY <3>1, <4>3 DEF Serves, KeepsOthers, Executes, StopsTarget
        <5> QED BY <2>2, <4>1, <5>1 DEF IInv, Remembered
      <4> QED BY <4>2, <4>3
    <3> QED BY <3>1
  <2>4. \A i \in Ids : journal[i] # 0 => i =< f.id
    BY <2>2 DEF IInv, Remembered, Ids
  <2>5. \A g \in Range(window'.frames) : command'[g.id].status = "settled"
    BY <1>1, <2>1, ZenonT(60) DEF Serves, KeepsOthers,
    Executes, StopsTarget, Leaves
  <2> QED BY <1>0, <1>4, <2>3, <2>4, <2>5 DEF Remembered
<1>11. Stopped'
  <2>1. ~runner.welcomed => \A i \in InFlight' : command'[i].aborted
    BY <1>1, <1>6 DEF IInv, Stopped, InFlight, Serves, KeepsOthers, Executes, StopsTarget
  <2> QED BY <1>0, <1>4, <2>1 DEF IInv, Stopped
<1>12. Wire(session[c], up'[c], down'[c])
       /\ OwnWire(session[c], up'[c], down'[c], f.id, command', window'.frames)
  <2>1. Wire(session[c], up[c], down[c])
        /\ OwnWire(session[c], up[c], down[c], runner.last, command, window.frames)
    BY <1>0 DEF IInv, Wires
  <2>2. Quiet(session[c], up'[c], down'[c])
    BY <1>1, <1>2, <2>1 DEF Wire, Quiet
  <2>3. Greeting(session[c], up'[c]) /\ Introduced(session[c], up'[c], f.id)
    BY <1>1 DEF Greeting, Introduced
  <2>4. ASSUME session[c].phase = "open"
        PROVE  f.id < session[c].next
               /\ \A p \in session[c].pending : p.id = f.id => IsPerform(f) /\ f.call = p.call
    BY <1>1, <2>1, <2>4 DEF OwnWire, Executing
  <2>5. IsAbort(f) => ~IsPerform(f)
    BY <1>1, DownKinds
  <2>6. Serving(session[c], up'[c])
    <3>1. \A g \in Range(up'[c]) : g \in Range(up[c]) \/ (g \in r /\ IsAbort(f) /\ g.id = f.id)
      BY DEF Leaves
    <3> QED BY <2>1, <2>4, <2>5, <3>1 DEF Wire, Serving
  <2>7. ASSUME session[c].phase = "open", NEW p \in session[c].pending
        PROVE  /\ command'[p.id].status # "unknown" => command'[p.id].call = p.call
               /\ \A g \in Range(window'.frames) : g.id = p.id => g.outcome = p.call
    <3>1. p.id \in Ids
      <4>1. session[c] \in Sessions
        BY DEF IInv, Typed
      <4> QED BY <4>1 DEF Sessions
    <3>2. /\ command[p.id].status # "unknown" => command[p.id].call = p.call
          /\ \A g \in Range(window.frames) : g.id = p.id => g.outcome = p.call
      BY <2>1, <2>7 DEF OwnWire, Executing
    <3>3. CASE p.id = f.id
      BY <2>4, <2>5, <2>7, <3>2, <3>3 DEF Serves, KeepsOthers,
    Executes, StopsTarget, Leaves
    <3>4. CASE p.id # f.id
      BY <3>1, <3>2, <3>4 DEF Serves, KeepsOthers,
    Executes, StopsTarget, Leaves
    <3> QED BY <3>3, <3>4
  <2>8. Executing(session[c], down'[c], f.id, command', window'.frames)
    BY <1>2, <2>1, <2>4, <2>7 DEF OwnWire, Executing
  <2>9. Ordered(up'[c], down'[c], f.id, command')
    <3>1. \A g \in Range(up[c]) : IsResult(g) => g.id \in Ids
      BY FramesTyped, UpKinds DEF IInv
    <3>2. \A g \in Range(up'[c]) : g.kind # "goodbye"
                                   /\ (IsResult(g) => command'[g.id].status = "settled")
      <4>1. ASSUME NEW g \in Range(up[c])
            PROVE  g.kind # "goodbye" /\ (IsResult(g) => command'[g.id].status = "settled")
        <5>1. g.kind # "goodbye" /\ (IsResult(g) => command[g.id].status = "settled")
          BY <2>1 DEF OwnWire, Ordered
        <5> QED BY <1>1, <3>1, <5>1 DEF Serves, KeepsOthers, Executes, StopsTarget
      <4>2. \A g \in r : g.kind # "goodbye" /\ command'[g.id].status = "settled"
        BY <1>5 DEF Leaves
      <4> QED BY <4>1, <4>2 DEF Leaves
    <3> QED BY <1>1, <1>2, <2>1, <3>2 DEF OwnWire, Ordered
  <2> QED BY <2>2, <2>3, <2>6, <2>8, <2>9 DEF Wire, OwnWire
<1>13. Wires'
  <2>1. \A d \in Sockets : d # c => up'[d] = up[d] /\ down'[d] = down[d]
    BY <1>2 DEF Leaves
  <2> QED BY <1>0, <1>4, <1>12, <2>1 DEF IInv, Wires
<1>14. ASSUME NEW i, NEW k, Attended(i, k, session[c], down[c], c \in cut),
              ~(IsAbort(f) /\ f.target = i)
       PROVE  Attended(i, k, session[c], down'[c], c \in cut)
  BY <1>1, <1>3, <1>14 DEF Attended, IsCommand
<1>15. Attention'
  <2>1. ASSUME NEW g \in Range(down'[c]), IsPerform(g)
        PROVE  Attended(g.id, g.call, session[c], down'[c], c \in cut)
    <3>1. Attended(g.id, g.call, session[c], down[c], c \in cut) /\ IsCommand(g)
      BY <1>0, <1>2, <2>1 DEF IInv, Attention, IsPerform
    <3>2. g.id \in Nat
      <4>1. g \in DownFrames
        BY <1>2, <2>1, FramesTyped DEF IInv
      <4>2. g.id \in Ids
        BY <3>1, <4>1, DownKinds
      <4> QED BY <4>2 DEF Ids
    <3>3. ~(IsAbort(f) /\ f.target = g.id)
      <4>1. f.id < g.id
        BY <1>1, <1>2, <2>1, <3>1
      <4>2. f.target \in Ids => f.target \in Nat
        BY DEF Ids
      <4> QED BY <1>1, <3>2, <4>1, <4>2
    <3> QED BY <1>14, <3>1, <3>3
  <2>2. ASSUME NEW i \in InFlight', ~command'[i].aborted
        PROVE  Attended(i, command'[i].call, session[c], down'[c], c \in cut)
    <3>1. CASE i \in InFlight
      <4>1. i # f.id /\ i \in Ids /\ ~command[i].aborted
            /\ command'[i].call = command[i].call
        BY <1>6, <2>2, <3>1 DEF InFlight, Serves, KeepsOthers, Executes, StopsTarget
      <4>2. Attended(i, command[i].call, session[c], down[c], c \in cut)
        BY <1>0, <3>1, <4>1 DEF IInv, Attention
      <4>3. ~(IsAbort(f) /\ f.target = i)
        BY <2>2, <3>1 DEF Serves, KeepsOthers, Executes, StopsTarget
      <4> QED BY <1>14, <4>1, <4>2, <4>3
    <3>2. CASE i \notin InFlight
      <4>1. i = f.id /\ IsPerform(f) /\ command'[i].call = f.call
        BY <1>1, <1>6, <2>2, <3>2 DEF InFlight, Serves, KeepsOthers, Executes, StopsTarget
      <4>2. Attended(i, f.call, session[c], down[c], c \in cut)
        BY <1>0, <1>1, <4>1 DEF IInv, Attention
      <4>3. ~IsAbort(f)
        BY <1>1, <4>1, DownKinds
      <4> QED BY <1>14, <4>1, <4>2, <4>3
    <3> QED BY <3>1, <3>2
  <2>3. c # 0
    BY DEF Sockets
  <2> QED BY <1>0, <1>4, <2>1, <2>2, <2>3 DEF Attention
<1> QED BY <1>7, <1>8, <1>9, <1>10, <1>11, <1>13, <1>15 DEF IInv

LEMMA ServeCommandStep ==
  ASSUME IInv, serveCommand
  PROVE  IInv'
<1> DEFINE c == runner.socket
<1> PICK f : f = Head(down[c])
  OBVIOUS
<1>1. /\ Arrives(down, c, "command") /\ down' = Pop(down, c)
      /\ runner' = [runner EXCEPT !.last = IF f.id > @ THEN f.id ELSE @]
      /\ UNCHANGED <<journal, session, gateway, answer, cut>>
  BY DEF serveCommand, hostVars
<1>2. c \in Sockets
  BY <1>1 DEF Arrives, IInv, Typed, Runners
<1>3. /\ f \in DownFrames /\ IsCommand(f) /\ f.id \in Ids /\ runner.last < f.id
      /\ command[f.id].status = "unknown"
      /\ IsAbort(f) => f.target \in Ids /\ f.target < f.id
  BY <1>1, <1>2, NextCommand
<1>4. TakesCommand(c, f)
  <2>1. runner.last \in Nat /\ f.id \in Nat
    BY <1>3 DEF IInv, Typed, Runners, Ids
  <2>2. f.id > runner.last
    BY <1>3, <2>1
  <2> QED BY <1>1, <2>2 DEF TakesCommand
<1>5. f.id \notin InFlight /\ command \in [Ids -> Commands]
  BY <1>3 DEF InFlight, IInv, Typed
<1>6. \/ ~runner.welcomed /\ UNCHANGED <<command, window, up>>
      \/ /\ runner.welcomed /\ IsPerform(f)
         /\ command' = [command EXCEPT ![f.id] =
                          [Unknown EXCEPT !.status = "accepted", !.call = f.call]]
         /\ UNCHANGED <<window, up>>
      \/ /\ IsAbort(f) /\ record(f.id, 0)
         /\ command' = [Settled(f.id, 0) EXCEPT ![f.target].aborted =
                          @ \/ f.target \in InFlight]
  <2>1. CASE ~runner.welcomed
    BY <2>1 DEF serveCommand
  <2>2. CASE runner.welcomed /\ f.op = "perform"
    BY <1>3, <1>5, <2>2 DEF serveCommand, IsPerform
  <2>3. CASE runner.welcomed /\ f.op # "perform"
    <3>1. IsAbort(f)
      BY <1>3, <2>3, DownKinds DEF IsPerform
    <3> QED BY <1>3, <1>5, <2>3, <3>1 DEF serveCommand
  <2> QED BY <2>1, <2>2, <2>3
<1>7. ASSUME UNCHANGED <<window, up>> PROVE Leaves(c, f, {})
  BY <1>7 DEF Leaves, IInv, Typed
<1>8. CASE ~runner.welcomed /\ UNCHANGED <<command, window, up>>
  <2>1. \A i \in InFlight : command[i].aborted
    BY <1>8 DEF IInv, Stopped
  <2>2. Serves(f)
    BY <1>3, <1>5, <1>8, <2>1 DEF Serves, KeepsOthers, Executes, StopsTarget
  <2> QED BY <1>2, <1>4, <1>7, <1>8, <2>2, TakesCommandStep
<1>9. CASE /\ runner.welcomed /\ IsPerform(f)
           /\ command' = [command EXCEPT ![f.id] =
                            [Unknown EXCEPT !.status = "accepted", !.call = f.call]]
           /\ UNCHANGED <<window, up>>
  <2>1. f.call \in Calls /\ ~IsAbort(f)
    BY <1>3, <1>9, DownKinds
  <2>2. /\ command' \in [Ids -> Commands]
        /\ command'[f.id].status = "accepted" /\ command'[f.id].call = f.call
        /\ \A i \in Ids : i # f.id => command'[i] = command[i]
    BY <1>3, <1>5, <1>9, <2>1 DEF Unknown, Commands, Outcomes
  <2>3. Serves(f)
    BY <1>9, <2>1, <2>2 DEF Serves, KeepsOthers, Executes, StopsTarget
  <2> QED BY <1>2, <1>4, <1>7, <1>9, <2>3, TakesCommandStep
<1>10. CASE /\ IsAbort(f) /\ record(f.id, 0)
            /\ command' = [Settled(f.id, 0) EXCEPT ![f.target].aborted =
                             @ \/ f.target \in InFlight]
  <2>1. /\ Settled(f.id, 0) \in [Ids -> Commands]
        /\ Settled(f.id, 0)[f.id].status = "settled"
        /\ \A i \in Ids : i # f.id => Settled(f.id, 0)[i] = command[i]
    BY <1>3, <1>5 DEF Settled, Unknown, Commands, Outcomes
  <2> PICK S \in [Ids -> Commands] : S = Settled(f.id, 0)
    BY <2>1
  <2> PICK b \in BOOLEAN : b <=> f.target \in InFlight
    <3>1. CASE f.target \in InFlight
      <4>1. TRUE <=> f.target \in InFlight
        BY ONLY <3>1
      <4> QED BY ONLY <4>1
    <3>2. CASE f.target \notin InFlight
      <4>1. FALSE <=> f.target \in InFlight
        BY ONLY <3>2
      <4> QED BY ONLY <4>1
    <3> QED BY <3>1, <3>2
  <2>2. /\ command' \in [Ids -> Commands]
        /\ \A i \in Ids : /\ command'[i].status = S[i].status
                          /\ command'[i].call = S[i].call
                          /\ command'[i].aborted \in {S[i].aborted, TRUE}
        /\ b => command'[f.target].aborted = TRUE
    <3>1. f.target \in Ids
      BY <1>3, <1>10
    <3>2. command' = [S EXCEPT ![f.target] =
                        [S[f.target] EXCEPT !.aborted = S[f.target].aborted \/ b]]
      BY <1>10
    <3>3. [S[f.target] EXCEPT !.aborted = S[f.target].aborted \/ b] \in Commands
      BY <3>1, ZenonT(60) DEF Commands
    <3>4. /\ [S[f.target] EXCEPT !.aborted = S[f.target].aborted \/ b].status = S[f.target].status
          /\ [S[f.target] EXCEPT !.aborted = S[f.target].aborted \/ b].call = S[f.target].call
          /\ [S[f.target] EXCEPT !.aborted = S[f.target].aborted \/ b].aborted
               = (S[f.target].aborted \/ b)
      BY <3>1 DEF Commands
    <3>5. (S[f.target].aborted \/ b) \in {S[f.target].aborted, TRUE}
          /\ (b => (S[f.target].aborted \/ b) = TRUE)
      <4>1. S[f.target].aborted \in BOOLEAN
        BY <3>1 DEF Commands
      <4> QED BY <4>1
    <3> QED BY <3>1, <3>2, <3>3, <3>4, <3>5
  <2>3. Serves(f)
    <3>1. KeepsOthers(f)
      BY <2>1, <2>2 DEF KeepsOthers
    <3>2. command'[f.id].status = "settled"
      BY <1>3, <2>1, <2>2
    <3>3. StopsTarget(f)
      BY <2>2 DEF StopsTarget
    <3>4. Executes(f)
      BY <1>10, <3>2 DEF Executes
    <3> QED BY <2>2, <3>1, <3>3, <3>4 DEF Serves
  <2>4. Leaves(c, f, {NewResult(f.id, 0)})
    <3>1. 0 \in Outcomes
      BY DEF Outcomes
    <3>2. /\ NewResult(f.id, 0) \in ResultFrames /\ NewResult(f.id, 0).id = f.id
      BY <1>3, <3>1, NewResultType DEF IInv
    <3>3. /\ window' \in [frames: Seq(ResultFrames), cursor: Nat]
          /\ Range(window'.frames) = Range(window.frames) \cup {NewResult(f.id, 0)}
          /\ up' \in [Sockets -> Seq(UpFrames)]
          /\ \A d \in Sockets :
                /\ Range(up'[d]) \subseteq Range(up[d]) \cup {NewResult(f.id, 0)}
                /\ d # runner.socket => up'[d] = up[d]
      <4>1. record(f.id, 0) /\ Typed
        BY <1>10 DEF IInv
      <4> QED BY <1>3, <3>1, <4>1, Recorded, Zenon
    <3>4. command'[f.id].status = "settled"
      BY <1>3, <2>1, <2>2
    <3> QED BY <1>10, <3>2, <3>3, <3>4 DEF Leaves
  <2> QED BY <1>2, <1>4, <2>3, <2>4, TakesCommandStep
<1> QED BY <1>6, <1>8, <1>9, <1>10

LEMMA RelaunchStep ==
  ASSUME IInv, relaunch
  PROVE  IInv'
<1> DEFINE known == {i \in Ids : journal[i] # 0}
           N == MaxCalls + MaxAborts
<1>1. /\ runner' = [socket |-> 0, welcomed |-> FALSE, terminated |-> FALSE,
                    last |-> Max(known \cup {0}), retry |-> TRUE, state |-> "connecting"]
      /\ command' = [i \in Ids |->
            IF i \in known
            THEN [Unknown EXCEPT !.status = "settled", !.call = journal[i]]
            ELSE Unknown]
      /\ window' = [frames |-> <<>>, cursor |-> 0]
      /\ up' = [c \in Sockets |-> IF c = runner.socket THEN <<>> ELSE up[c]]
      /\ down' = [c \in Sockets |-> <<>>]
      /\ UNCHANGED <<journal, session, gateway, answer>>
  BY DEF relaunch, hostVars
<1>w. /\ window' = [frames |-> <<>>, cursor |-> 0]
      /\ up' = [c \in Sockets |-> IF c = runner.socket THEN <<>> ELSE up[c]]
      /\ down' = [c \in Sockets |-> <<>>]
      /\ UNCHANGED <<journal, session, gateway, answer>>
  BY DEF relaunch, hostVars
<1>2. /\ Max(known \cup {0}) \in known \cup {0}
      /\ \A i \in known : i =< Max(known \cup {0})
  <2>1. N \in Nat
    BY RunnerLinkAssumption
  <2>2. known \cup {0} \subseteq 0..N /\ known \subseteq Nat
    BY <2>1 DEF Ids
  <2> HIDE DEF known, N
  <2>3. /\ Max(known \cup {0}) \in known \cup {0}
        /\ \A i \in known \cup {0} : Max(known \cup {0}) >= i
    BY <2>1, <2>2, MaxIn
  <2> QED BY <2>2, <2>3
<1>3. known \subseteq Ids /\ \A i \in known : i =< runner.last
  BY DEF IInv, Remembered
<1>4. journal \in [Ids -> Calls \cup {0}] /\ \A i \in known : journal[i] \in Calls
  BY DEF IInv, Typed
<1>5. PICK last : last = Max(known \cup {0})
  OBVIOUS
<1>6. /\ runner' \in Runners /\ runner'.socket = 0 /\ runner'.last = last
      /\ ~runner'.welcomed
  BY <1>1, <1>2, <1>3, <1>5 DEF Runners
<1>7. /\ command' \in [Ids -> Commands]
      /\ \A i \in Ids : command'[i].status = IF i \in known THEN "settled" ELSE "unknown"
  BY <1>1, <1>4 DEF Unknown, Commands, Outcomes
<1>8. InFlight' = {}
  BY <1>7 DEF InFlight
<1> HIDE DEF known, N
<1>9. Typed'
  <2>1. /\ up' \in [Sockets -> Seq(UpFrames)] /\ down' \in [Sockets -> Seq(DownFrames)]
        /\ window' \in [frames: Seq(ResultFrames), cursor: Nat]
    <3>1. up \in [Sockets -> Seq(UpFrames)]
      BY DEF IInv, Typed
    <3>2. up' \in [Sockets -> Seq(UpFrames)]
      BY <1>w, <3>1
    <3>3. down' \in [Sockets -> Seq(DownFrames)]
      BY <1>w
    <3>4. window' \in [frames: Seq(ResultFrames), cursor: Nat]
      BY <1>w
    <3> QED BY <3>2, <3>3, <3>4
  <2> QED BY <1>1, <1>6, <1>7, <1>8, <2>1 DEF IInv, Typed
<1>10. \A c \in Sockets : /\ Range(up'[c]) \subseteq Range(up[c])
                          /\ Range(down'[c]) \subseteq Range(down[c])
                          /\ up[c] = <<>> => up'[c] = <<>>
                          /\ down'[c] = <<>>
  BY <1>1, EmptyRange
<1>11. Counted'
  <2>1. last =< Issued(answer)
    <3>1. last \in Nat /\ runner.last \in Nat /\ Issued(answer) \in Nat
      <4>2. last \in Ids \cup {0} => last \in Nat
        BY DEF Ids
      <4>3. runner.last \in Nat
        BY DEF IInv, Typed, Runners, Ids
      <4>4. last \in Ids \cup {0}
        BY <1>2, <1>3, <1>5
      <4> QED BY <4>2, <4>3, <4>4, CallsFinite
    <3>2. last =< runner.last
      BY <1>2, <1>3, <1>5, <3>1
    <3> QED BY <3>1, <3>2 DEF IInv, Counted
  <2> QED BY <1>1, <1>6, <1>10, <2>1 DEF IInv, Counted, BelowIssued
<1>12. Waiting'
  <2>1. UNCHANGED <<session, answer>>
    BY <1>w
  <2> QED BY <2>1 DEF IInv, Waiting
<1>13. Remembered'
  <2>1. Range(window'.frames) = {}
    BY <1>1, EmptyRange
  <2>2. \A i \in Ids : journal[i] # 0 => i =< last
    BY <1>2, <1>5 DEF known
  <2> QED BY <1>1, <1>2, <1>5, <1>6, <1>7, <2>1, <2>2 DEF Remembered
<1>14. Stopped'
  BY <1>6, <1>8 DEF Stopped
<1>15. Wires'
  <2>1. 0 \notin Sockets
    BY DEF Sockets
  <2>2. ASSUME NEW c \in Sockets PROVE Wire(session[c], up'[c], down'[c])
    <3>1. Wire(session[c], up[c], down[c])
      BY DEF IInv, Wires
    <3>2. session[c].phase = "none" => up'[c] = <<>> /\ down'[c] = <<>>
      BY <1>10, <3>1 DEF Wire, Quiet
    <3> QED BY <1>10, <3>1, <3>2, WireShrinks
  <2> QED BY <1>1, <1>6, <2>1, <2>2 DEF Wires
<1>16. Attention'
  BY <1>6, <1>8 DEF Attention, Sockets
<1> QED BY <1>9, <1>11, <1>12, <1>13, <1>14, <1>15, <1>16 DEF IInv

-----------------------------------------------------------------------------
(* The Worker.                                                              *)

\* The sessions cs end, who waits in them is rejected,
Ends(cs) ==
    /\ session' \in [Sockets -> Sessions] /\ cs \subseteq Sockets
    /\ \A c \in Sockets \ cs : session'[c] = session[c]
    /\ \A c \in cs : session'[c].phase = "closed" /\ session'[c].pending = {}
                     /\ session'[c].resume = 0 /\ session[c].phase # "none"

Rejects ==
    /\ answer' \in [Calls -> Answers]
    /\ \A k \in Calls : \/ answer'[k] = answer[k]
                        \/ /\ answer[k].status = "waiting"
                           /\ answer'[k].status = "rejected"
    /\ \A c \in Sockets : \A p \in session'[c].pending : answer'[p.call] = answer[p.call]

\* the wires lose frames or carry the news.
Announces(cs) ==
    /\ up' \in [Sockets -> Seq(UpFrames)] /\ down' \in [Sockets -> Seq(DownFrames)]
    /\ cut \subseteq cut'
    /\ \A c \in Sockets :
         /\ Range(up'[c]) \subseteq Range(up[c])
         /\ up[c] = <<>> => up'[c] = <<>>
         /\ \/ down'[c] = down[c]
            \/ down'[c] = <<>> /\ (c \in cut' \/ session[c].phase = "none")
            \/ /\ session[c].phase # "none"
               /\ \E f \in DownFrames :
                     f.kind \in {"goodbye", "nack"} /\ down'[c] = Append(down[c], f)
    /\ \A c \in cs : c = runner.socket /\ session[c].phase = "open" =>
         c \in cut' \/ \E f \in Range(down'[c]) : f.kind \in {"goodbye", "nack"}

LEMMA ToldDown ==
  ASSUME Typed, NEW c \in Sockets, NEW d, NEW f \in DownFrames,
         f.kind \in {"goodbye", "nack"}, d = Append(down[c], f)
  PROVE  /\ Range(d) = Range(down[c]) \cup {f} /\ ~IsCommand(f) /\ d \in Seq(DownFrames)
         /\ down[c] \in Seq(DownFrames)
<1>1. down[c] \in Seq(DownFrames)
  BY DEF Typed
<1> QED BY <1>1, RangeAppend DEF IsCommand

LEMMA SessionsEndStep ==
  ASSUME IInv, NEW cs, Ends(cs), Rejects, Announces(cs), gateway' \in Gateways,
         gateway'.next \in {gateway.next, 1},
         UNCHANGED <<runner, command, window, journal>>
  PROVE  IInv'
<1>1. ASSUME NEW c \in Sockets, NEW g \in Range(down'[c]), IsCommand(g)
      PROVE  g \in Range(down[c])
  <2>1. CASE down'[c] \in {down[c], <<>>}
    BY <1>1, <2>1, EmptyRange
  <2>2. CASE \E f \in DownFrames :
               f.kind \in {"goodbye", "nack"} /\ down'[c] = Append(down[c], f)
    <3>1. PICK f \in DownFrames :
               f.kind \in {"goodbye", "nack"} /\ down'[c] = Append(down[c], f)
      BY <2>2
    <3>2. Range(down'[c]) = Range(down[c]) \cup {f} /\ ~IsCommand(f)
      BY <3>1, ToldDown DEF IInv
    <3> QED BY <1>1, <3>2
  <2> QED BY <2>1, <2>2 DEF Announces
<1>2. Typed'
  BY DEF IInv, Typed, InFlight, Ends, Rejects, Announces
<1>3. Made(answer') = Made(answer) /\ Aborted(answer') = Aborted(answer)
  BY DEF Made, Aborted, Rejects
<1>4. Counted'
  <2>1. Issued(answer') = Issued(answer) /\ Issued(answer) \in Nat
    BY <1>3, CallsFinite DEF Issued
  <2>2. gateway'.next =< Issued(answer) + 1
    BY <2>1 DEF IInv, Counted
  <2>3. ASSUME NEW c \in Sockets
        PROVE  BelowIssued(Issued(answer), session'[c], up'[c], down'[c])
    <3>1. BelowIssued(Issued(answer), session[c], up[c], down[c])
      BY DEF IInv, Counted
    <3>2. /\ \A f \in Range(up'[c]) : f.kind = "hello" => f.last =< Issued(answer)
          /\ \A f \in Range(down'[c]) : IsCommand(f) => f.id =< Issued(answer)
      BY <1>1, <3>1 DEF BelowIssued, Announces
    <3>3. /\ session'[c].phase = "open" =>
                 0 < session'[c].next /\ session'[c].next =< Issued(answer) + 1
          /\ session'[c].resume =< Issued(answer)
      BY <2>1, <3>1 DEF BelowIssued, Ends
    <3> QED BY <3>2, <3>3 DEF BelowIssued
  <2> QED BY <1>3, <2>1, <2>2, <2>3 DEF IInv, Counted
<1>5. Waiting'
  <2>1. \A c \in Sockets : session'[c].pending \subseteq session[c].pending
    BY DEF Ends
  <2> QED BY <2>1 DEF IInv, Waiting, Rejects
<1>6. Remembered'
  BY DEF IInv, Remembered
<1>7. Stopped'
  BY DEF IInv, Stopped, InFlight, Ends, Typed, Runners
<1>8. ASSUME NEW c \in Sockets
      PROVE  /\ Wire(session[c], up'[c], down'[c])
             /\ runner.socket = c =>
                  OwnWire(session[c], up'[c], down'[c], runner.last, command, window.frames)
  <2>1. /\ Wire(session[c], up[c], down[c])
        /\ runner.socket = c =>
             OwnWire(session[c], up[c], down[c], runner.last, command, window.frames)
    BY DEF IInv, Wires
  <2>2. Range(up'[c]) \subseteq Range(up[c])
        /\ (session[c].phase = "none" => up'[c] = <<>> /\ down[c] = <<>>)
    BY <2>1 DEF Announces, Wire, Quiet
  <2>3. CASE down'[c] \in {down[c], <<>>}
    <3>1. Range(down'[c]) \subseteq Range(down[c]) /\ (Sorted(down[c]) => Sorted(down'[c]))
      BY <2>3, EmptyRange DEF Sorted
    <3>2. session[c].phase = "none" => down'[c] = <<>>
      BY <2>2, <2>3
    <3> QED BY <2>1, <2>2, <3>1, <3>2, WireShrinks, OwnWireShrinks
  <2>4. CASE /\ session[c].phase # "none"
             /\ \E f \in DownFrames :
                  f.kind \in {"goodbye", "nack"} /\ down'[c] = Append(down[c], f)
    <3>1. PICK f \in DownFrames :
                  f.kind \in {"goodbye", "nack"} /\ down'[c] = Append(down[c], f)
      BY <2>4
    <3>2. ~IsCommand(f) /\ down[c] \in Seq(DownFrames)
      BY <3>1, ToldDown DEF IInv
    <3>3. /\ Wire(session[c], up'[c], down[c])
          /\ runner.socket = c =>
               OwnWire(session[c], up'[c], down[c], runner.last, command, window.frames)
      BY <2>1, <2>2, WireShrinks, OwnWireShrinks
    <3> QED BY <2>4, <3>1, <3>2, <3>3, WireTold, OwnWireTold
  <2> QED BY <2>3, <2>4 DEF Announces
<1>9. Wires'
  <2>1. ASSUME NEW c \in Sockets
        PROVE  /\ Wire(session'[c], up'[c], down'[c])
               /\ runner.socket = c =>
                    OwnWire(session'[c], up'[c], down'[c], runner.last, command,
                            window.frames)
    <3>1. CASE c \in cs
      <4>1. session'[c].phase = "closed" /\ session'[c].pending = {}
        BY <3>1 DEF Ends
      <4> QED BY <1>8, <4>1, WireCloses, OwnWireCloses
    <3>2. CASE c \notin cs
      <4>1. session'[c] = session[c]
        BY <3>2 DEF Ends
      <4> QED BY <1>8, <4>1
    <3> QED BY <3>1, <3>2
  <2> QED BY <2>1 DEF Wires
<1>10. ASSUME NEW c \in Sockets, c = runner.socket, NEW i, NEW k,
              Attended(i, k, session[c], down[c], c \in cut)
       PROVE  Attended(i, k, session'[c], down'[c], c \in cut')
  <2>1. CASE c \in cut'
    BY <2>1 DEF Attended
  <2>2. CASE c \in cs /\ session[c].phase = "open"
    BY <1>10, <2>2 DEF Attended, Announces
  <2>3. CASE c \notin cut' /\ ~(c \in cs /\ session[c].phase = "open")
    <3>1. session'[c] = session[c] \/ session[c].pending = {}
      BY <2>3 DEF Ends, IInv, Wires, Wire, Quiet
    <3>2. session[c].phase # "none"
      BY <1>10 DEF IInv, Stopped, Sockets
    <3>3. Range(down[c]) \subseteq Range(down'[c])
      <4>1. CASE down'[c] = down[c]
        BY <4>1
      <4>2. CASE \E f \in DownFrames :
                  f.kind \in {"goodbye", "nack"} /\ down'[c] = Append(down[c], f)
        <5>1. PICK f \in DownFrames :
                  f.kind \in {"goodbye", "nack"} /\ down'[c] = Append(down[c], f)
          BY <4>2
        <5>2. Range(down'[c]) = Range(down[c]) \cup {f}
          BY <5>1, ToldDown DEF IInv
        <5> QED BY <5>2
      <4> QED BY <2>3, <3>2, <4>1, <4>2 DEF Announces
    <3>4. c \notin cut
      BY <2>3 DEF Announces
    <3> QED BY <1>10, <3>1, <3>3, <3>4 DEF Attended
  <2> QED BY <2>1, <2>2, <2>3
<1>11. Attention'
  <2>1. \A c \in Sockets : \A g \in Range(down'[c]) : IsPerform(g) => g \in Range(down[c])
    BY <1>1 DEF IsPerform
  <2>2. runner.socket \in Sockets \cup {0}
    BY DEF IInv, Typed, Runners
  <2> QED BY <1>10, <2>1, <2>2 DEF IInv, Attention, InFlight
<1> QED BY <1>2, <1>4, <1>5, <1>6, <1>7, <1>9, <1>11 DEF IInv

\* finish, of any sessions that were opened.
LEMMA Finished ==
  ASSUME IInv, NEW cs \in SUBSET Sockets, \A c \in cs : session[c].phase # "none",
         Finish(cs)
  PROVE  Ends(cs) /\ Rejects
<1>1. session \in [Sockets -> Sessions] /\ answer \in [Calls -> Answers]
  BY DEF IInv, Typed
<1>2. ASSUME NEW c \in Sockets
      PROVE  [NoSession EXCEPT !.phase = "closed",
                               !.authenticating = session[c].authenticating] \in Sessions
  BY <1>1 DEF NoSession, Sessions
<1>3. session' = [c \in Sockets |->
          IF c \in cs THEN [NoSession EXCEPT !.phase = "closed",
                               !.authenticating = session[c].authenticating]
          ELSE session[c]]
  BY DEF Finish
<1>4. session' \in [Sockets -> Sessions]
  BY <1>1, <1>2, <1>3
<1>5. Ends(cs)
  BY <1>3, <1>4 DEF Ends, NoSession
<1>6. answer' = [k \in Calls |-> IF \E c \in cs : k \in Callers(c)
                                 THEN [status |-> "rejected", by |-> 0] ELSE answer[k]]
  BY DEF Finish
<1>7. [status |-> "rejected", by |-> 0] \in Answers
  BY DEF Answers, Outcomes
<1>8. answer' \in [Calls -> Answers]
  BY <1>1, <1>6, <1>7
<1>9. ASSUME NEW k \in Calls
      PROVE  \/ answer'[k] = answer[k]
             \/ answer[k].status = "waiting" /\ answer'[k].status = "rejected"
  <2>1. CASE \E c \in cs : k \in Callers(c)
    <3>1. answer[k].status = "waiting"
      BY <2>1 DEF Callers, IInv, Waiting
    <3> QED BY <1>6, <2>1, <3>1
  <2>2. CASE ~(\E c \in cs : k \in Callers(c))
    BY <1>6, <2>2
  <2> QED BY <2>1, <2>2
<1>10. ASSUME NEW c \in Sockets, NEW p \in session'[c].pending
       PROVE  answer'[p.call] = answer[p.call]
  <2>1. c \notin cs /\ p \in session[c].pending
    BY <1>5 DEF Ends
  <2>2. p.call \in Calls
    BY <1>1, <2>1 DEF Sessions
  <2>3. \A d \in cs : p.call \notin Callers(d)
    BY <2>1 DEF Callers, IInv, Waiting
  <2> QED BY <1>6, <2>2, <2>3
<1> QED BY <1>5, <1>8, <1>9, <1>10 DEF Rejects

LEMMA Unrouted ==
  ASSUME Typed, NEW cs, Unroute(cs)
  PROVE  gateway' \in Gateways /\ gateway'.next = gateway.next
BY DEF Unroute, Typed, Gateways

LEMMA SignalTypes ==
  /\ [kind |-> "goodbye"] \in DownFrames /\ [kind |-> "nack"] \in DownFrames
  /\ [kind |-> "goodbye"].kind = "goodbye" /\ [kind |-> "nack"].kind = "nack"
BY DEF DownFrames

\* Closing one session with word of it.
LEMMA Announced ==
  ASSUME IInv, NEW c \in Sockets, session[c].phase # "none", NEW f \in DownFrames,
         f.kind \in {"goodbye", "nack"}, up' = [up EXCEPT ![c] = <<>>],
         down' = SendDown(down, c, f), UNCHANGED cut
  PROVE  Announces({c})
<1>1. up' \in [Sockets -> Seq(UpFrames)]
      /\ \A d \in Sockets : /\ Range(up'[d]) \subseteq Range(up[d])
                            /\ up[d] = <<>> => up'[d] = <<>>
  BY EmptyRange DEF IInv, Typed
<1>2. /\ down' \in [Sockets -> Seq(DownFrames)]
      /\ \A d \in Sockets : d # c => down'[d] = down[d]
      /\ down'[c] = IF runner.socket = c /\ c \notin cut THEN Append(down[c], f) ELSE down[c]
  BY SentDown DEF IInv
<1>3. c = runner.socket => c \in cut \/ f \in Range(down'[c])
  <2>1. f \in Range(Append(down[c], f))
    <3>1. down[c] \in Seq(DownFrames)
      BY DEF IInv, Typed
    <3> QED BY <3>1, RangeAppend
  <2> QED BY <1>2, <2>1
<1> QED BY <1>1, <1>2, <1>3 DEF Announces

LEMMA HostNoticesStep ==
  ASSUME IInv, NEW c \in Sockets, hostNotices(c)
  PROVE  IInv'
<1>1. /\ c \in Open /\ Finish({c}) /\ Unroute({c})
      /\ (c \in cut /\ UNCHANGED up) \/ (Arrives(up, c, "goodbye") /\ up' = Pop(up, c))
      /\ UNCHANGED <<runner, command, window, journal, down, cut>>
  BY DEF hostNotices, runnerVars
<1>2. session[c].phase # "none"
  BY <1>1 DEF Open
<1>3. Ends({c}) /\ Rejects
  BY <1>1, <1>2, Finished
<1>4. c = runner.socket => c \in cut
  <2>1. CASE Arrives(up, c, "goodbye")
    <3>1. Head(up[c]) \in Range(up[c]) /\ Head(up[c]).kind = "goodbye"
      BY <2>1, Popped DEF IInv, Arrives
    <3> QED BY <3>1 DEF IInv, Wires, OwnWire, Ordered
  <2> QED BY <1>1, <2>1
<1>5. /\ up' \in [Sockets -> Seq(UpFrames)]
      /\ \A d \in Sockets : /\ Range(up'[d]) \subseteq Range(up[d])
                            /\ up[d] = <<>> => up'[d] = <<>>
  <2>1. CASE UNCHANGED up
    BY <2>1 DEF IInv, Typed
  <2>2. CASE Arrives(up, c, "goodbye") /\ up' = Pop(up, c)
    <3>1. /\ up' = [up EXCEPT ![c] = Tail(up[c])] /\ up' \in [Sockets -> Seq(UpFrames)]
          /\ Range(Tail(up[c])) \subseteq Range(up[c]) /\ up[c] # <<>>
      BY <2>2, Popped DEF IInv, Arrives
    <3> QED BY <3>1 DEF IInv, Typed
  <2> QED BY <1>1, <2>1, <2>2
<1>6. Announces({c})
  BY <1>1, <1>4, <1>5 DEF Announces, IInv, Typed
<1> QED BY <1>1, <1>3, <1>6, Unrouted, SessionsEndStep DEF IInv

LEMMA TickCloseStep ==
  ASSUME IInv, NEW c \in Sockets, tickClose(c)
  PROVE  IInv'
<1>1. /\ c \in Open /\ Finish({c}) /\ Unroute({c})
      /\ up' = [up EXCEPT ![c] = <<>>] /\ down' = SendDown(down, c, [kind |-> "goodbye"])
      /\ UNCHANGED <<runner, command, window, journal, cut>>
  BY DEF tickClose, closeHost, runnerVars
<1>2. session[c].phase # "none"
  BY <1>1 DEF Open
<1>3. Ends({c}) /\ Rejects
  BY <1>1, <1>2, Finished
<1>4. Announces({c})
  BY <1>1, <1>2, SignalTypes, Announced
<1> QED BY <1>1, <1>3, <1>4, Unrouted, SessionsEndStep DEF IInv

LEMMA StopWorkerStep ==
  ASSUME IInv, stopWorker
  PROVE  IInv'
<1> DEFINE told == {c \in Open : session[c].phase = "hello" \/ gateway.route = c}
           cs == {c \in Sockets : session[c].phase # "none"}
           bye == [kind |-> "goodbye"]
<1>1. /\ session' = [c \in Sockets |-> IF session[c].phase = "none" THEN NoSession
                                       ELSE [NoSession EXCEPT !.phase = "closed"]]
      /\ answer' = [k \in Calls |-> IF answer[k].status = "waiting"
                      THEN [status |-> "rejected", by |-> 0] ELSE answer[k]]
      /\ gateway' = NoGateway /\ up' = [c \in Sockets |-> <<>>]
      /\ UNCHANGED <<runner, command, window, journal>>
  BY DEF stopWorker, runnerVars
<1>2. \/ /\ down' = [c \in Sockets |-> IF c \in told THEN SendDown(down, c, bye)[c]
                                       ELSE down[c]]
         /\ cut' = cut \cup (Open \ told)
      \/ /\ down' = [c \in Sockets |-> <<>>]
         /\ cut' = cut \cup {c \in Sockets : session[c].phase # "none"}
  BY DEF stopWorker
<1>3. Ends(cs)
  <2>1. NoSession \in Sessions /\ [NoSession EXCEPT !.phase = "closed"] \in Sessions
    BY DEF NoSession, Sessions
  <2>2. \A c \in Sockets : session[c].phase = "none" => session[c] = NoSession
    BY DEF IInv, Wires, Wire, Quiet
  <2> QED BY <1>1, <2>1, <2>2 DEF Ends, NoSession
<1>4. Rejects
  <2>1. [status |-> "rejected", by |-> 0] \in Answers
    BY DEF Answers, Outcomes
  <2>2. \A c \in Sockets : session'[c].pending = {}
    BY <1>1 DEF NoSession
  <2> QED BY <1>1, <2>1, <2>2 DEF IInv, Typed, Rejects
<1>5. gateway' \in Gateways /\ gateway'.next = 1
  BY <1>1 DEF NoGateway, Gateways
<1>6. /\ up' \in [Sockets -> Seq(UpFrames)]
      /\ \A c \in Sockets : Range(up'[c]) \subseteq Range(up[c]) /\ up'[c] = <<>>
  BY <1>1, EmptyRange
<1>7. told \subseteq Sockets /\ \A c \in told : session[c].phase # "none"
  BY DEF Open
<1>8. CASE /\ down' = [c \in Sockets |-> IF c \in told THEN SendDown(down, c, bye)[c]
                                         ELSE down[c]]
           /\ cut' = cut \cup (Open \ told)
  <2>1. bye \in DownFrames /\ bye.kind = "goodbye"
    BY SignalTypes
  <2>2. down \in [Sockets -> Seq(DownFrames)]
    BY DEF IInv, Typed
  <2>3. ASSUME NEW c \in told
        PROVE  /\ down'[c] \in Seq(DownFrames)
               /\ down'[c] = down[c] \/ down'[c] = Append(down[c], bye)
               /\ c = runner.socket => c \in cut' \/ bye \in Range(down'[c])
    <3>1. c \in Sockets
      BY <1>7, <2>3
    <3>2. /\ SendDown(down, c, bye) \in [Sockets -> Seq(DownFrames)]
          /\ SendDown(down, c, bye)[c] = IF runner.socket = c /\ c \notin cut
                                         THEN Append(down[c], bye) ELSE down[c]
      BY <2>1, <3>1, SentDown DEF IInv
    <3>3. down'[c] = SendDown(down, c, bye)[c]
      BY <1>8, <2>3, <3>1
    <3>4. down[c] \in Seq(DownFrames) /\ Range(Append(down[c], bye)) = Range(down[c]) \cup {bye}
      BY <2>1, <2>2, <3>1, RangeAppend
    <3> QED BY <1>8, <3>1, <3>2, <3>3, <3>4
  <2>4. ASSUME NEW c \in Sockets, c \notin told
        PROVE  down'[c] = down[c] /\ (session[c].phase = "open" => c \in cut')
    BY <1>8, <2>4 DEF Open
  <2> HIDE DEF told, bye
  <2>5. down' \in [Sockets -> Seq(DownFrames)]
    BY <1>8, <2>2, <2>3, <2>4
  <2>6. Announces(cs)
    <3>1. ASSUME NEW c \in Sockets
          PROVE  \/ down'[c] = down[c]
                 \/ /\ session[c].phase # "none"
                    /\ \E f \in DownFrames :
                         f.kind \in {"goodbye", "nack"} /\ down'[c] = Append(down[c], f)
      BY <1>7, <2>1, <2>3, <2>4
    <3>2. ASSUME NEW c \in cs, c = runner.socket, session[c].phase = "open"
          PROVE  c \in cut' \/ \E f \in Range(down'[c]) : f.kind \in {"goodbye", "nack"}
      BY <2>1, <2>3, <2>4, <3>2
    <3>3. cut \subseteq cut'
      BY <1>8
    <3> QED BY <1>6, <2>5, <3>1, <3>2, <3>3 DEF Announces
  <2> QED BY <1>1, <1>3, <1>4, <1>5, <2>6, SessionsEndStep
<1>9. CASE /\ down' = [c \in Sockets |-> <<>>]
           /\ cut' = cut \cup {c \in Sockets : session[c].phase # "none"}
  <2>1. Announces(cs)
    BY <1>6, <1>9 DEF Announces
  <2> QED BY <1>1, <1>3, <1>4, <1>5, <2>1, SessionsEndStep
<1> QED BY <1>2, <1>8, <1>9

\* A lookup that came too late changes the session's mark only.
LEMMA MarksStep ==
  ASSUME IInv, NEW c \in Sockets, session[c].phase = "closed",
         session' = [session EXCEPT ![c].authenticating = FALSE],
         gateway' \in Gateways, gateway'.next = gateway.next,
         UNCHANGED <<runner, command, window, journal, answer, up, down, cut>>
  PROVE  IInv'
<1>1. /\ session' \in [Sockets -> Sessions]
      /\ session'[c].phase = "closed" /\ session'[c].pending = session[c].pending
      /\ session'[c].resume = session[c].resume
      /\ \A d \in Sockets : d # c => session'[d] = session[d]
  BY ZenonT(60) DEF IInv, Typed, Sessions
<1>2. session[c].pending = {}
  BY DEF IInv, Wires, Wire, Quiet
<1>3. Typed' /\ Counted' /\ Remembered'
  BY <1>1 DEF IInv, Typed, InFlight, Counted, BelowIssued, Remembered
<1>4. Waiting'
  <2>1. \A d \in Sockets : session'[d].pending = session[d].pending
    BY <1>1
  <2> QED BY <2>1 DEF IInv, Waiting
<1>5. Stopped'
  BY <1>1 DEF IInv, Stopped, InFlight
<1>6. Wires'
  BY <1>1, <1>2, WireCloses, OwnWireCloses DEF IInv, Wires
<1>7. Attention'
  BY <1>1 DEF IInv, Attention, Attended, InFlight, Typed, Runners
<1> QED BY <1>3, <1>4, <1>5, <1>6, <1>7 DEF IInv

LEMMA RejectedStep ==
  ASSUME IInv, NEW c \in Sockets, rejected(c)
  PROVE  IInv'
<1>1. session[c].authenticating /\ UNCHANGED <<runner, command, window, journal, cut>>
  BY DEF rejected, runnerVars
<1>2. session[c].phase # "none"
  BY <1>1 DEF IInv, Wires, Wire, Quiet, NoSession
<1>3. CASE session[c].phase = "closed"
  BY <1>1, <1>3, MarksStep DEF rejected, IInv, Typed
<1>4. CASE session[c].phase # "closed"
  <2>1. /\ session' = [session EXCEPT ![c] = [NoSession EXCEPT !.phase = "closed"]]
        /\ down' = SendDown(down, c, [kind |-> "nack"]) /\ up' = [up EXCEPT ![c] = <<>>]
        /\ UNCHANGED <<gateway, answer>>
    BY <1>4 DEF rejected
  <2>2. [NoSession EXCEPT !.phase = "closed"] \in Sessions
    BY DEF NoSession, Sessions
  <2>3. Ends({c})
    BY <1>2, <2>1, <2>2 DEF Ends, NoSession, IInv, Typed
  <2>4. Rejects
    BY <2>1 DEF Rejects, IInv, Typed
  <2>5. Announces({c})
    BY <1>1, <1>2, <2>1, SignalTypes, Announced
  <2> QED BY <1>1, <2>1, <2>3, <2>4, <2>5, SessionsEndStep DEF IInv, Typed
<1> QED BY <1>3, <1>4

\* What of a session matters to its wire.
Alike(x, y) ==
    /\ x.phase = y.phase /\ x.phase # "none" /\ x.authenticating = y.authenticating
    /\ x.resume = y.resume /\ x.next = y.next /\ y.pending \subseteq x.pending

LEMMA WireAlike ==
  ASSUME NEW x, NEW y, NEW u, NEW d, Alike(x, y), Wire(x, u, d)
  PROVE  Wire(y, u, d)
BY DEF Alike, Wire, Quiet, Greeting, Serving

LEMMA OwnWireAlike ==
  ASSUME NEW x, NEW y, NEW u, NEW d, NEW last, NEW cmd, NEW win, Alike(x, y),
         OwnWire(x, u, d, last, cmd, win)
  PROVE  OwnWire(y, u, d, last, cmd, win)
BY DEF Alike, OwnWire, Introduced, Executing

\* The Worker sends the frame f, which is no command, and takes the frames it read.
Tells(c, f) ==
    /\ session[c].phase # "none" /\ f \in DownFrames /\ ~IsCommand(f)
    /\ down' = SendDown(down, c, f)
    /\ up' \in [Sockets -> Seq(UpFrames)]
    /\ \A d \in Sockets : Range(up'[d]) \subseteq Range(up[d]) /\ (d # c => up'[d] = up[d])
    /\ session' \in [Sockets -> Sessions]
    /\ \A d \in Sockets : d # c => session'[d] = session[d]
    /\ UNCHANGED <<runner, command, window, journal, gateway, answer, cut>>

LEMMA TellsStep ==
  ASSUME IInv, NEW c \in Sockets, NEW f, Tells(c, f), Alike(session[c], session'[c]),
         session'[c].pending = session[c].pending
  PROVE  IInv'
<1>1. UNCHANGED <<runner, command, window, journal, gateway, answer, cut>>
      /\ f \in DownFrames /\ ~IsCommand(f) /\ session[c].phase # "none"
      /\ \A d \in Sockets : d # c => session'[d] = session[d] /\ up'[d] = up[d]
  BY DEF Tells
<1>2. /\ down' \in [Sockets -> Seq(DownFrames)]
      /\ \A d \in Sockets : d # c => down'[d] = down[d]
      /\ down'[c] = down[c] \/ down'[c] = Append(down[c], f)
  BY SentDown DEF IInv, Tells
<1>3. down[c] \in Seq(DownFrames) /\ Range(Append(down[c], f)) = Range(down[c]) \cup {f}
  <2>1. down[c] \in Seq(DownFrames)
    BY DEF IInv, Typed
  <2> QED BY <1>1, <2>1, RangeAppend
<1>4. Typed'
  BY <1>1, <1>2 DEF IInv, Typed, InFlight, Tells
<1>5. Counted'
  <2>1. ASSUME NEW d \in Sockets
        PROVE  BelowIssued(Issued(answer), session'[d], up'[d], down'[d])
    <3>1. BelowIssued(Issued(answer), session[d], up[d], down[d])
      BY DEF IInv, Counted
    <3>2. CASE d = c
      BY <1>1, <1>2, <1>3, <3>1, <3>2 DEF BelowIssued, Tells, Alike
    <3>3. CASE d # c
      BY <1>1, <1>2, <3>1, <3>3
    <3> QED BY <3>2, <3>3
  <2> QED BY <1>1, <2>1 DEF IInv, Counted
<1>6. Waiting'
  <2>1. \A d \in Sockets : session'[d].pending = session[d].pending
    BY <1>1
  <2> QED BY <1>1, <2>1 DEF IInv, Waiting
<1>7. Remembered' /\ Stopped'
  BY <1>1 DEF IInv, Remembered, Stopped, InFlight, Alike, Typed, Runners
<1>8. /\ Wire(session'[c], up'[c], down'[c])
      /\ runner.socket = c =>
           OwnWire(session'[c], up'[c], down'[c], runner.last, command, window.frames)
  <2>1. /\ Wire(session[c], up'[c], down[c])
        /\ runner.socket = c =>
             OwnWire(session[c], up'[c], down[c], runner.last, command, window.frames)
    BY <1>1, WireShrinks, OwnWireShrinks DEF IInv, Wires, Tells
  <2>2. /\ Wire(session[c], up'[c], down'[c])
        /\ runner.socket = c =>
             OwnWire(session[c], up'[c], down'[c], runner.last, command, window.frames)
    <3>1. CASE down'[c] = down[c]
      BY <2>1, <3>1
    <3>2. CASE down'[c] = Append(down[c], f)
      BY <1>1, <1>3, <2>1, <3>2, WireTold, OwnWireTold
    <3> QED BY <1>2, <3>1, <3>2
  <2> QED BY <2>2, WireAlike, OwnWireAlike
<1>9. Wires'
  BY <1>1, <1>2, <1>8 DEF IInv, Wires
<1>10. Attention'
  <2>1. \A g \in Range(down'[c]) : IsPerform(g) => g \in Range(down[c])
    BY <1>1, <1>2, <1>3 DEF IsPerform
  <2>2. Range(down[c]) \subseteq Range(down'[c])
    BY <1>2, <1>3
  <2>3. ASSUME NEW d \in Sockets, NEW i, NEW k,
               Attended(i, k, session[d], down[d], d \in cut)
        PROVE  Attended(i, k, session'[d], down'[d], d \in cut)
    <3>1. CASE d = c
      BY <2>2, <2>3, <3>1 DEF Attended
    <3>2. CASE d # c
      BY <1>1, <1>2, <2>3, <3>2
    <3> QED BY <3>1, <3>2
  <2>4. runner.socket \in Sockets \cup {0}
    BY DEF IInv, Typed, Runners
  <2>5. \A d \in Sockets : \A g \in Range(down'[d]) : IsPerform(g) => g \in Range(down[d])
    BY <1>2, <2>1
  <2> QED BY <1>1, <2>3, <2>4, <2>5 DEF IInv, Attention, InFlight
<1> QED BY <1>4, <1>5, <1>6, <1>7, <1>9, <1>10 DEF IInv

LEMMA TickAckStep ==
  ASSUME IInv, tickAck
  PROVE  IInv'
<1> DEFINE c == gateway.route
           f == [kind |-> "ack", cursor |-> session[c].consumed]
<1>1. /\ c # 0 /\ session[c].phase = "open" /\ session[c].consumed > session[c].acked
      /\ session' = [session EXCEPT ![c].acked = session[c].consumed]
      /\ down' = SendDown(down, c, f)
      /\ UNCHANGED <<runner, command, window, journal, gateway, answer, up, cut>>
  BY DEF tickAck, runnerVars
<1>2. c \in Sockets
  BY <1>1 DEF IInv, Typed, Gateways
<1>3. session[c] \in Sessions /\ up \in [Sockets -> Seq(UpFrames)]
  BY <1>2 DEF IInv, Typed
<1>4. f \in DownFrames /\ ~IsCommand(f)
  <2>1. session[c].consumed \in Nat \ {0}
    BY <1>1, <1>3 DEF Sessions
  <2> QED BY <2>1 DEF DownFrames, IsCommand
<1>5. /\ session' \in [Sockets -> Sessions] /\ Alike(session[c], session'[c])
      /\ session'[c].pending = session[c].pending
      /\ \A d \in Sockets : d # c => session'[d] = session[d]
  BY <1>1, <1>2, <1>3 DEF IInv, Typed, Sessions, Alike
<1> HIDE DEF f
<1>6. Tells(c, f)
  BY <1>1, <1>3, <1>4, <1>5 DEF Tells
<1> QED BY <1>2, <1>5, <1>6, TellsStep

\* The mark of the device is taken over from its hello.
LEMMA HelloStep ==
  ASSUME IInv, NEW c \in Sockets, session[c].phase = "hello", Arrives(up, c, "hello"),
         session' = [session EXCEPT ![c].authenticating = TRUE,
                                    ![c].resume = Head(up[c]).last],
         up' = Pop(up, c),
         UNCHANGED <<runner, command, window, journal, gateway, answer, down, cut>>
  PROVE  IInv'
<1> DEFINE h == Head(up[c])
<1>1. /\ up' = [up EXCEPT ![c] = Tail(up[c])] /\ up' \in [Sockets -> Seq(UpFrames)]
      /\ Range(Tail(up[c])) \subseteq Range(up[c])
      /\ h \in Range(up[c]) /\ h \in UpFrames /\ h.kind = "hello"
  BY Popped DEF IInv, Arrives
<1>2. h.last \in Ids \cup {0}
  BY <1>1, UpKinds
<1>3. session[c] \in Sessions
  BY DEF IInv, Typed
<1>4. /\ session'[c].phase = "hello" /\ session'[c].authenticating
      /\ session'[c].resume = h.last /\ session'[c].pending = session[c].pending
      /\ \A d \in Sockets : d # c => session'[d] = session[d]
  BY <1>3 DEF IInv, Typed, Sessions
<1>5. session' \in [Sockets -> Sessions]
  <2>1. [session[c] EXCEPT !.authenticating = TRUE, !.resume = h.last] \in Sessions
    BY <1>2, <1>3 DEF Sessions
  <2>2. session' = [session EXCEPT ![c] = [session[c] EXCEPT !.authenticating = TRUE,
                                                             !.resume = h.last]]
    BY <1>3 DEF IInv, Typed, Sessions
  <2> QED BY <2>1, <2>2 DEF IInv, Typed
<1> HIDE DEF h
<1>6. up'[c] = Tail(up[c]) /\ \A d \in Sockets : d # c => up'[d] = up[d]
  BY <1>1 DEF IInv, Typed
<1>7. /\ Wire(session[c], up[c], down[c])
      /\ runner.socket = c =>
           OwnWire(session[c], up[c], down[c], runner.last, command, window.frames)
  BY DEF IInv, Wires
<1>8. Typed'
  BY <1>1, <1>5 DEF IInv, Typed, InFlight
<1>9. Counted'
  <2>1. BelowIssued(Issued(answer), session[c], up[c], down[c])
    BY DEF IInv, Counted
  <2>2. BelowIssued(Issued(answer), session'[c], up'[c], down[c])
    BY <1>1, <1>4, <1>6, <2>1 DEF BelowIssued
  <2> QED BY <1>4, <1>6, <2>2 DEF IInv, Counted
<1>10. Waiting'
  <2>1. \A d \in Sockets : session'[d].pending = session[d].pending
    BY <1>4
  <2>2. Waiting /\ answer' = answer
    BY DEF IInv
  <2> QED BY ONLY <2>1, <2>2 DEF Waiting
<1>11. Remembered' /\ Stopped'
  BY <1>4 DEF IInv, Remembered, Stopped, InFlight, Typed, Runners
<1>12. Wire(session'[c], up'[c], down[c])
  <2>1. Quiet(session'[c], up'[c], down[c])
    BY <1>4, <1>7 DEF Wire, Quiet
  <2>2. Greeting(session'[c], up'[c])
    BY <1>1, <1>4, <1>6, <1>7 DEF Wire, Greeting
  <2>3. Serving(session'[c], up'[c])
    BY <1>4 DEF Serving
  <2> QED BY <2>1, <2>2, <2>3 DEF Wire
<1>13. ASSUME runner.socket = c
       PROVE  OwnWire(session'[c], up'[c], down[c], runner.last, command, window.frames)
  <2>1. Introduced(session'[c], up'[c], runner.last)
    BY <1>1, <1>4, <1>6, <1>7, <1>13 DEF OwnWire, Introduced
  <2>2. Executing(session'[c], down[c], runner.last, command, window.frames)
    BY <1>4 DEF Executing
  <2>3. Ordered(up'[c], down[c], runner.last, command)
    BY <1>1, <1>6, <1>7, <1>13 DEF OwnWire, Ordered
  <2> QED BY <2>1, <2>2, <2>3 DEF OwnWire
<1>14. Wires'
  BY <1>4, <1>6, <1>12, <1>13 DEF IInv, Wires
<1>15. Attention'
  <2>1. \A d \in Sockets : session'[d].pending = session[d].pending
    BY <1>4
  <2>2. runner.socket \in Sockets \cup {0}
    BY DEF IInv, Typed, Runners
  <2> QED BY <2>1, <2>2 DEF IInv, Attention, Attended, InFlight
<1> QED BY <1>8, <1>9, <1>10, <1>11, <1>14, <1>15 DEF IInv

LEMMA HandleUnauthenticatedStep ==
  ASSUME IInv, NEW c \in Sockets, handleUnauthenticated(c)
  PROVE  IInv'
<1>1. /\ session[c].phase = "hello" /\ up' = Pop(up, c)
      /\ UNCHANGED <<runner, command, window, journal, gateway, answer, cut>>
  BY DEF handleUnauthenticated, runnerVars
<1>2. CASE /\ Arrives(up, c, "hello")
           /\ session' = [session EXCEPT ![c].authenticating = TRUE,
                                         ![c].resume = Head(up[c]).last]
           /\ UNCHANGED down
  BY <1>1, <1>2, HelloStep
<1>3. CASE /\ Arrives(up, c, "result") /\ UNCHANGED session
           /\ down' = SendDown(down, c, [kind |-> "nack"])
  <2>1. /\ up' = [up EXCEPT ![c] = Tail(up[c])] /\ up' \in [Sockets -> Seq(UpFrames)]
        /\ Range(Tail(up[c])) \subseteq Range(up[c])
    BY <1>1, <1>3, Popped DEF IInv
  <2>2. session' \in [Sockets -> Sessions] /\ up \in [Sockets -> Seq(UpFrames)]
    BY <1>3 DEF IInv, Typed
  <2>3. Tells(c, [kind |-> "nack"])
    BY <1>1, <1>3, <2>1, <2>2, SignalTypes DEF Tells, IsCommand
  <2> QED BY <1>1, <1>3, <2>3, TellsStep DEF Alike
<1> QED BY <1>2, <1>3 DEF handleUnauthenticated

\* A session that opens starts above the mark and with nobody waiting.
LEMMA OpensStep ==
  ASSUME IInv, NEW c \in Sockets, session[c].phase = "hello", session[c].authenticating,
         session'[c].phase = "open", ~session'[c].authenticating,
         session'[c].pending = {}, session'[c].resume = 0,
         session'[c].next \in {gateway.next, session[c].resume + 1},
         session'[c].next >= gateway.next, session'[c].next >= session[c].resume + 1,
         session' \in [Sockets -> Sessions],
         \A d \in Sockets : d # c => session'[d] = session[d],
         gateway' \in Gateways, gateway'.next = gateway.next,
         NEW f \in DownFrames, ~IsCommand(f), down' = SendDown(down, c, f),
         UNCHANGED <<runner, command, window, journal, answer, up, cut>>
  PROVE  IInv'
<1>1. /\ down' \in [Sockets -> Seq(DownFrames)]
      /\ \A d \in Sockets : d # c => down'[d] = down[d]
      /\ down'[c] = down[c] \/ down'[c] = Append(down[c], f)
  BY SentDown DEF IInv
<1>2. down[c] \in Seq(DownFrames) /\ Range(Append(down[c], f)) = Range(down[c]) \cup {f}
  <2>1. down[c] \in Seq(DownFrames)
    BY DEF IInv, Typed
  <2> QED BY <2>1, RangeAppend
<1>3. /\ Wire(session[c], up[c], down[c])
      /\ runner.socket = c =>
           OwnWire(session[c], up[c], down[c], runner.last, command, window.frames)
  BY DEF IInv, Wires
<1>4. session[c].pending = {} /\ \A g \in Range(down[c]) : ~IsCommand(g)
  BY <1>3 DEF Wire, Quiet
<1>5. /\ session[c].resume \in Nat /\ gateway.next \in Nat \ {0}
      /\ session'[c].next \in Nat /\ runner.last \in Nat
  <2>1. /\ session[c] \in Sessions /\ session'[c] \in Sessions
        /\ gateway \in Gateways /\ runner \in Runners
    BY DEF IInv, Typed
  <2> QED BY ONLY <2>1 DEF Sessions, Gateways, Runners, Ids
<1>6. Typed'
  BY <1>1 DEF IInv, Typed, InFlight
<1>7. Counted'
  <2>1. BelowIssued(Issued(answer), session[c], up[c], down[c])
        /\ gateway.next =< Issued(answer) + 1 /\ Issued(answer) \in Nat
    BY CallsFinite DEF IInv, Counted
  <2>2. BelowIssued(Issued(answer), session'[c], up[c], down'[c])
    <3>1. 0 < session'[c].next /\ session'[c].next =< Issued(answer) + 1
      BY <1>5, <2>1 DEF BelowIssued
    <3>2. \A g \in Range(down'[c]) : ~IsCommand(g)
      BY <1>1, <1>2, <1>4
    <3> QED BY <2>1, <3>1, <3>2 DEF BelowIssued
  <2>3. \A d \in Sockets : d # c =>
           BelowIssued(Issued(answer), session'[d], up[d], down'[d])
    BY <1>1 DEF IInv, Counted
  <2> QED BY <2>2, <2>3 DEF IInv, Counted
<1>8. \A d \in Sockets : session'[d].pending = session[d].pending
  BY <1>4
<1>9. Waiting'
  BY <1>8 DEF IInv, Waiting
<1>10. Remembered' /\ Stopped'
  BY DEF IInv, Remembered, Stopped, InFlight, Typed, Runners
<1>11. Wire(session'[c], up[c], down'[c])
  <2>1. Serving(session'[c], up[c])
    <3>1. \A g \in Range(up[c]) : IsResult(g) => g.id \in Nat
      BY FramesTyped, UpKinds DEF IInv, Ids
    <3> QED BY <1>3, <1>5, <3>1 DEF Wire, Greeting, Serving
  <2>2. Wire(session'[c], up[c], down[c])
    BY <2>1 DEF Wire, Quiet, Greeting
  <2>3. Wire(session'[c], up[c], Append(down[c], f))
    <3>1. session'[c].phase # "none"
      OBVIOUS
    <3> QED BY <1>2, <2>2, <3>1, WireTold
  <2> QED BY <1>1, <2>2, <2>3
<1>12. ASSUME runner.socket = c
       PROVE  OwnWire(session'[c], up[c], down'[c], runner.last, command, window.frames)
  <2>1. runner.last < session'[c].next
    BY <1>3, <1>5, <1>12 DEF OwnWire, Introduced
  <2>2. Executing(session'[c], down[c], runner.last, command, window.frames)
    BY <1>4, <2>1 DEF Executing
  <2>3. OwnWire(session'[c], up[c], down[c], runner.last, command, window.frames)
    BY <1>3, <1>12, <2>2 DEF OwnWire, Introduced
  <2>4. OwnWire(session'[c], up[c], Append(down[c], f), runner.last, command, window.frames)
    BY <1>2, <2>3, OwnWireTold
  <2> QED BY <1>1, <2>3, <2>4
<1>13. Wires'
  BY <1>1, <1>11, <1>12 DEF IInv, Wires
<1>14. Attention'
  <2>1. Range(down[c]) \subseteq Range(down'[c])
        /\ \A g \in Range(down'[c]) : ~IsPerform(g)
    BY <1>1, <1>2, <1>4 DEF IsPerform
  <2>2. ASSUME NEW d \in Sockets, NEW i, NEW k,
               Attended(i, k, session[d], down[d], d \in cut)
        PROVE  Attended(i, k, session'[d], down'[d], d \in cut)
    <3>1. Range(down[d]) \subseteq Range(down'[d])
      BY <1>1, <2>1
    <3> QED BY <1>8, <2>2, <3>1 DEF Attended
  <2>3. \A d \in Sockets : \A g \in Range(down'[d]) : IsPerform(g) => g \in Range(down[d])
    BY <1>1, <2>1
  <2>4. runner.socket \in Sockets \cup {0}
    BY DEF IInv, Typed, Runners
  <2> QED BY <2>2, <2>3, <2>4 DEF IInv, Attention, InFlight
<1> QED BY <1>6, <1>7, <1>9, <1>10, <1>13, <1>14 DEF IInv

LEMMA AuthenticatedStep ==
  ASSUME IInv, NEW c \in Sockets, authenticated(c)
  PROVE  IInv'
<1>1. /\ session[c].authenticating /\ gateway' = [gateway EXCEPT !.route = c]
      /\ UNCHANGED <<runner, command, window, journal, answer, up, cut>>
  BY DEF authenticated, runnerVars
<1>2. gateway' \in Gateways /\ gateway'.next = gateway.next
  BY <1>1 DEF IInv, Typed, Gateways
<1>3. CASE session[c].phase = "closed"
  BY <1>1, <1>2, <1>3, MarksStep DEF authenticated
<1>4. CASE session[c].phase # "closed"
  <2> DEFINE n == Max({gateway.next, session[c].resume + 1})
             y == [NoSession EXCEPT !.phase = "open", !.next = n,
                      !.consumed = gateway.consumed, !.acked = gateway.consumed]
             f == [kind |-> "welcome", from |-> gateway.consumed + 1]
  <2>1. session' = [session EXCEPT ![c] = y] /\ down' = SendDown(down, c, f)
    BY <1>4 DEF authenticated, initialCommandId
  <2>2. session[c] \in Sessions /\ gateway \in Gateways
    BY DEF IInv, Typed
  <2>3. session[c].phase = "hello"
    <3>1. Wire(session[c], up[c], down[c])
      BY DEF IInv, Wires
    <3>2. session[c].phase \in {"none", "hello", "open", "closed"}
      BY <2>2 DEF Sessions
    <3> QED BY <1>1, <1>4, <3>1, <3>2 DEF Wire, Quiet, Serving, NoSession
  <2>4. /\ n \in {gateway.next, session[c].resume + 1}
        /\ n >= gateway.next /\ n >= session[c].resume + 1 /\ n \in Nat
    <3>1. gateway.next \in Nat /\ session[c].resume + 1 \in Nat
      BY <2>2 DEF Sessions, Gateways, Ids
    <3> QED BY <3>1, MaxOfTwo
  <2>5. f \in DownFrames /\ ~IsCommand(f)
    <3>1. gateway.consumed + 1 \in Nat \ {0}
      BY <2>2 DEF Gateways
    <3> QED BY <3>1 DEF DownFrames, IsCommand
  <2> HIDE DEF n, f
  <2>6. /\ y \in Sessions /\ y.phase = "open" /\ ~y.authenticating /\ y.pending = {}
        /\ y.resume = 0 /\ y.next = n
    <3>1. gateway.consumed \in Nat
      BY <2>2 DEF Gateways
    <3> QED BY <2>4, <3>1 DEF NoSession, Sessions
  <2> HIDE DEF y
  <2>7. /\ session' \in [Sockets -> Sessions] /\ session'[c] = y
        /\ \A d \in Sockets : d # c => session'[d] = session[d]
    BY <2>1, <2>6 DEF IInv, Typed
  <2>8. /\ session'[c].phase = "open" /\ ~session'[c].authenticating
        /\ session'[c].pending = {} /\ session'[c].resume = 0
        /\ session'[c].next \in {gateway.next, session[c].resume + 1}
        /\ session'[c].next >= gateway.next /\ session'[c].next >= session[c].resume + 1
    BY <2>4, <2>6, <2>7
  <2> QED BY <1>1, <1>2, <2>1, <2>3, <2>5, <2>7, <2>8, OpensStep
<1> QED BY <1>3, <1>4

\* The Worker issues the command f, the next id of its session, for one call that
\* is added or one that is removed.
Issues(c, f) ==
    /\ session[c].phase = "open" /\ session'[c].phase = "open"
    /\ f \in DownFrames /\ IsCommand(f) /\ f.id = session[c].next
    /\ IsAbort(f) => f.target < f.id
    /\ session' \in [Sockets -> Sessions]
    /\ \A d \in Sockets : d # c => session'[d] = session[d]
    /\ session'[c].next = f.id + 1 /\ session'[c].resume = session[c].resume
    /\ ~session'[c].authenticating
    /\ \A p \in session'[c].pending :
          p \in session[c].pending \/ (IsPerform(f) /\ p = [id |-> f.id, call |-> f.call])
    /\ \A p \in session[c].pending :
          p \in session'[c].pending \/ (IsAbort(f) /\ f.target = p.id)
    /\ IsPerform(f) => [id |-> f.id, call |-> f.call] \in session'[c].pending
    /\ gateway' \in Gateways /\ gateway'.next = f.id + 1
    /\ down' = SendDown(down, c, f)
    /\ UNCHANGED <<runner, command, window, journal, up, cut>>

LEMMA IssuedServing ==
  ASSUME IInv, NEW c \in Sockets, NEW f, Issues(c, f)
  PROVE  Wire(session'[c], up[c], Append(down[c], f))
<1>1. Serving(session[c], up[c]) /\ session[c].phase = "open"
  BY DEF IInv, Wires, Wire, Issues
<1>2. /\ f.id \in Nat /\ session[c].next = f.id /\ session'[c].next = f.id + 1
      /\ session'[c].phase = "open" /\ ~session'[c].authenticating
      /\ \A p \in session'[c].pending :
            p \in session[c].pending \/ p = [id |-> f.id, call |-> f.call]
  BY DownKinds DEF Issues, Ids
<1>3. /\ \A g \in Range(up[c]) : IsResult(g) => g.id \in Nat
      /\ \A p \in session[c].pending : p.id \in Nat
  <2>1. session[c] \in Sessions
    BY DEF IInv, Typed
  <2>2. \A p \in session[c].pending : p.id \in Nat
    BY <2>1 DEF Sessions, Ids
  <2> QED BY <2>2, FramesTyped, UpKinds DEF IInv, Ids
<1>4. Serving(session'[c], up[c])
  BY ONLY <1>1, <1>2, <1>3 DEF Serving
<1> QED BY <1>2, <1>4 DEF Wire, Quiet, Greeting

LEMMA IssuedExecuting ==
  ASSUME IInv, NEW c \in Sockets, NEW f, Issues(c, f), runner.socket = c
  PROVE  OwnWire(session'[c], up[c], Append(down[c], f), runner.last, command,
                 window.frames)
<1>1. /\ Executing(session[c], down[c], runner.last, command, window.frames)
      /\ Ordered(up[c], down[c], runner.last, command)
      /\ Serving(session[c], up[c]) /\ session[c].phase = "open"
  BY DEF IInv, Wires, OwnWire, Wire, Issues
<1>2. /\ f.id \in Nat /\ session[c].next = f.id /\ session'[c].next = f.id + 1
      /\ session'[c].phase = "open" /\ IsCommand(f) /\ f \in DownFrames
      /\ IsAbort(f) => f.target < f.id
      /\ \A p \in session'[c].pending :
            p \in session[c].pending \/ (IsPerform(f) /\ p = [id |-> f.id, call |-> f.call])
  BY DownKinds DEF Issues, Ids
<1>3. /\ \A p \in session[c].pending : p.id \in Nat
      /\ \A g \in Range(down[c]) : IsCommand(g) => g.id \in Nat
      /\ \A g \in Range(window.frames) : g.id \in Ids /\ g.id \in Nat
      /\ runner.last \in Nat
  <2>1. session[c] \in Sessions /\ runner \in Runners
    BY DEF IInv, Typed
  <2>2. (\A p \in session[c].pending : p.id \in Nat) /\ runner.last \in Nat
    BY <2>1 DEF Sessions, Runners, Ids
  <2> QED BY <2>2, FramesTyped, DownKinds DEF IInv, Ids
<1>4. /\ \A i \in Ids : command[i].status # "unknown" => i =< runner.last
      /\ \A g \in Range(window.frames) : g.id =< runner.last
  BY <1>3 DEF IInv, Remembered
<1>5. f.id \in Ids
  BY <1>2, DownKinds
<1>6. runner.last < f.id
  BY <1>1, <1>2 DEF Executing
<1>7. down[c] \in Seq(DownFrames) /\ Range(Append(down[c], f)) = Range(down[c]) \cup {f}
  <2>1. down[c] \in Seq(DownFrames)
    BY DEF IInv, Typed
  <2> QED BY <1>2, <2>1, RangeAppend
<1>8. \A g \in Range(down[c]) : IsCommand(g) => g.id < f.id
  BY <1>1, <1>2 DEF Executing
<1>9. \A g \in Range(Append(down[c], f)) : IsCommand(g) =>
          /\ g.id < session'[c].next
          /\ \A p \in session'[c].pending : p.id = g.id => IsPerform(g) /\ g.call = p.call
  <2>1. \A p \in session[c].pending : p.id < f.id
    BY <1>1, <1>2 DEF Serving
  <2>2. ASSUME NEW g \in Range(down[c]), IsCommand(g)
        PROVE  /\ g.id < session'[c].next
               /\ \A p \in session'[c].pending : p.id = g.id => IsPerform(g) /\ g.call = p.call
    <3>1. g.id < f.id /\ g.id \in Nat
      BY <1>3, <1>8, <2>2
    <3>2. \A p \in session[c].pending : p.id = g.id => IsPerform(g) /\ g.call = p.call
      BY <1>1, <2>2 DEF Executing
    <3> QED BY ONLY <1>2, <3>1, <3>2
  <2>3. /\ f.id < session'[c].next
        /\ \A p \in session'[c].pending : p.id = f.id => IsPerform(f) /\ f.call = p.call
    BY ONLY <1>2, <1>3, <2>1
  <2> QED BY ONLY <1>7, <2>2, <2>3
<1>10. \A p \in session'[c].pending :
          /\ command[p.id].status # "unknown" => command[p.id].call = p.call
          /\ \A g \in Range(window.frames) : g.id = p.id => g.outcome = p.call
  <2>1. \A p \in session[c].pending :
          /\ command[p.id].status # "unknown" => command[p.id].call = p.call
          /\ \A g \in Range(window.frames) : g.id = p.id => g.outcome = p.call
    BY <1>1 DEF Executing
  <2>2. command[f.id].status = "unknown" /\ \A g \in Range(window.frames) : g.id # f.id
    BY ONLY <1>2, <1>3, <1>4, <1>5, <1>6
  <2> QED BY ONLY <1>2, <2>1, <2>2
<1>11. Executing(session'[c], Append(down[c], f), runner.last, command, window.frames)
  <2>1. runner.last < session'[c].next
    BY ONLY <1>2, <1>3, <1>6
  <2> QED BY <1>9, <1>10, <2>1 DEF Executing
<1>12. Ordered(up[c], Append(down[c], f), runner.last, command)
  <2>1. Sorted(Append(down[c], f))
    BY <1>1, <1>2, <1>7, <1>8, SortedAppend DEF Ordered
  <2>2. \A g \in Range(Append(down[c], f)) : /\ IsCommand(g) => runner.last < g.id
                                             /\ IsAbort(g) => g.target < g.id
    BY <1>1, <1>2, <1>6, <1>7 DEF Ordered
  <2> QED BY <1>1, <2>1, <2>2 DEF Ordered
<1> QED BY <1>2, <1>11, <1>12 DEF OwnWire, Introduced

\* One more id is accounted for, and the callers still wait in one place.
Accounts ==
    /\ answer' \in [Calls -> Answers] /\ Issued(answer) + 1 =< Issued(answer')
    /\ Cardinality(Aborted(answer')) =< MaxAborts /\ Waiting'

LEMMA IssueStep ==
  ASSUME IInv, NEW c \in Sockets, NEW f, Issues(c, f), Accounts
  PROVE  IInv'
<1>1. /\ UNCHANGED <<runner, command, window, journal, up, cut>>
      /\ f \in DownFrames /\ f.id = session[c].next /\ session[c].phase = "open"
      /\ session'[c].phase = "open" /\ session'[c].next = f.id + 1
      /\ session'[c].resume = session[c].resume /\ gateway'.next = f.id + 1
      /\ \A d \in Sockets : d # c => session'[d] = session[d]
  BY DEF Issues
<1>2. /\ down' \in [Sockets -> Seq(DownFrames)]
      /\ \A d \in Sockets : d # c => down'[d] = down[d]
      /\ down'[c] = IF runner.socket = c /\ c \notin cut THEN Append(down[c], f) ELSE down[c]
  BY SentDown DEF IInv, Issues
<1>3. /\ down[c] \in Seq(DownFrames) /\ Range(Append(down[c], f)) = Range(down[c]) \cup {f}
      /\ Range(down[c]) \subseteq Range(down'[c])
      /\ Range(down'[c]) \subseteq Range(Append(down[c], f))
  <2>1. down[c] \in Seq(DownFrames)
    BY DEF IInv, Typed
  <2>2. Range(Append(down[c], f)) = Range(down[c]) \cup {f}
    BY <1>1, <2>1, RangeAppend
  <2> QED BY <1>2, <2>1, <2>2
<1>4. Typed'
  BY <1>1, <1>2 DEF IInv, Typed, InFlight, Issues, Accounts
<1>5. Issued(answer) \in Nat /\ Issued(answer') \in Nat /\ f.id \in Nat
      /\ f.id =< Issued(answer) + 1 /\ Issued(answer) + 1 =< Issued(answer')
  <2>1. BelowIssued(Issued(answer), session[c], up[c], down[c])
    BY DEF IInv, Counted
  <2>2. f.id =< Issued(answer) + 1
    BY ONLY <1>1, <2>1 DEF BelowIssued
  <2>3. f.id \in Nat
    <3>1. session[c] \in Sessions
      BY DEF IInv, Typed
    <3> QED BY <1>1, <3>1 DEF Sessions
  <2> QED BY <2>2, <2>3, CallsFinite DEF Accounts
<1>6. Counted'
  <2>1. runner.last =< Issued(answer')
    <3>1. runner.last =< Issued(answer) /\ runner.last \in Nat
      BY DEF IInv, Counted, Typed, Runners, Ids
    <3> QED BY ONLY <1>5, <3>1
  <2>2. ASSUME NEW d \in Sockets
        PROVE  BelowIssued(Issued(answer'), session[d], up[d], down[d])
    <3>1. BelowIssued(Issued(answer), session[d], up[d], down[d])
      BY DEF IInv, Counted
    <3>2. session[d] \in Sessions /\ up[d] \in Seq(UpFrames) /\ down[d] \in Seq(DownFrames)
      BY DEF IInv, Typed
    <3>3. Issued(answer) =< Issued(answer')
      BY ONLY <1>5
    <3> QED BY <1>5, <3>1, <3>2, <3>3, BelowMore
  <2>3. BelowIssued(Issued(answer'), session'[c], up[c], down'[c])
    <3>1. /\ \A g \in Range(down'[c]) : IsCommand(g) => g.id =< Issued(answer')
      <4>1. \A g \in Range(down[c]) : IsCommand(g) => g.id =< Issued(answer')
        BY <2>2 DEF BelowIssued
      <4>2. f.id =< Issued(answer')
        BY ONLY <1>5
      <4> QED BY ONLY <1>3, <4>1, <4>2
    <3>2. 0 < f.id + 1 /\ f.id + 1 =< Issued(answer') + 1
      BY ONLY <1>5
    <3>3. BelowIssued(Issued(answer'), session[c], up[c], down[c])
      BY <2>2
    <3> QED BY ONLY <1>1, <3>1, <3>2, <3>3 DEF BelowIssued
  <2>4. \A d \in Sockets : d # c =>
           BelowIssued(Issued(answer'), session'[d], up[d], down'[d])
    BY <1>1, <1>2, <2>2
  <2>5. gateway'.next =< Issued(answer') + 1
    BY ONLY <1>1, <1>5
  <2> QED BY <1>1, <2>1, <2>3, <2>4, <2>5 DEF Counted, Accounts
<1>7. Waiting'
  BY DEF Accounts
<1>8. Remembered' /\ Stopped'
  BY <1>1 DEF IInv, Remembered, Stopped, InFlight, Typed, Runners
<1>9. Wire(session'[c], up[c], down'[c])
  <2>1. Wire(session'[c], up[c], Append(down[c], f))
    BY IssuedServing
  <2>2. session'[c].phase # "none"
    BY <1>1
  <2> QED BY <1>3, <2>1, <2>2, WireShrinks
<1>10. ASSUME runner.socket = c
       PROVE  OwnWire(session'[c], up[c], down'[c], runner.last, command, window.frames)
  <2>1. OwnWire(session'[c], up[c], Append(down[c], f), runner.last, command,
                window.frames)
    BY <1>10, IssuedExecuting
  <2>2. Sorted(Append(down[c], f)) => Sorted(down'[c])
    <3>1. Sorted(down[c])
      BY <1>10 DEF IInv, Wires, OwnWire, Ordered
    <3> QED BY <1>2, <3>1
  <2> QED BY <1>3, <2>1, <2>2, OwnWireShrinks
<1>11. Wires'
  BY <1>1, <1>2, <1>9, <1>10 DEF IInv, Wires
<1>12. ASSUME NEW d \in Sockets, d = runner.socket, NEW i, NEW k,
              Attended(i, k, session[d], down[d], d \in cut)
       PROVE  Attended(i, k, session'[d], down'[d], d \in cut)
  <2>1. CASE d # c
    BY <1>1, <1>2, <1>12, <2>1
  <2>2. CASE d = c /\ c \in cut
    BY <2>2 DEF Attended
  <2>3. CASE d = c /\ c \notin cut
    <3>1. f \in Range(down'[c])
      BY <1>2, <1>3, <1>12, <2>3
    <3>2. CASE [id |-> i, call |-> k] \in session[c].pending
      <4>1. [id |-> i, call |-> k] \in session'[c].pending \/ (IsAbort(f) /\ f.target = i)
        BY <3>2 DEF Issues
      <4> QED BY <2>3, <3>1, <4>1 DEF Attended
    <3>3. CASE ~([id |-> i, call |-> k] \in session[c].pending)
      BY <1>3, <1>12, <2>3, <3>3 DEF Attended
    <3> QED BY <3>2, <3>3
  <2> QED BY <2>1, <2>2, <2>3
<1>13. Attention'
  <2>1. ASSUME NEW d \in Sockets, runner.socket = d, NEW g \in Range(down'[d]), IsPerform(g)
        PROVE  Attended(g.id, g.call, session'[d], down'[d], d \in cut)
    <3>1. CASE g \in Range(down[d])
      BY <1>12, <2>1, <3>1 DEF IInv, Attention
    <3>2. CASE d = c /\ g = f
      BY <2>1, <3>2 DEF Attended, Issues
    <3> QED BY <1>2, <1>3, <2>1, <3>1, <3>2
  <2>2. runner.socket \in Sockets \cup {0}
    BY DEF IInv, Typed, Runners
  <2> QED BY <1>1, <1>12, <2>1, <2>2 DEF IInv, Attention, InFlight
<1> QED BY <1>4, <1>6, <1>7, <1>8, <1>11, <1>13 DEF IInv

LEMMA NextId ==
  ASSUME IInv, NEW c \in Sockets, session[c].phase = "open", NEW b,
         Issued(answer) + 1 =< Issued(b), Cardinality(Aborted(b)) =< MaxAborts
  PROVE  session[c].next \in Ids
<1>1. 0 < session[c].next /\ session[c].next =< Issued(answer) + 1
  <2>1. BelowIssued(Issued(answer), session[c], up[c], down[c])
    BY DEF IInv, Counted
  <2> QED BY <2>1 DEF BelowIssued
<1>2. session[c].next \in Nat
  <2>1. session[c] \in Sessions
    BY DEF IInv, Typed
  <2> QED BY <2>1 DEF Sessions
<1>3. /\ Issued(answer) \in Nat /\ Issued(b) = Cardinality(Made(b)) + Cardinality(Aborted(b))
      /\ Cardinality(Made(b)) \in Nat /\ Cardinality(Aborted(b)) \in Nat
      /\ Cardinality(Made(b)) =< MaxCalls
  BY CallsFinite DEF Issued
<1>4. MaxCalls \in Nat /\ MaxAborts \in Nat
  BY RunnerLinkAssumption
<1>5. session[c].next =< MaxCalls + MaxAborts
  BY <1>1, <1>2, <1>3, <1>4
<1> QED BY <1>1, <1>2, <1>4, <1>5 DEF Ids

LEMMA CallStep ==
  ASSUME IInv, NEW k \in Calls, call(k)
  PROVE  IInv'
<1> DEFINE c == gateway.route
           id == session[c].next
           f == [kind |-> "command", op |-> "perform", id |-> id, call |-> k]
           p == [id |-> id, call |-> k]
<1>1. /\ answer[k].status = "none" /\ c # 0 /\ session[c].phase = "open"
      /\ answer' = [answer EXCEPT ![k].status = "waiting"]
      /\ session' = [session EXCEPT ![c].next = id + 1, ![c].pending = @ \cup {p}]
      /\ gateway' = [gateway EXCEPT !.next = id + 1] /\ down' = SendDown(down, c, f)
      /\ UNCHANGED <<runner, command, window, journal, up, cut>>
  BY DEF call, Issue, runnerVars
<1>2. c \in Sockets /\ session[c] \in Sessions
  BY <1>1 DEF IInv, Typed, Gateways
<1>3. /\ answer \in [Calls -> Answers] /\ answer' \in [Calls -> Answers]
      /\ answer'[k].status = "waiting" /\ \A j \in Calls : j # k => answer'[j] = answer[j]
  BY <1>1 DEF IInv, Typed, Answers
<1>4. Continues(answer, answer') /\ Made(answer) # Made(answer')
      /\ Aborted(answer') = Aborted(answer)
  BY <1>1, <1>3 DEF Continues, Made, Aborted
<1>5. /\ Issued(answer) + 1 =< Issued(answer')
      /\ Cardinality(Aborted(answer')) =< MaxAborts
  BY <1>4, IssuedGrows DEF IInv, Counted
<1>6. id \in Ids
  BY <1>1, <1>2, <1>5, NextId
<1>7. /\ f \in DownFrames /\ IsCommand(f) /\ f.id = id /\ f.call = k
      /\ IsPerform(f) /\ ~IsAbort(f)
  BY <1>6 DEF DownFrames, IsCommand, IsPerform, IsAbort
<1>8. p \in [id: Ids, call: Calls] /\ p = [id |-> f.id, call |-> f.call] /\ p.call = k
  BY <1>6
<1> HIDE DEF f, p
<1>9. /\ session' \in [Sockets -> Sessions] /\ session'[c].phase = "open"
      /\ session'[c].next = id + 1 /\ session'[c].resume = session[c].resume
      /\ session'[c].authenticating = session[c].authenticating
      /\ session'[c].pending = session[c].pending \cup {p}
      /\ \A d \in Sockets : d # c => session'[d] = session[d]
  <2> DEFINE x == [session[c] EXCEPT !.next = id + 1, !.pending = @ \cup {p}]
  <2>1. id + 1 \in Nat
    BY <1>6 DEF Ids
  <2>2. session \in [Sockets -> Sessions] /\ session[c] \in Sessions /\ c \in Sockets
    BY <1>1, <1>2 DEF IInv, Typed
  <2>3. x \in Sessions
    BY <1>2, <1>8, <2>1 DEF Sessions
  <2>4. /\ x.phase = session[c].phase /\ x.next = id + 1
        /\ x.resume = session[c].resume
        /\ x.authenticating = session[c].authenticating
        /\ x.pending = session[c].pending \cup {p}
    BY ONLY <2>2 DEF Sessions
  <2>5. session' = [session EXCEPT ![c] = x]
    BY <1>1, <1>2 DEF IInv, Typed, Sessions
  <2> HIDE DEF x
  <2>6. session'[c] = x /\ session' \in [Sockets -> Sessions]
        /\ \A d \in Sockets : d # c => session'[d] = session[d]
    BY ONLY <2>2, <2>3, <2>5
  <2>7. session[c].phase = "open"
    BY <1>1
  <2> QED BY ONLY <2>4, <2>6, <2>7
<1>10. gateway' \in Gateways /\ gateway'.next = id + 1
  <2>1. id + 1 \in Nat \ {0}
    BY <1>6 DEF Ids
  <2> QED BY <1>1, <2>1 DEF IInv, Typed, Gateways
<1>11. ~session[c].authenticating
  BY <1>1, <1>2 DEF IInv, Wires, Wire, Serving
<1>12. Issues(c, f)
  BY <1>1, <1>7, <1>8, <1>9, <1>10, <1>11 DEF Issues
<1>13. Waiting'
  <2>1. /\ \A d \in Sockets : \A q \in session[d].pending :
              answer[q.call].status = "waiting" /\ q.call \in Calls /\ q.call # k
        /\ Waiting
    <3>1. Waiting /\ \A d \in Sockets : session[d] \in Sessions
      BY DEF IInv, Typed
    <3> QED BY <1>1, <3>1 DEF Waiting, Sessions
  <2>2. \A d \in Sockets : \A q \in session'[d].pending :
           q \in session[d].pending \/ (d = c /\ q = p)
    BY <1>9
  <2>3. \A d \in Sockets : \A q \in session'[d].pending : answer'[q.call].status = "waiting"
    BY ONLY <1>3, <1>8, <2>1, <2>2
  <2>4. \A d, e \in Sockets : \A q \in session'[d].pending, r \in session'[e].pending :
           q.call = r.call => d = e /\ q = r
    BY ONLY <1>8, <2>1, <2>2 DEF Waiting
  <2> QED BY <2>3, <2>4 DEF Waiting
<1> QED BY <1>2, <1>3, <1>5, <1>12, <1>13, IssueStep DEF Accounts

LEMMA AbortStep ==
  ASSUME IInv, NEW c \in Sockets, NEW p \in session[c].pending, abort(c, p)
  PROVE  IInv'
<1> DEFINE id == session[c].next
           f == [kind |-> "command", op |-> "abort", id |-> id, target |-> p.id]
<1>1. /\ Cardinality(Aborted(answer)) < MaxAborts
      /\ answer' = [answer EXCEPT ![p.call].status = "aborted"]
      /\ session' = [session EXCEPT ![c].next = id + 1, ![c].pending = @ \ {p}]
      /\ gateway' = [gateway EXCEPT !.next = id + 1] /\ down' = SendDown(down, c, f)
      /\ UNCHANGED <<runner, command, window, journal, up, cut>>
  BY DEF abort, Issue, runnerVars, Aborted
<1>2. session[c] \in Sessions /\ p \in [id: Ids, call: Calls]
  <2>1. session[c] \in Sessions
    BY DEF IInv, Typed
  <2> QED BY <2>1 DEF Sessions
<1>3. /\ session[c].phase = "open" /\ ~session[c].authenticating /\ p.id < id
      /\ answer[p.call].status = "waiting"
  BY DEF IInv, Wires, Wire, Quiet, Serving, Waiting
<1>4. /\ answer \in [Calls -> Answers] /\ answer' \in [Calls -> Answers]
      /\ answer'[p.call].status = "aborted" /\ p.call \in Calls
      /\ \A j \in Calls : j # p.call => answer'[j] = answer[j]
  <2>1. answer \in [Calls -> Answers] /\ p.call \in Calls
    BY <1>2 DEF IInv, Typed
  <2> QED BY ONLY <1>1, <2>1 DEF Answers
<1>5. /\ Made(answer') = Made(answer) /\ p.call \notin Aborted(answer)
      /\ Aborted(answer') = Aborted(answer) \cup {p.call}
  BY <1>3, <1>4 DEF Made, Aborted
<1>6. /\ Issued(answer) + 1 =< Issued(answer')
      /\ Cardinality(Aborted(answer')) =< MaxAborts
  <2>1. Cardinality(Aborted(answer')) = Cardinality(Aborted(answer)) + 1
    BY <1>5, CallsFinite, FS_AddElement
  <2>2. Continues(answer, answer') /\ Aborted(answer) # Aborted(answer')
    BY <1>5 DEF Continues
  <2>3. Cardinality(Aborted(answer)) \in Nat /\ MaxAborts \in Nat
    BY CallsFinite, RunnerLinkAssumption
  <2>4. Issued(answer) + 1 =< Issued(answer')
    BY <2>2, IssuedGrows
  <2> QED BY <1>1, <2>1, <2>3, <2>4
<1>7. id \in Ids
  BY <1>3, <1>6, NextId
<1>8. /\ f \in DownFrames /\ IsCommand(f) /\ f.id = id /\ f.target = p.id
      /\ ~IsPerform(f) /\ IsAbort(f)
  BY <1>2, <1>7 DEF DownFrames, IsCommand, IsPerform, IsAbort
<1> HIDE DEF f
<1>9. /\ session' \in [Sockets -> Sessions] /\ session'[c].phase = "open"
      /\ session'[c].next = id + 1 /\ session'[c].resume = session[c].resume
      /\ session'[c].authenticating = session[c].authenticating
      /\ session'[c].pending = session[c].pending \ {p}
      /\ \A d \in Sockets : d # c => session'[d] = session[d]
  <2>1. id + 1 \in Nat
    BY <1>7 DEF Ids
  <2>2. [session[c] EXCEPT !.next = id + 1, !.pending = @ \ {p}] \in Sessions
    BY <1>2, <2>1 DEF Sessions
  <2>3. session' = [session EXCEPT ![c] =
                      [session[c] EXCEPT !.next = id + 1, !.pending = @ \ {p}]]
    BY <1>1, <1>2 DEF IInv, Typed, Sessions
  <2> QED BY <1>2, <1>3, <2>2, <2>3 DEF IInv, Typed, Sessions
<1>10. gateway' \in Gateways /\ gateway'.next = id + 1
  <2>1. id + 1 \in Nat \ {0}
    BY <1>7 DEF Ids
  <2> QED BY <1>1, <2>1 DEF IInv, Typed, Gateways
<1>11. Issues(c, f)
  BY <1>1, <1>3, <1>8, <1>9, <1>10 DEF Issues
<1>12. Waiting'
  <2>1. Waiting /\ \A d \in Sockets : \A q \in session[d].pending : q.call \in Calls
    <3>1. Waiting /\ \A d \in Sockets : session[d] \in Sessions
      BY DEF IInv, Typed
    <3> QED BY <3>1 DEF Sessions
  <2>2. \A d \in Sockets : \A q \in session'[d].pending :
           q \in session[d].pending /\ ~(d = c /\ q = p)
    BY <1>9
  <2> QED BY ONLY <1>4, <2>1, <2>2, p \in session[c].pending, c \in Sockets DEF Waiting
<1> QED BY <1>4, <1>6, <1>11, <1>12, IssueStep DEF Accounts

\* What a result means for who reads it.
LEMMA ResultRead ==
  ASSUME IInv, NEW c \in Sockets, result(c)
  PROVE  LET f == Head(up[c])
             w == {p \in session[c].pending : p.id = f.id}
         IN  /\ up' = [up EXCEPT ![c] = Tail(up[c])]
             /\ up' \in [Sockets -> Seq(UpFrames)]
             /\ Range(Tail(up[c])) \subseteq Range(up[c])
             /\ f \in Range(up[c]) /\ IsResult(f) /\ f.id \in Ids /\ f.outcome \in Outcomes
             /\ f.cursor \in Nat
             /\ session[c].phase = "open"
             /\ answer' = [k \in Calls |-> IF k \in {p.call : p \in w}
                             THEN [status |-> "answered", by |-> f.outcome] ELSE answer[k]]
             /\ \A p \in w : f.outcome = p.call /\ answer[p.call].status = "waiting"
             /\ UNCHANGED <<runner, command, window, journal, down, cut>>
<1> DEFINE f == Head(up[c])
           w == {p \in session[c].pending : p.id = f.id}
<1>1. /\ session[c].phase = "open" /\ Arrives(up, c, "result") /\ up' = Pop(up, c)
      /\ answer' = [k \in Calls |-> IF k \in {p.call : p \in w}
                      THEN [status |-> "answered", by |-> f.outcome] ELSE answer[k]]
      /\ UNCHANGED <<runner, command, window, journal, down, cut>>
  BY DEF result, runnerVars
<1>2. /\ up' = [up EXCEPT ![c] = Tail(up[c])] /\ up' \in [Sockets -> Seq(UpFrames)]
      /\ Range(Tail(up[c])) \subseteq Range(up[c])
      /\ f \in Range(up[c]) /\ f \in UpFrames
  BY <1>1, Popped DEF IInv
<1>3. IsResult(f) /\ f.id \in Ids /\ f.outcome \in Outcomes /\ f.cursor \in Nat
  <2>1. IsResult(f)
    BY <1>1 DEF Arrives, IsResult
  <2> QED BY <1>2, <2>1, UpKinds
<1>4. \A p \in w : f.outcome = p.call
  BY <1>1, <1>2, <1>3 DEF IInv, Wires, Wire, Serving
<1>5. \A p \in w : answer[p.call].status = "waiting"
  BY DEF IInv, Waiting
<1> HIDE DEF f, w
<1>6. f = Head(up[c]) /\ w = {p \in session[c].pending : p.id = f.id}
  BY DEF f, w
<1> QED BY <1>1, <1>2, <1>3, <1>4, <1>5 DEF f, w

\* Nobody else waits for the id of a result: its command is settled and behind.
LEMMA NobodyElse ==
  ASSUME IInv, NEW c \in Sockets, c = runner.socket, NEW f \in Range(up[c]), IsResult(f),
         f.id \in Ids
  PROVE  /\ \A g \in Range(down[c]) : IsPerform(g) => g.id # f.id
         /\ f.id \notin InFlight
<1>1. Ordered(up[c], down[c], runner.last, command)
  BY DEF IInv, Wires, OwnWire
<1>2. command[f.id].status = "settled"
  BY <1>1 DEF Ordered
<1>3. f.id =< runner.last
  BY <1>2 DEF IInv, Remembered
<1>4. runner.last \in Nat /\ f.id \in Nat
  BY DEF IInv, Typed, Runners, Ids
<1>5. \A g \in Range(down[c]) : IsPerform(g) => runner.last < g.id
  BY <1>1 DEF Ordered, IsPerform
<1>6. \A g \in Range(down[c]) : IsPerform(g) => g.id # f.id
  BY ONLY <1>3, <1>4, <1>5
<1> QED BY <1>2, <1>6 DEF InFlight

LEMMA ResultStep ==
  ASSUME IInv, NEW c \in Sockets, result(c)
  PROVE  IInv'
<1> DEFINE f == Head(up[c])
           w == {p \in session[c].pending : p.id = f.id}
           consumed == Max({session[c].consumed, f.cursor})
           s == session[c]
<1>1. /\ up' = [up EXCEPT ![c] = Tail(up[c])] /\ up' \in [Sockets -> Seq(UpFrames)]
      /\ Range(Tail(up[c])) \subseteq Range(up[c])
      /\ f \in Range(up[c]) /\ IsResult(f) /\ f.id \in Ids /\ f.outcome \in Outcomes
      /\ f.cursor \in Nat /\ s.phase = "open"
      /\ answer' = [k \in Calls |-> IF k \in {p.call : p \in w}
                      THEN [status |-> "answered", by |-> f.outcome] ELSE answer[k]]
      /\ \A p \in w : f.outcome = p.call /\ answer[p.call].status = "waiting"
      /\ UNCHANGED <<runner, command, window, journal, down, cut>>
  BY ResultRead
<1>2. /\ session' = [session EXCEPT ![c].pending = @ \ w, ![c].consumed = consumed]
      /\ gateway' = IF consumed > session[c].consumed
                    THEN [gateway EXCEPT !.consumed = consumed] ELSE gateway
  BY DEF result
<1>3. s \in Sessions
  BY DEF IInv, Typed
<1>4. consumed \in Nat
  <2>1. s.consumed \in Nat
    BY <1>3 DEF Sessions
  <2> QED BY <1>1, <2>1, MaxOfTwo
<1> HIDE DEF consumed
<1>5. w \subseteq s.pending /\ \A p \in w : p.id = f.id /\ p.call \in Calls
  BY <1>3 DEF Sessions
<1>6. /\ session' \in [Sockets -> Sessions] /\ Alike(s, session'[c])
      /\ session'[c].pending = s.pending \ w
      /\ \A d \in Sockets : d # c => session'[d] = session[d]
  <2>1. [s EXCEPT !.pending = @ \ w, !.consumed = consumed] \in Sessions
    BY <1>3, <1>4 DEF Sessions
  <2>2. session' = [session EXCEPT ![c] = [s EXCEPT !.pending = @ \ w,
                                                    !.consumed = consumed]]
    BY <1>2, <1>3 DEF IInv, Typed, Sessions
  <2>3. session' \in [Sockets -> Sessions]
        /\ session'[c] = [s EXCEPT !.pending = @ \ w, !.consumed = consumed]
        /\ \A d \in Sockets : d # c => session'[d] = session[d]
    BY <2>1, <2>2 DEF IInv, Typed
  <2>4. Alike(s, session'[c]) /\ session'[c].pending = s.pending \ w
    BY <1>1, <1>3, <2>3 DEF Sessions, Alike
  <2> QED BY <2>3, <2>4
<1>7. gateway' \in Gateways /\ gateway'.next = gateway.next
  BY <1>2, <1>4 DEF IInv, Typed, Gateways
<1>8. /\ \A k \in Calls : answer'[k] = answer[k]
            \/ (answer'[k].status = "answered" /\ answer[k].status = "waiting"
                 /\ \E p \in w : k = p.call)
      /\ answer' \in [Calls -> Answers]
  <2>1. [status |-> "answered", by |-> f.outcome] \in Answers
    BY <1>1 DEF Answers
  <2>2. answer \in [Calls -> Answers]
    BY DEF IInv, Typed
  <2> HIDE DEF w, f
  <2> QED BY <1>1, <2>1, <2>2
<1>9. up'[c] = Tail(up[c]) /\ (\A d \in Sockets : d # c => up'[d] = up[d])
      /\ Range(up'[c]) \subseteq Range(up[c])
  BY <1>1 DEF IInv, Typed
<1> HIDE DEF w, f
<1>10. Typed'
  <2>1. Typed /\ UNCHANGED <<runner, command, window, journal, down>>
    BY <1>1 DEF IInv
  <2> QED BY ONLY <1>1, <1>6, <1>7, <1>8, <2>1 DEF Typed, InFlight
<1>11. Counted'
  <2>1. Made(answer') = Made(answer) /\ Aborted(answer') = Aborted(answer)
    BY ONLY <1>8 DEF Made, Aborted
  <2>2. Issued(answer') = Issued(answer)
    BY <2>1 DEF Issued
  <2>3. BelowIssued(Issued(answer), session'[c], up'[c], down[c])
    <3>1. BelowIssued(Issued(answer), s, up[c], down[c])
      BY DEF IInv, Counted
    <3> QED BY ONLY <1>6, <1>9, <3>1 DEF BelowIssued, Alike
  <2>4. \A d \in Sockets : d # c =>
           BelowIssued(Issued(answer), session'[d], up'[d], down[d])
    BY <1>6, <1>9 DEF IInv, Counted
  <2>5. Counted /\ UNCHANGED <<runner, down>>
    BY <1>1 DEF IInv
  <2> QED BY ONLY <1>7, <2>1, <2>2, <2>3, <2>4, <2>5 DEF Counted
<1>12. Waiting'
  <2>1. Waiting /\ \A d \in Sockets : \A q \in session[d].pending : q.call \in Calls
    <3>1. Waiting /\ \A d \in Sockets : session[d] \in Sessions
      BY DEF IInv, Typed
    <3> QED BY <3>1 DEF Sessions
  <2>2. \A d \in Sockets : \A q \in session'[d].pending :
           q \in session[d].pending /\ ~(d = c /\ q \in w)
    BY <1>6
  <2>3. c \in Sockets /\ w \subseteq session[c].pending
    BY <1>5
  <2>4. \A d \in Sockets : \A q \in session'[d].pending : \A p \in w : q.call # p.call
    BY ONLY <2>1, <2>2, <2>3 DEF Waiting
  <2>5. \A d \in Sockets : \A q \in session'[d].pending : answer'[q.call] = answer[q.call]
    BY ONLY <1>8, <2>1, <2>2, <2>4
  <2> QED BY ONLY <2>1, <2>2, <2>5 DEF Waiting
<1>13. Remembered' /\ Stopped'
  BY <1>1, <1>6 DEF IInv, Remembered, Stopped, InFlight, Alike, Typed, Runners
<1>14. Wires'
  <2>1. Wire(s, up'[c], down[c])
    <3>1. Wire(s, up[c], down[c]) /\ s.phase # "none"
      BY <1>1 DEF IInv, Wires
    <3> QED BY <1>9, <3>1, WireShrinks
  <2>2. ASSUME runner.socket = c
        PROVE  OwnWire(s, up'[c], down[c], runner.last, command, window.frames)
    <3>1. OwnWire(s, up[c], down[c], runner.last, command, window.frames)
      BY <2>2 DEF IInv, Wires
    <3> QED BY <1>9, <3>1, OwnWireShrinks
  <2>3. Wire(session'[c], up'[c], down[c])
    BY <1>6, <2>1, WireAlike
  <2>4. runner.socket = c =>
           OwnWire(session'[c], up'[c], down[c], runner.last, command, window.frames)
    BY <1>6, <2>2, OwnWireAlike
  <2>5. Wires /\ UNCHANGED <<runner, command, window, down>>
    BY <1>1 DEF IInv
  <2> QED BY ONLY <1>6, <1>9, <2>3, <2>4, <2>5 DEF Wires
<1>15. ASSUME NEW d \in Sockets, d = runner.socket, NEW i, NEW k, i # f.id \/ d # c,
              Attended(i, k, session[d], down[d], d \in cut)
       PROVE  Attended(i, k, session'[d], down[d], d \in cut)
  <2>1. [id |-> i, call |-> k] \in session[d].pending =>
           [id |-> i, call |-> k] \in session'[d].pending
    BY <1>5, <1>6, <1>15
  <2> QED BY <1>15, <2>1 DEF Attended
<1>16. Attention'
  <2>1. runner.socket = c => /\ \A g \in Range(down[c]) : IsPerform(g) => g.id # f.id
                             /\ f.id \notin InFlight
    BY <1>1, NobodyElse
  <2>2. runner.socket \in Sockets \cup {0}
    BY DEF IInv, Typed, Runners
  <2>3. UNCHANGED <<runner, command, down, cut, InFlight>>
    BY <1>1 DEF InFlight
  <2>4. Attention
    BY DEF IInv
  <2> QED BY ONLY <1>15, <2>1, <2>2, <2>3, <2>4 DEF Attention
<1> QED BY <1>10, <1>11, <1>12, <1>13, <1>14, <1>16 DEF IInv

-----------------------------------------------------------------------------
(* The invariant.                                                           *)

LEMMA InitInv ==
  ASSUME Init
  PROVE  IInv
<1>1. /\ runner = [socket |-> 0, welcomed |-> FALSE, terminated |-> FALSE, last |-> 0,
                   retry |-> TRUE, state |-> "connecting"]
      /\ command = [i \in Ids |-> Unknown] /\ window = [frames |-> <<>>, cursor |-> 0]
      /\ journal = [i \in Ids |-> 0] /\ session = [c \in Sockets |-> NoSession]
      /\ gateway = NoGateway
      /\ answer = [k \in Calls |-> [status |-> "none", by |-> 0]]
      /\ up = [c \in Sockets |-> <<>>] /\ down = [c \in Sockets |-> <<>>]
  BY DEF Init
<1>2. InFlight = {} /\ Range(<<>>) = {} /\ 0 \notin Sockets
  BY <1>1, EmptyRange DEF InFlight, Unknown, Sockets
<1>3. Typed
  <2>1. NoSession \in Sessions /\ Unknown \in Commands /\ NoGateway \in Gateways
        /\ [status |-> "none", by |-> 0] \in Answers
    BY DEF NoSession, Sessions, Unknown, Commands, NoGateway, Gateways, Answers, Outcomes
  <2>2. runner \in Runners
    BY <1>1 DEF Runners
  <2> QED BY <1>1, <1>2, <2>1, <2>2 DEF Typed
<1>4. Counted
  <2>1. Made(answer) = {} /\ Aborted(answer) = {}
    BY <1>1 DEF Made, Aborted
  <2>2. Cardinality(Made(answer)) = 0 /\ Cardinality(Aborted(answer)) = 0
    BY <2>1, FS_EmptySet
  <2>3. Issued(answer) = 0 /\ MaxAborts \in Nat
    BY <2>2, RunnerLinkAssumption DEF Issued
  <2> QED BY <1>1, <1>2, <2>2, <2>3 DEF Counted, BelowIssued, NoSession, NoGateway
<1>5. Waiting /\ Remembered /\ Stopped
  BY <1>1, <1>2 DEF Waiting, Remembered, Stopped, NoSession, Unknown
<1>6. Wires
  BY <1>1, <1>2 DEF Wires, Wire, Quiet, Greeting, Serving, NoSession
<1>7. Attention
  BY <1>1, <1>2 DEF Attention
<1> QED BY <1>3, <1>4, <1>5, <1>6, <1>7 DEF IInv

LEMMA NextInv ==
  ASSUME IInv, [Next]_vars
  PROVE  IInv'
<1>1. CASE Device
  <2>1. ASSUME NEW i \in Ids, refuse(i) \/ beginCommand(i) \/ settleCommand(i) PROVE IInv'
    BY <2>1, RefuseStep, BeginCommandStep, SettleCommandStep
  <2> QED BY <1>1, <2>1, RunnerNoticesStep, WelcomeStep, AckStep, GoodbyeStep,
             ServeCommandStep, RelaunchStep DEF Device
<1>2. CASE Worker
  <2>1. ASSUME NEW k \in Calls, call(k) PROVE IInv'
    BY <2>1, CallStep
  <2>2. ASSUME NEW c \in Sockets, hostNotices(c) \/ handleUnauthenticated(c)
                 \/ authenticated(c) \/ rejected(c) \/ result(c) \/ tickClose(c)
        PROVE  IInv'
    BY <2>2, HostNoticesStep, HandleUnauthenticatedStep, AuthenticatedStep, RejectedStep,
       ResultStep, TickCloseStep
  <2>3. ASSUME NEW c \in Sockets, NEW p \in session[c].pending, abort(c, p) PROVE IInv'
    BY <2>3, AbortStep
  <2> QED BY <1>2, <2>1, <2>2, <2>3, TickAckStep, StopWorkerStep DEF Worker
<1>3. ASSUME NEW c \in Sockets, connect(c) \/ drop(c) PROVE IInv'
  BY <1>3, ConnectStep, DropStep
<1>4. CASE UNCHANGED vars
  <2>1. UNCHANGED <<runner, command, window, journal, session, gateway, answer,
                    up, down, cut>>
    BY <1>4 DEF vars, runnerVars, hostVars, wireVars
  <2> QED BY <2>1 DEF IInv, Typed, Counted, Waiting, Remembered, Stopped, Wires,
                      Attention, InFlight
<1> QED BY <1>1, <1>2, <1>3, <1>4 DEF Next

\* Only a result answers.
LEMMA NextAnswers ==
  ASSUME IInv, AnsweredByOwnExecution, [Next]_vars
  PROVE  AnsweredByOwnExecution'
<1> DEFINE Kept == \A k \in Calls : answer'[k] = answer[k] \/ answer'[k].status # "answered"
<1>1. answer \in [Calls -> Answers]
  BY DEF IInv, Typed
<1>2. ASSUME Kept PROVE AnsweredByOwnExecution'
  BY <1>2 DEF AnsweredByOwnExecution
<1>3. ASSUME UNCHANGED answer PROVE AnsweredByOwnExecution'
  BY <1>3 DEF AnsweredByOwnExecution
<1>4. CASE Device
  BY <1>3, <1>4 DEF Device, runnerNotices, welcome, ack, goodbye, closeRunner,
     serveCommand, relaunch, refuse, beginCommand, settleCommand, hostVars
<1>5. CASE Worker
  <2>1. ASSUME NEW k \in Calls, call(k) PROVE Kept
    BY <1>1, <2>1 DEF call, Answers
  <2>2. ASSUME NEW c \in Sockets, NEW p \in session[c].pending, abort(c, p) PROVE Kept
    BY <1>1, <2>2 DEF abort, Answers
  <2>3. ASSUME NEW c \in Sockets, hostNotices(c) \/ tickClose(c) PROVE Kept
    <3>1. Finish({c})
      BY <2>3 DEF hostNotices, tickClose, closeHost
    <3>2. answer' = [k \in Calls |-> IF \E d \in {c} : k \in Callers(d)
                                    THEN [status |-> "rejected", by |-> 0] ELSE answer[k]]
      BY <3>1 DEF Finish
    <3> QED BY ONLY <3>2
  <2>4. ASSUME stopWorker PROVE Kept
    BY <2>4 DEF stopWorker
  <2>5. ASSUME NEW c \in Sockets,
               handleUnauthenticated(c) \/ authenticated(c) \/ rejected(c) \/ tickAck
        PROVE  UNCHANGED answer
    BY <2>5 DEF handleUnauthenticated, authenticated, rejected, tickAck
  <2>6. ASSUME NEW c \in Sockets, result(c) PROVE AnsweredByOwnExecution'
    <3> DEFINE f == Head(up[c])
               w == {p \in session[c].pending : p.id = f.id}
    <3>1. /\ answer' = [k \in Calls |-> IF k \in {p.call : p \in w}
                          THEN [status |-> "answered", by |-> f.outcome] ELSE answer[k]]
          /\ \A p \in w : f.outcome = p.call
      BY <2>6, ResultRead
    <3> HIDE DEF f, w
    <3> QED BY <3>1 DEF AnsweredByOwnExecution
  <2>7. ASSUME tickAck PROVE UNCHANGED answer
    BY <2>7 DEF tickAck
  <2> HIDE DEF Kept
  <2> QED BY <1>2, <1>3, <1>5, <2>1, <2>2, <2>3, <2>4, <2>5, <2>6, <2>7 DEF Worker
<1>6. ASSUME NEW c \in Sockets, connect(c) \/ drop(c) PROVE AnsweredByOwnExecution'
  BY <1>3, <1>6 DEF connect, drop, hostVars
<1>7. CASE UNCHANGED vars
  BY <1>3, <1>7 DEF vars, hostVars
<1> QED BY <1>4, <1>5, <1>6, <1>7 DEF Next

LEMMA InvTypes ==
  ASSUME IInv
  PROVE  TypeOK
<1>1. \A c \in Sockets : session[c] \in Sessions
  BY DEF IInv, Typed
<1>2. \A c \in Sockets : session[c].pending \subseteq [id: Ids, call: Calls]
  BY <1>1 DEF Sessions
<1>3. \A c \in Sockets : up[c] \in Seq(UpFrames) /\ down[c] \in Seq(DownFrames)
  BY DEF IInv, Typed
<1>4. \A c \in Sockets : /\ \A i \in DOMAIN up[c] : up[c][i] \in UpFrames
                        /\ \A i \in DOMAIN down[c] : down[c][i] \in DownFrames
  BY <1>3
<1>5. /\ runner \in Runners /\ command \in [Ids -> Commands]
      /\ journal \in [Ids -> Calls \cup {0}] /\ gateway \in Gateways
  BY DEF IInv, Typed
<1> QED BY <1>2, <1>4, <1>5 DEF TypeOK, Runners, Commands, Gateways

LEMMA InvAttended ==
  ASSUME IInv
  PROVE  NothingRunsUnattended
<1> DEFINE c == runner.socket
<1>1. ASSUME NEW i \in InFlight, ~command[i].aborted
      PROVE  /\ c # 0
             /\ \/ [id |-> i, call |-> command[i].call] \in session[c].pending
                \/ c \in cut
                \/ \E n \in DOMAIN down[c] :
                     \/ down[c][n].kind \in {"goodbye", "nack"}
                     \/ down[c][n].kind = "command" /\ down[c][n].op = "abort"
                          /\ down[c][n].target = i
  BY <1>1 DEF IInv, Attention, Attended, IsAbort, IsCommand, Range
<1> QED BY <1>1 DEF NothingRunsUnattended

-----------------------------------------------------------------------------
(* Both ends keep to their types: host-session.ts, runner-session.ts,       *)
(* command-dedupe.ts and the frames of envelope.ts.                         *)
THEOREM LinkTypeCorrect == Spec => []TypeOK
<1>1. Spec => []IInv
  BY InitInv, NextInv, PTL DEF Spec
<1> QED BY <1>1, InvTypes, PTL

(* A call of the engine gets the answer of its own execution: neither the   *)
(* dedupe table nor the replay window of a device answers it with an older  *)
(* command's outcome, whatever is cut, restarted or opened again            *)
(* (initialCommandId of runner-gateway.ts, serveCommand of runner-session.ts). *)
THEOREM CallsGetTheirOwnAnswer == Spec => []AnsweredByOwnExecution
<1>1. Init => AnsweredByOwnExecution
  BY DEF Init, AnsweredByOwnExecution
<1>2. Spec => [](IInv /\ AnsweredByOwnExecution)
  BY <1>1, InitInv, NextInv, NextAnswers, PTL DEF Spec
<1> QED BY <1>2, PTL

(* What the device executes has somebody who waits for it, or is about to   *)
(* be stopped, or has lost its connection (disconnect of runner-session.ts, *)
(* abort, finish and stop of the Worker's side).                            *)
THEOREM NothingRunsUnwatched == Spec => []NothingRunsUnattended
<1>1. Spec => []IInv
  BY InitInv, NextInv, PTL DEF Spec
<1> QED BY <1>1, InvAttended, PTL

=============================================================================
