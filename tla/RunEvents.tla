----------------------------- MODULE RunEvents -----------------------------
(***************************************************************************)
(* The path of a Run's events from the database to a user, for one Run:    *)
(* the writers that store a snapshot with its events and outbox rows       *)
(* (postgres-run-transition.ts, run-events/src/postgres.ts), the outbox    *)
(* and the dispatcher of each Worker (dispatcher.ts), a Worker's live      *)
(* stream (sse.ts) and the client that follows it (client-sdk,             *)
(* presentation/src/run-stream.ts, the desktop's stream-broker.ts).        *)
(* An event is final or not; its sequence is its position in the log, since    *)
(* the counter row is locked from the allocation to the commit.            *)
(***************************************************************************)
EXTENDS Integers, FiniteSetsExt, SequencesExt

CONSTANTS Processes,    \* the Workers, each serving streams and dispatching
          BatchSize,    \* rows a dispatcher claims at a time
          MaxEvents,    \* bound: events of the Run
          MaxRestarts,  \* bound: crashes of Workers
          MaxLapses,    \* bound: dispatch leases that lapse under their holder
          MaxErrors     \* bound: connections, claims and acknowledgements that fail

ASSUME RunEventsAssumption ==
    /\ {MaxEvents, MaxRestarts, MaxLapses, MaxErrors} \subseteq Nat
    /\ BatchSize \in Nat \ {0} /\ "nobody" \notin Processes

VARIABLES log,        \* run_events in sequence order
          outbox,     \* run_event_outbox, row i for event i
          dispatch,   \* each Worker's claim: rows, rows still to deliver
          feed,       \* the SSE response of the client (bypassed: see below)
          seen,       \* sequences the follower accepted
          stopped,    \* the follower returned
          faults      \* crashes, lapses and failures so far

feedVars == <<feed, seen, stopped>>
eventsVars == <<log, outbox, dispatch, feedVars, faults>>

Sequences == 1..MaxEvents
Nobody == "nobody"
Free == [by |-> Nobody, lease |-> "free", delivered |-> FALSE]
Idle == [claimed |-> {}, left |-> {}]
NoFeed == [phase |-> "none", worker |-> Nobody, read |-> 0, last |-> 0,
           pending |-> {}, pipe |-> <<>>, bypassed |-> FALSE]

EventsInit ==
    /\ log = <<>> /\ outbox = <<>>
    /\ dispatch = [w \in Processes |-> Idle]
    /\ feed = NoFeed /\ seen = <<>> /\ stopped = FALSE
    /\ faults = [crashes |-> 0, lapses |-> 0, failures |-> 0]

EventsTypeOK ==
    /\ log \in Seq({"event", "finished"})
    /\ DOMAIN outbox = DOMAIN log
    /\ \A i \in DOMAIN outbox :
         outbox[i] \in [by: Processes \cup {Nobody}, lease: {"free", "held", "lapsed"},
                        delivered: BOOLEAN]
    /\ \A w \in Processes :
         /\ dispatch[w].claimed \subseteq DOMAIN log
         /\ dispatch[w].left \subseteq dispatch[w].claimed
    /\ feed.phase \in {"none", "subscribed", "read", "live"}
    /\ feed.worker \in Processes \cup {Nobody}
    /\ feed.pending \cup Range(feed.pipe) \cup Range(seen) \subseteq DOMAIN log
    /\ {stopped, feed.bypassed} \subseteq BOOLEAN

-----------------------------------------------------------------------------
(* Writing: one event or several in one statement, with their outbox rows. *)
(* "finished" is the event of a terminal status; a cancellation is not     *)
(* gated by the status, so that events may follow it.                      *)

Writes == {<<"event">>, <<"event", "finished">>, <<"event", "event", "event">>}

publish ==
    /\ \E events \in Writes :
         /\ Len(log) + Len(events) <= MaxEvents
         /\ log' = log \o events
         /\ outbox' = outbox \o [i \in DOMAIN events |-> Free]
    /\ UNCHANGED <<dispatch, feedVars, faults>>

-----------------------------------------------------------------------------
(* The outbox and a Worker's dispatcher. *)

claimable == {i \in DOMAIN outbox : ~outbox[i].delivered /\ outbox[i].lease # "held"}

batch == {i \in claimable : Cardinality({j \in claimable : j < i}) < BatchSize}

hold(w, rows) == [i \in DOMAIN outbox |->
    IF i \in rows THEN [by |-> w, lease |-> "held", delivered |-> FALSE] ELSE outbox[i]]

\* History: rows behind what the response has sent and read went to a round that
\* will not give them to it. feed.bypassed says so until the response ends.
bypass(rows) ==
    IF feed.phase \in {"read", "live"} /\ \E i \in rows : i > Max({feed.read, feed.last})
    THEN [feed EXCEPT !.bypassed = TRUE] ELSE feed

claim(w) ==
    /\ dispatch[w] = Idle
    /\ claimable # {}
    /\ outbox' = hold(w, batch)
    /\ dispatch' = [dispatch EXCEPT ![w] = [claimed |-> batch, left |-> batch]]
    /\ feed' = IF feed.worker = w THEN feed ELSE bypass(batch)
    /\ UNCHANGED <<log, seen, stopped, faults>>

\* The claim commits and its answer is lost, or cannot be parsed: the round ends with
\* an error and nobody delivers the rows until their lease lapses.
claimLost(w) ==
    /\ dispatch[w] = Idle
    /\ claimable # {}
    /\ faults.failures < MaxErrors
    /\ faults' = [faults EXCEPT !.failures = @ + 1]
    /\ outbox' = hold(w, batch)
    /\ feed' = bypass(batch)
    /\ UNCHANGED <<log, dispatch, seen, stopped>>

\* What a live response does with an event: sequences at or below the last are old.
sendLive(f, event) ==
    IF event <= f.last THEN f
    ELSE [f EXCEPT !.pipe = Append(@, event), !.last = event]

\* Slip: an event that comes while the backlog is loaded is not kept.
deliverLiveOnly(w) ==
    /\ dispatch[w].left # {}
    /\ feed' = IF feed.worker # w \/ feed.phase # "live" THEN feed
               ELSE sendLive(feed, Min(dispatch[w].left))
    /\ dispatch' = [dispatch EXCEPT ![w].left = @ \ {Min(@)}]
    /\ UNCHANGED <<log, outbox, seen, stopped, faults>>

\* The broadcaster hands the event to the Worker's subscribers.
deliver(w) ==
    /\ dispatch[w].left # {}
    /\ LET event == Min(dispatch[w].left)
       IN  feed' = IF feed.worker # w THEN feed
                   ELSE IF feed.phase = "live" THEN sendLive(feed, event)
                   ELSE [feed EXCEPT !.pending = @ \cup {event}]
    /\ dispatch' = [dispatch EXCEPT ![w].left = @ \ {Min(@)}]
    /\ UNCHANGED <<log, outbox, seen, stopped, faults>>

\* Rows that another Worker claimed meanwhile are not acknowledged; the error that
\* follows is reported and the next round starts.
ack(w) ==
    /\ dispatch[w].claimed # {} /\ dispatch[w].left = {}
    /\ outbox' = [i \in DOMAIN outbox |->
         IF i \in dispatch[w].claimed /\ outbox[i].by = w /\ ~outbox[i].delivered
         THEN [Free EXCEPT !.delivered = TRUE] ELSE outbox[i]]
    /\ dispatch' = [dispatch EXCEPT ![w] = Idle]
    /\ UNCHANGED <<log, feedVars, faults>>

ackFails(w) ==
    /\ dispatch[w].claimed # {} /\ dispatch[w].left = {}
    /\ faults.failures < MaxErrors
    /\ faults' = [faults EXCEPT !.failures = @ + 1]
    /\ dispatch' = [dispatch EXCEPT ![w] = Idle]
    /\ UNCHANGED <<log, outbox, feedVars>>

lapsed(rows) == [i \in DOMAIN outbox |->
    IF i \in rows THEN [outbox[i] EXCEPT !.lease = "lapsed"] ELSE outbox[i]]

held(w) == {i \in DOMAIN outbox : outbox[i].by = w /\ outbox[i].lease = "held"}

\* The lease of rows that no round of its holder has in hand ends in time.
expire(w) ==
    /\ \E rows \in SUBSET (held(w) \ dispatch[w].claimed) :
         rows # {} /\ outbox' = lapsed(rows)
    /\ UNCHANGED <<log, dispatch, feedVars, faults>>

\* A round outlives its lease.
lapse(w) ==
    /\ faults.lapses < MaxLapses
    /\ held(w) # {}
    /\ faults' = [faults EXCEPT !.lapses = @ + 1]
    /\ outbox' = lapsed(held(w))
    /\ UNCHANGED <<log, dispatch, feedVars>>

-----------------------------------------------------------------------------
(* The live stream and its follower. *)

lastSequence == IF seen = <<>> THEN 0 ELSE Last(seen)

\* The response subscribes before it asks for the backlog after the cursor.
handle(w) ==
    /\ feed.phase = "none" /\ ~stopped
    /\ feed' = [NoFeed EXCEPT !.phase = "subscribed", !.worker = w,
                              !.last = lastSequence]
    /\ UNCHANGED <<log, outbox, dispatch, seen, stopped, faults>>

Ascending(S) == [k \in 1..Cardinality(S) |->
                   CHOOSE x \in S : Cardinality({y \in S : y < x}) = k - 1]

readBacklog ==
    /\ feed.phase = "subscribed"
    /\ feed' = [feed EXCEPT !.phase = "read", !.read = Len(log)]
    /\ UNCHANGED <<log, outbox, dispatch, seen, stopped, faults>>

\* Slip: what arrived meanwhile is not sent after the backlog.
sendBacklogOnly ==
    /\ feed.phase = "read"
    /\ LET last == Max({feed.last, feed.read})
       IN  feed' = [feed EXCEPT !.phase = "live", !.pending = {}, !.read = 0, !.last = last,
                                !.pipe = [i \in 1..(last - feed.last) |-> feed.last + i]]
    /\ UNCHANGED <<log, outbox, dispatch, seen, stopped, faults>>

\* The backlog is sent, then what arrived meanwhile, sorted.
sendBacklog ==
    /\ feed.phase = "read"
    /\ LET last == Max({feed.last, feed.read})
           backlog == [i \in 1..(last - feed.last) |-> feed.last + i]
           late == {event \in feed.pending : event > last}
       IN  feed' = [feed EXCEPT !.phase = "live", !.pending = {}, !.read = 0,
                                !.pipe = backlog \o Ascending(late),
                                !.last = Max(late \cup {last})]
    /\ UNCHANGED <<log, outbox, dispatch, seen, stopped, faults>>

\* The client cuts the response into frames and takes them one by one.
nextFrame == Head(feed.pipe)

endsRun(event) == log[event] = "finished"

\* followRunEventStream takes a frame: repeats are dropped, the event that ends
\* the Run ends the follower.
followRunEventStream ==
    /\ feed.pipe # <<>>
    /\ LET event == nextFrame
       IN  IF event <= lastSequence
           THEN feed' = [feed EXCEPT !.pipe = Tail(@)] /\ UNCHANGED <<seen, stopped>>
           ELSE /\ seen' = Append(seen, event)
                /\ stopped' = endsRun(event)
                /\ feed' = IF stopped' THEN NoFeed ELSE [feed EXCEPT !.pipe = Tail(@)]
    /\ UNCHANGED <<log, outbox, dispatch, faults>>

\* The connection ends, with an error or without; frames on the way are lost.
disconnect ==
    /\ feed.phase # "none"
    /\ faults.failures < MaxErrors
    /\ faults' = [faults EXCEPT !.failures = @ + 1]
    /\ feed' = NoFeed
    /\ UNCHANGED <<log, outbox, dispatch, seen, stopped>>

\* A Worker dies with its claims and streams; it is up again at once.
restart(w) ==
    /\ faults.crashes < MaxRestarts
    /\ faults' = [faults EXCEPT !.crashes = @ + 1]
    /\ dispatch' = [dispatch EXCEPT ![w] = Idle]
    /\ feed' = IF feed.worker = w THEN NoFeed ELSE feed
    /\ UNCHANGED <<log, outbox, seen, stopped>>

-----------------------------------------------------------------------------
dispatchOnce(w) == claim(w) \/ deliver(w) \/ ack(w)

follow == (\E w \in Processes : handle(w)) \/ readBacklog \/ sendBacklog
          \/ followRunEventStream

EventsNext ==
    \/ publish
    \/ \E w \in Processes : \/ dispatchOnce(w) \/ claimLost(w) \/ ackFails(w)
                           \/ expire(w) \/ lapse(w) \/ restart(w)
    \/ follow \/ disconnect

\* The dispatcher runs on a timer and leases end by the clock; a response goes on by
\* itself and a client that lost it reconnects after a second.
EventsSpec == EventsInit /\ [][EventsNext]_eventsVars /\ WF_eventsVars(follow)
             /\ \A w \in Processes : /\ WF_eventsVars(dispatchOnce(w))
                                   /\ WF_eventsVars(expire(w))

-----------------------------------------------------------------------------
(* Properties. *)

\* The follower's promise, kept through claims, redelivery, restarts and
\* reconnections: sse.ts, dispatcher.ts and run-stream.ts together give it events in
\* order, none twice, and none skipped but where rows behind what its response has
\* sent went to another Worker's round or to a claim whose answer was lost.
Feed == INSTANCE EventFeed WITH bypassed <- feed.bypassed
ImplementsFeed == Feed!FeedSpec

\* A client that stays or comes back gets to every event or past it, unless it has
\* been shown the end of the Run: what a claim, a lost answer, a lost acknowledgement
\* or a crash leaves undelivered comes again or is in the backlog.
EventuallySeen ==
    \A n \in Sequences : (Len(log) >= n) ~> (stopped \/ lastSequence >= n)

\* What the comments of dispatcher.ts and sse.ts suggest and this code does not keep
\* (no run checks it): the follower is shown every event.
EveryEventSeen ==
    \A n \in Sequences : (Len(log) >= n) ~> (stopped \/ Len(seen) >= n)

\* A row is marked delivered only after every subscriber of that Worker at the time
\* got it, so what a response has not been given is still queued or will be in its
\* backlog, unless it was bypassed (the acknowledgement ends the batch).
DeliveredMeansGiven ==
    feed.phase = "live" /\ ~feed.bypassed =>
        \A i \in DOMAIN outbox : outbox[i].delivered => i <= feed.last
=============================================================================
