----------------------------- MODULE ModelTurn -----------------------------
(***************************************************************************)
(* A turn of the model: the driver's loop around AgentModel.next           *)
(* (RunEngine.drive), the adapters of the three provider protocols         *)
(* (openai-model, anthropic-model) and the budget they reserve, settle and *)
(* forfeit in (RunBudget), with crashes of the driver and other processes  *)
(* closing the budget.                                                     *)
(*                                                                         *)
(* A batch of calls that a provider answers with is handed out one call at *)
(* a time; what is left of it travels in the continuation stored with each *)
(* call.  Under "chat" and "messages" the continuation is the conversation *)
(* itself, under "responses" the provider keeps it.  A message is a batch  *)
(* of calls or the result of one; a call is its number in the Run, its     *)
(* kind, and whether its arguments are JSON.                               *)
(***************************************************************************)
EXTENDS RunBudget, Sequences

CONSTANTS Protocols,        \* of {"responses", "chat", "messages"}
          Shapes,           \* kinds and arguments of calls a provider answers with
          Reported,         \* token usage that a provider may report
          MaxInput,         \* messages that fit into a request
          MaxBatch,         \* bound: calls of one answer
          MaxAnswers,       \* bound: answers with calls, per Run
          MaxInstructions,  \* bound: steering messages, per Run
          MaxCrashes        \* bound: crashes of drivers

\* The tools a provider is told of.
Tools == {"execute_command", "request_user_input", "request_network_egress"}

ASSUME ModelTurnAssumption ==
    /\ Protocols \subseteq {"responses", "chat", "messages"}
    /\ Shapes \subseteq [kind: Tools, json: BOOLEAN]
    /\ Reported \subseteq [input: Nat, output: Nat, cacheRead: Nat, cacheCreation: Nat]
    /\ {MaxInput, MaxBatch, MaxAnswers, MaxInstructions, MaxCrashes} \subseteq Nat
    /\ Counters = {"toolCalls", "modelRetries"}

VARIABLES protocol,  \* of the configured adapter
          talk,      \* each Run's driver and the conversation stored with the Run
          past,      \* calls stored and results obtained, in order
          sent,      \* the conversation in the last request a provider got
          heard,     \* instructions that were part of some request
          crashes

turnVars == <<talk, past, sent, heard>>
allVars == <<vars, turnVars, protocol, crashes>>

Phases2 == {"off", "ready", "reserving", "asked", "malformed", "retrying", "returned",
            "counting", "ended"}
NoTurn == [known |-> <<>>, queue |-> <<>>]
Fresh == [phase |-> "off", request |-> {}, replay |-> FALSE, turn |-> NoTurn,
          known |-> <<>>, queue |-> <<>>, active |-> FALSE, waiting |-> FALSE,
          answers |-> 0, staged |-> {}, told |-> {}]

TurnInit ==
    /\ Init
    /\ protocol \in Protocols
    /\ talk = [r \in Runs |-> Fresh]
    /\ past = [r \in Runs |-> <<>>] /\ sent = [r \in Runs |-> <<>>]
    /\ heard = [r \in Runs |-> {}]
    /\ crashes = 0

TurnTypeOK ==
    /\ TypeOK
    /\ \A r \in Runs :
         /\ talk[r].phase \in Phases2
         /\ talk[r].request \subseteq RequestsOf(r) /\ Cardinality(talk[r].request) <= 1
         /\ talk[r].staged \cup talk[r].told \cup heard[r] \subseteq 1..MaxInstructions
         /\ talk[r].phase \in {"reserving", "asked"} => talk[r].request # {}
         /\ talk[r].active => talk[r].queue # <<>>
         /\ talk[r].answers \in 0..MaxAnswers

-----------------------------------------------------------------------------
(* The adapter. *)

toToolTurn(call) ==
    IF call.kind = "request_user_input" THEN "user_request" ELSE "tool_call"

Batch(calls) == [type |-> "assistant", calls |-> calls]
Result(call) == [type |-> "tool", calls |-> <<call>>]
Batches(from) ==   \* what a provider may answer with; a call's number is fresh
    UNION {{[i \in 1..n |-> [id |-> from + i, kind |-> s[i].kind, json |-> s[i].json]] :
              s \in [1..n -> Shapes]} : n \in 1..MaxBatch}

\* The last batch is what has a result, then the active call and the queue.
validatePersistedChatQueue(known, queue) ==
    \E i \in 1..Len(known) :
        /\ known[i].type = "assistant"
        /\ \A j \in (i + 1)..Len(known) : known[j].type = "tool"
        /\ known[i].calls = [j \in 1..(Len(known) - i) |-> known[i + j].calls[1]] \o queue

\* "messages": the same of the one batch that its continuation holds.
validatePersistedQueue(known, queue) ==
    /\ known[1].type = "assistant"
    /\ known[1].calls = [j \in 1..(Len(known) - 1) |-> known[1 + j].calls[1]] \o queue

parsePersistedChatContinuation(r) ==
    talk[r].known # <<>> /\ validatePersistedChatQueue(talk[r].known, talk[r].queue)

\* "responses" has no queue to validate: the provider keeps the conversation.
parsePersistedContinuation(r) ==
    CASE protocol = "chat" -> parsePersistedChatContinuation(r)
      [] protocol = "messages" -> validatePersistedQueue(talk[r].known, talk[r].queue)
      [] protocol = "responses" -> Len(talk[r].queue) = 1

\* The conversation that next() continues, and the calls still to hand out.
appendToolResult(known, call) == Append(known, Result(call))
context(r) ==
    IF talk[r].queue = <<>> THEN <<>>
    ELSE appendToolResult(talk[r].known, Head(talk[r].queue))

\* Slip: the rest of the answer is dropped.
remainingDropped(r) == <<>>

remaining(r) == IF talk[r].queue = <<>> THEN <<>> ELSE Tail(talk[r].queue)

\* Slip: the continuation starts over with each answer.
parseChatCompletionAfresh(r, calls) == [known |-> <<Batch(calls)>>, queue |-> calls]

\* The continuation persisted with the first call of an answer: in "chat" the
\* conversation so far and the answer, in "messages" the answer alone, in
\* "responses" the answer's id, by which the provider finds the conversation.
parseChatCompletion(r, calls) ==
    [known |-> Append(context(r), Batch(calls)), queue |-> calls]
parseMessagesResponse(r, calls) == [known |-> <<Batch(calls)>>, queue |-> calls]
parseResponse(r, calls) ==
    [known |-> Append(context(r), Batch(calls)), queue |-> calls]
continuation(r, calls) ==
    CASE protocol = "chat" -> parseChatCompletion(r, calls)
      [] protocol = "messages" -> parseMessagesResponse(r, calls)
      [] protocol = "responses" -> parseResponse(r, calls)

\* What the provider reads: the conversation and the instructions.  In "responses" it
\* keeps both and is sent the latest result; the others rebuild the first message of
\* each request from the instructions of this turn.
buildRequest(r) ==
    [messages |-> context(r), instructions |-> talk[r].staged \cup talk[r].told]
buildInitialChatMessages(r) == talk[r].staged
chatRequest(r) ==
    [messages |-> context(r), instructions |-> buildInitialChatMessages(r)]
buildInitialUserContent(r) == talk[r].staged
messagesRequest(r) ==
    [messages |-> context(r), instructions |-> buildInitialUserContent(r)]
request(r) ==
    CASE protocol = "responses" -> buildRequest(r)
      [] protocol = "chat" -> chatRequest(r)
      [] protocol = "messages" -> messagesRequest(r)

assertRequestInputWithinLimit(r) == Len(request(r).messages) <= MaxInput

\* Tokens of a reported usage, none if it is refused.  In the OpenAI protocols cached
\* tokens are a part of the input, in "messages" they come on top of it.
parseModelUsage(usage) ==
    IF usage.cacheRead <= usage.input THEN {usage.input + usage.output} ELSE {}
parseMessagesUsage(usage) ==
    {usage.input + usage.cacheRead + usage.cacheCreation + usage.output}
tokens(usage) == IF protocol = "messages" THEN parseMessagesUsage(usage)
                 ELSE parseModelUsage(usage)

\* How a request fails: on the wire or with an HTTP status, with a body that is not
\* JSON, with a usage that is refused.  Only the second is replayed.
failure == {"http"} \cup {"body"}
           \cup (IF \E usage \in Reported : tokens(usage) = {} THEN {"usage"} ELSE {})
replayable(why) == why = "body"

\* Arguments are parsed when a call is handed out; "messages" parses the whole batch.
toChatToolTurn(calls) == calls[1].json
parseToolUseBlocks(calls) == \A i \in 1..Len(calls) : calls[i].json
jsonOf(calls) == IF protocol = "messages" THEN parseToolUseBlocks(calls)
                 ELSE toChatToolTurn(calls)

-----------------------------------------------------------------------------
(* The driver. *)

moves(r, to) == talk' = [talk EXCEPT ![r].phase = to]
ends(r) == talk' = [talk EXCEPT ![r].phase = "ended", ![r].request = {},
                                ![r].replay = FALSE, ![r].turn = NoTurn]
returns(r, turn) == talk' = [talk EXCEPT ![r].phase = "returned", ![r].request = {},
                                         ![r].replay = FALSE, ![r].turn = turn]
recordKept == UNCHANGED <<past, sent, heard, protocol, crashes>>

\* A driver takes the Run over: what its predecessor left reserved is charged first.
drive(r) ==
    /\ talk[r].phase = "off" /\ budget[r].state = "active"
    /\ IF Active(r) # {} THEN reconcileModelRequests(r) ELSE UNCHANGED vars
    /\ IF Allowed(r)' THEN moves(r, "ready") ELSE ends(r)
    /\ recordKept

\* The lease is lost, or a save meets a newer version: the driver leaves the Run.
leave(r) ==
    /\ talk[r].phase \in {"ready", "returned"}
    /\ talk' = [talk EXCEPT ![r].phase = "off", ![r].turn = NoTurn]
    /\ recordKept /\ UNCHANGED vars

\* The Run is over its budget, or its continuation or input is refused, or it failed.
fail(r) ==
    /\ talk[r].phase \in {"ready", "returned"}
    /\ ends(r)
    /\ recordKept /\ UNCHANGED vars

stageSteering(r) ==
    /\ talk[r].phase = "ready" /\ Allowed(r) /\ ~talk[r].active
    /\ \E i \in 1..MaxInstructions :
         /\ talk[r].told \cup talk[r].staged = 1..(i - 1)
         /\ talk' = [talk EXCEPT ![r].staged = @ \cup {i}]
    /\ recordKept /\ UNCHANGED vars

\* next() with calls of the last answer left: the provider is not asked.
nextQueued(r) ==
    /\ talk[r].phase = "ready" /\ Allowed(r) /\ ~talk[r].active
    /\ remaining(r) # <<>>
    /\ parsePersistedContinuation(r)
    /\ IF jsonOf(remaining(r))
       THEN returns(r, [known |-> context(r), queue |-> remaining(r)])
       ELSE ends(r)
    /\ recordKept /\ UNCHANGED vars

\* The provider is asked in "responses" with every result, otherwise when the calls of
\* its last answer are used up.
askResponses(r) == protocol = "responses"
askChat(r) ==
    /\ protocol = "chat" /\ remaining(r) = <<>>
    /\ talk[r].queue # <<>> => parsePersistedContinuation(r)
askMessages(r) ==
    /\ protocol = "messages" /\ remaining(r) = <<>>
    /\ talk[r].queue # <<>> => parsePersistedContinuation(r)

\* next(): the request is built from the conversation and reserved under a fresh id.
ask(r) ==
    /\ talk[r].phase = "ready" /\ Allowed(r) /\ ~talk[r].active
    /\ askResponses(r) \/ askChat(r) \/ askMessages(r)
    /\ assertRequestInputWithinLimit(r)
    /\ \E q \in RequestsOf(r) :
         /\ reserve(q)
         /\ talk' = [talk EXCEPT ![r].phase = "reserving", ![r].request = {q}]
    /\ recordKept

onRequestStart(r) ==
    /\ talk[r].phase = "reserving"
    /\ \E q \in talk[r].request :
         /\ reserved(q)
         /\ IF phase'[q] = "reserved" THEN UNCHANGED talk ELSE ends(r)
    /\ recordKept

create(r) ==
    /\ talk[r].phase = "reserving"
    /\ \E q \in talk[r].request :
         /\ send(q)
         /\ IF phase'[q] = "sent"
            THEN /\ moves(r, "asked")
                 /\ sent' = [sent EXCEPT ![r] = request(r).messages]
                 /\ heard' = [heard EXCEPT ![r] = @ \cup request(r).instructions]
            ELSE ends(r) /\ UNCHANGED <<sent, heard>>
    /\ UNCHANGED <<past, protocol, crashes>>

\* Malformed JSON: one replay, if the first attempt was not one already.
malformed(r) ==
    IF talk[r].replay THEN ends(r)
    ELSE talk' = [talk EXCEPT ![r].phase = "malformed", ![r].request = {},
                              ![r].replay = TRUE]

\* No usage is known: HTTP error, timeout, a body that is not JSON or has no usage.
onRequestFailure(r) ==
    /\ talk[r].phase = "asked"
    /\ \E q \in talk[r].request : forfeitModelRequest(q)
    /\ \E why \in failure :
         IF replayable(why) /\ Allowed(r)' THEN malformed(r) ELSE ends(r)
    /\ recordKept

\* The usage is settled before the answer is parsed; onUsage throws when the
\* reservation was forfeited meanwhile or the budget is used up.
onUsage(r) ==
    /\ talk[r].phase = "asked"
    /\ \E q \in talk[r].request :
         /\ settleModelRequest(q)
         /\ reservation'[q].status = "settled" =>
              \E usage \in Reported : reservation'[q].used \in tokens(usage)
         /\ \/ ends(r)                     \* that, or the Run completes, or is refused
            \/ /\ reservation'[q].status = "settled" /\ reservation'[q].used <= Envelope
               /\ Allowed(r)' /\ talk[r].answers < MaxAnswers
               /\ \E calls \in Batches(talk[r].answers * MaxBatch) :
                    /\ protocol = "responses" => Len(calls) = 1
                    /\ IF ~jsonOf(calls) THEN malformed(r)
                       ELSE talk' = [talk EXCEPT
                         ![r].phase = "returned", ![r].request = {}, ![r].replay = FALSE,
                         ![r].turn = continuation(r, calls), ![r].answers = @ + 1]
    /\ recordKept

\* recordModelRetry: the count is stored, then decides.
onBeforeModelRetry(r) ==
    /\ talk[r].phase = "malformed"
    /\ IF budget[r].state = "active"
       THEN record(r, "modelRetries") /\ moves(r, "retrying")
       ELSE ends(r) /\ UNCHANGED vars
    /\ recordKept

replay(r) ==
    /\ talk[r].phase = "retrying"
    /\ decide(r, "modelRetries")
    /\ IF Allowed(r) THEN moves(r, "ready") ELSE ends(r)
    /\ recordKept

recordToolCall(r) ==
    /\ talk[r].phase = "returned" /\ Allowed(r)
    /\ toToolTurn(Head(talk[r].turn.queue)) = "tool_call"
    /\ record(r, "toolCalls") /\ moves(r, "counting")
    /\ recordKept

\* The turn is saved: its call is pending, its instructions are consumed.
storeTurn(r) ==
    /\ LET turn == talk[r].turn
       IN  /\ talk' = [talk EXCEPT ![r].phase = "ready", ![r].turn = NoTurn,
                         ![r].active = TRUE, ![r].known = turn.known, ![r].queue = turn.queue,
                         ![r].told = @ \cup talk[r].staged, ![r].staged = {}]
           /\ past' = [past EXCEPT ![r] =
                IF turn.known[Len(turn.known)].type = "tool" THEN @
                ELSE Append(@, turn.known[Len(turn.known)])]
    /\ UNCHANGED <<sent, heard, protocol, crashes>>

storeQuestion(r) ==
    /\ talk[r].phase = "returned" /\ Allowed(r)
    /\ toToolTurn(Head(talk[r].turn.queue)) = "user_request"
    /\ storeTurn(r) /\ UNCHANGED vars

storeCall(r) ==
    /\ talk[r].phase = "counting"
    /\ decide(r, "toolCalls")
    /\ IF Allowed(r) THEN storeTurn(r) ELSE ends(r) /\ recordKept

\* The call was performed, denied or answered: its result is stored.
resultStored(r) ==
    /\ talk[r].phase = "ready" /\ talk[r].active
    /\ talk' = [talk EXCEPT ![r].active = FALSE]
    /\ past' = [past EXCEPT ![r] = Append(@, Result(Head(talk[r].queue)))]
    /\ UNCHANGED <<sent, heard, protocol, crashes>> /\ UNCHANGED vars

driverDies(r) ==
    /\ talk[r].phase \notin {"off", "ended"} /\ crashes < MaxCrashes
    /\ crashes' = crashes + 1
    /\ talk' = [talk EXCEPT ![r].phase = "off", ![r].request = {}, ![r].replay = FALSE,
                            ![r].turn = NoTurn]
    /\ IF talk[r].request # {} THEN \E q \in talk[r].request : crash(q)
       ELSE UNCHANGED vars
    /\ UNCHANGED <<past, sent, heard, protocol>>

\* Admission and closure, by the API and other processes.
budgetOnly(r) ==
    /\ open(r) \/ admit(r) \/ close(r) \/ closed(r)
    /\ UNCHANGED <<turnVars, protocol, crashes>>

TurnNext ==
    \E r \in Runs :
        \/ budgetOnly(r) \/ drive(r) \/ leave(r) \/ fail(r) \/ driverDies(r)
        \/ stageSteering(r) \/ nextQueued(r) \/ ask(r)
        \/ onRequestStart(r) \/ create(r) \/ onRequestFailure(r) \/ onUsage(r)
        \/ onBeforeModelRetry(r) \/ replay(r)
        \/ recordToolCall(r) \/ storeCall(r) \/ storeQuestion(r) \/ resultStored(r)

TurnSpec == TurnInit /\ [][TurnNext]_allVars

-----------------------------------------------------------------------------
(* A request carries the whole conversation: every answer and every result  *)
(* the Run has stored, in order, through batches, replays and crashes, in   *)
(* the protocols that keep it.                                              *)
ConversationKept ==
    protocol # "messages" => \A r \in Runs : talk[r].phase = "asked" => sent[r] = past[r]

(* What the tests say of the stateless protocol: it resends the history.    *)
HistoryResent ==
    protocol = "messages" => \A r \in Runs : talk[r].phase = "asked" => sent[r] = past[r]

(* A provider is asked again only when every call of its last answer has a  *)
(* result, in the order it asked for them.                                  *)
AskedWithEveryResult ==
    \A r \in Runs : talk[r].phase = "asked" /\ past[r] # <<>> =>
        validatePersistedChatQueue(past[r], <<>>)

(* An instruction that a stored turn consumed was part of a request.        *)
InstructionsReachProvider == \A r \in Runs : talk[r].told \subseteq heard[r]
=============================================================================
