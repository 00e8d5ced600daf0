------------------------------- MODULE AgentLoop -------------------------------
(*****************************************************************************)
(* The agent that runs the scheduling model: its two message queues, the     *)
(* life cycle of a run (harness/packages/agent/src/agent.ts) and the loop of *)
(* requests, tool calls and queued messages (agent-loop.ts).                 *)
(*                                                                           *)
(* Everything here runs on one JavaScript thread, so a step reaches from one *)
(* await to the next.  Between two steps anybody may queue a message, clear  *)
(* a queue or abort the run: the operator's feedback does so while the model *)
(* answers and while tools run.  A message is its queue and its number; an   *)
(* answer is whether it failed and how many tools it calls, a tool result    *)
(* the call it answers.  Between two runs the session around the agent may   *)
(* take a failed answer out of the conversation and have it asked again      *)
(* (coding-agent/src/core/agent-session.ts).  Left out are system messages,  *)
(* which only declare tools, the streaming events of a message, and what     *)
(* else the session puts in the conversation's place: compactions, branches. *)
(*****************************************************************************)
EXTENDS Integers, Sequences, FiniteSets, SequencesExt

CONSTANTS
    Mode,           \* per queue: "all" or "one-at-a-time"
    MaxMessages,    \* bound: messages sent, prompts included
    MaxCalls,       \* bound: tool calls of an answer
    MaxTurns        \* bound: answers, and failed runs without one, after which
                    \* no new run starts, no tool is called and finishTurn asks
                    \* for no other turn

Queues == {"steer", "followUp"}

ASSUME LoopAssumption ==
    /\ Mode \in [Queues -> {"all", "one-at-a-time"}]
    /\ {MaxMessages, MaxCalls, MaxTurns} \subseteq Nat

VARIABLES
    queue,      \* the steering and the follow-up queue
    sent,       \* messages sent so far; the next one's number follows
    run,        \* the active run, if any, and whether it was aborted
    at,         \* the await the loop stands at
    inject,     \* pendingMessages, and the prompts of a run that starts
    more,       \* hasMoreToolCalls
    goOn,       \* explicitContinuation
    batch,      \* the tool calls of the last answer
    transcript, \* state.messages
    turns       \* answers so far (bound)

vars == <<queue, sent, run, at, inject, more, goOn, batch, transcript, turns>>

NoRun == [active |-> FALSE, aborted |-> FALSE, skipPoll |-> FALSE, base |-> 0]

NewRun(skip) ==
    [active |-> TRUE, aborted |-> FALSE, skipPoll |-> skip, base |-> Len(transcript)]

NoBatch == [kind |-> "none", calls |-> <<>>]

Message(via, n) == [role |-> "user", via |-> via, id |-> n]
AnswerMessage(ok, n) == [role |-> "assistant", ok |-> ok, calls |-> n]
ResultMessage(i) == [role |-> "toolResult", call |-> i]

Init ==
    /\ queue = [q \in Queues |-> <<>>]
    /\ sent = 0
    /\ run = NoRun
    /\ at = "idle"
    /\ inject = <<>>
    /\ more = FALSE /\ goOn = FALSE
    /\ batch = NoBatch
    /\ transcript = <<>>
    /\ turns = 0

-------------------------------------------------------------------------------
(* What callers may do at any time. *)

\* steer(), followUp()
Queue(q) ==
    /\ sent < MaxMessages
    /\ sent' = sent + 1
    /\ queue' = [queue EXCEPT ![q] = Append(@, Message(q, sent + 1))]
    /\ UNCHANGED <<run, at, inject, more, goOn, batch, transcript, turns>>

\* clearSteeringQueue(), clearFollowUpQueue()
Clear(q) ==
    /\ queue[q] # <<>>
    /\ queue' = [queue EXCEPT ![q] = <<>>]
    /\ UNCHANGED <<sent, run, at, inject, more, goOn, batch, transcript, turns>>

Abort ==
    /\ run.active /\ ~run.aborted
    /\ run' = [run EXCEPT !.aborted = TRUE]
    /\ UNCHANGED <<queue, sent, at, inject, more, goOn, batch, transcript, turns>>

-------------------------------------------------------------------------------
(* Starting a run. *)

\* What drain() takes from a queue.
Drained(q) ==
    IF Mode[q] = "all" \/ queue[q] = <<>> THEN queue[q] ELSE <<Head(queue[q])>>

\* (mutant) the drained messages stay in their queue
DrainKeeps(q) == queue' = queue

Drain(q) ==
    queue' = [queue EXCEPT ![q] = SubSeq(@, Len(Drained(q)) + 1, Len(@))]

Starts(messages, skip) ==
    /\ turns < MaxTurns
    /\ run' = NewRun(skip)
    /\ at' = "start"
    /\ inject' = messages
    /\ UNCHANGED <<more, goOn, batch, transcript, turns>>

Prompt ==
    /\ ~run.active
    /\ sent < MaxMessages
    /\ sent' = sent + 1
    /\ Starts(<<Message("prompt", sent + 1)>>, FALSE)
    /\ UNCHANGED queue

\* continue() after an answer: steering before follow-ups, at most one drain.
ContinueQueued ==
    /\ ~run.active
    /\ transcript # <<>> /\ Last(transcript).role = "assistant"
    /\ LET q == IF queue["steer"] # <<>> THEN "steer" ELSE "followUp"
       IN /\ queue[q] # <<>>
          /\ Drain(q)
          /\ Starts(Drained(q), q = "steer")
    /\ UNCHANGED sent

\* continue() after a message or a tool result: the model is asked (again), and the
\* steering queue is polled first.
ContinueTranscript ==
    /\ ~run.active
    /\ transcript # <<>> /\ Last(transcript).role # "assistant"
    /\ Starts(<<>>, FALSE)
    /\ UNCHANGED <<queue, sent>>

Reset ==
    /\ ~run.active
    /\ transcript' = <<>>
    /\ queue' = [q \in Queues |-> <<>>]
    /\ UNCHANGED <<sent, run, at, inject, more, goOn, batch, turns>>

\* _omitRecoveryAttempt: the session takes the last answer and its tool results out
\* of the conversation to have it asked again, one that failed (auto-retry) or one
\* that was cut off or outgrew the context; the stop reasons that tell them from a
\* natural end are not modelled.  A continue() may follow, after a delay.
OmitAnswer ==
    /\ ~run.active
    /\ \E k \in DOMAIN transcript :
         /\ transcript[k].role = "assistant"
         /\ \A j \in (k + 1)..Len(transcript) : transcript[j].role = "toolResult"
         /\ transcript' = SubSeq(transcript, 1, k - 1)
    /\ UNCHANGED <<queue, sent, run, at, inject, more, goOn, batch, turns>>

-------------------------------------------------------------------------------
(* The loop: messages in, a request out. *)

\* message_end of a prompt or of a pending message.
EmitMessage ==
    /\ at \in {"start", "inject"}
    /\ inject # <<>>
    /\ transcript' = Append(transcript, Head(inject))
    /\ inject' = Tail(inject)
    /\ UNCHANGED <<queue, sent, run, at, more, goOn, batch, turns>>

\* The poll before the first turn; a run started from steering skips it.
FirstPoll ==
    /\ at = "start" /\ inject = <<>>
    /\ at' = "inject"
    /\ IF run.skipPoll
         THEN UNCHANGED <<queue, inject>>
         ELSE inject' = Drained("steer") /\ Drain("steer")
    /\ UNCHANGED <<sent, run, more, goOn, batch, transcript, turns>>

\* prepareRequest, and the request itself.
RequestModel ==
    /\ at = "inject" /\ inject = <<>>
    /\ at' = "request"
    /\ UNCHANGED <<queue, sent, run, inject, more, goOn, batch, transcript, turns>>

\* A call of an answer: its state, and whether its result asks the loop to stop.
Waiting == [state |-> "waiting", stops |-> FALSE]

\* The model answers: with n tool calls, whole or cut off by the token limit, or
\* not at all (an error, or the run was aborted).
Answer ==
    /\ at = "request"
    /\ \/ /\ ~run.aborted
          /\ \E n \in 0..(IF turns < MaxTurns THEN MaxCalls ELSE 0) :
               /\ transcript' = Append(transcript, AnswerMessage(TRUE, n))
               /\ at' = IF n = 0 THEN "finish" ELSE "tools"
               /\ \E kind \in IF n = 0 THEN {"none"} ELSE {"truncated", "sequential", "parallel"} :
                    batch' = [kind |-> kind, calls |-> [i \in 1..n |-> Waiting]]
          /\ more' = FALSE
       \/ /\ transcript' = Append(transcript, AnswerMessage(FALSE, 0))
          /\ at' = "ending"
          /\ UNCHANGED <<more, batch>>
    /\ turns' = IF turns < MaxTurns THEN turns + 1 ELSE turns
    /\ UNCHANGED <<queue, sent, run, inject, goOn>>

-------------------------------------------------------------------------------
(* The tool calls of an answer. *)

Calls == DOMAIN batch.calls
StateOf(i) == batch.calls[i].state

With(i, state, stops) ==
    batch' = [batch EXCEPT !.calls[i] = [state |-> state, stops |-> stops]]

Begun == {i \in Calls : StateOf(i) # "waiting"}

\* A truncated answer runs none of its calls: each is answered with an error.
RefuseCall(i) ==
    /\ at = "tools" /\ batch.kind = "truncated"
    /\ StateOf(i) = "waiting"
    /\ \A j \in 1..(i - 1) : StateOf(j) = "answered"
    /\ With(i, "answered", FALSE)
    /\ transcript' = Append(transcript, ResultMessage(i))
    /\ UNCHANGED <<queue, sent, run, at, inject, more, goOn, turns>>

\* What a call waits for: in sequence the answer of the call before, otherwise
\* only its preparation.
Before(kind) == IF kind = "sequential" THEN {"answered"} ELSE {"prepared", "ended"}

BeginCall(i) ==
    /\ at = "tools" /\ batch.kind \in {"sequential", "parallel"}
    /\ StateOf(i) = "waiting"
    /\ \A j \in 1..(i - 1) : StateOf(j) \in Before(batch.kind)
    /\ i = 1 \/ ~run.aborted
    /\ With(i, "started", FALSE)
    /\ UNCHANGED <<queue, sent, run, at, inject, more, goOn, transcript, turns>>

\* prepareToolCall: the call may run, or it ends at once (an unknown tool, bad
\* arguments, a hook that blocks it, an aborted run).
PrepareCall(i) ==
    /\ at = "tools"
    /\ StateOf(i) = "started"
    /\ \/ /\ ~run.aborted
          /\ With(i, IF batch.kind = "sequential" THEN "running" ELSE "prepared", FALSE)
       \/ \E stops \in BOOLEAN :
            /\ run.aborted => ~stops
            /\ With(i, "ended", stops)
    /\ UNCHANGED <<queue, sent, run, at, inject, more, goOn, transcript, turns>>

\* The prepared calls of a parallel batch are launched together; after an abort
\* they end instead.
Launch ==
    /\ at = "tools" /\ batch.kind = "parallel"
    /\ Begun # {}
    /\ Begun = Calls \/ run.aborted
    /\ \A i \in Begun : StateOf(i) \in {"prepared", "ended"}
    /\ at' = "launched"
    /\ batch' = [batch EXCEPT !.calls =
         [i \in Calls |->
            IF StateOf(i) = "prepared"
              THEN [state |-> IF run.aborted THEN "ended" ELSE "running", stops |-> FALSE]
              ELSE batch.calls[i]]]
    /\ UNCHANGED <<queue, sent, run, inject, more, goOn, transcript, turns>>

\* A tool returns or throws, in any order.
FinishCall(i) ==
    /\ at \in {"tools", "launched"}
    /\ StateOf(i) = "running"
    /\ \E stops \in BOOLEAN : With(i, "ended", stops)
    /\ UNCHANGED <<queue, sent, run, at, inject, more, goOn, transcript, turns>>

\* (mutant) a result is written as soon as its own call has ended
MayAnswerEarly(i) ==
    \/ at = "launched"
    \/ at = "tools" /\ batch.kind = "sequential"

\* Results are written in the order of the calls, those of a parallel batch
\* once every call has ended.
MayAnswer(i) ==
    /\ \/ at = "launched" /\ \A j \in Begun : StateOf(j) \in {"ended", "answered"}
       \/ at = "tools" /\ batch.kind = "sequential"
    /\ \A j \in Begun : j < i => StateOf(j) = "answered"

AnswerCall(i) ==
    /\ StateOf(i) = "ended"
    /\ MayAnswer(i)
    /\ With(i, "answered", batch.calls[i].stops)
    /\ transcript' = Append(transcript, ResultMessage(i))
    /\ UNCHANGED <<queue, sent, run, at, inject, more, goOn, turns>>

\* (mutant) the loop goes on before the last calls of a batch were begun
BatchIsDoneEarly == Begun # {}

\* (mutant) an aborted batch waits for the calls it will never begin
BatchIsDoneAll == Begun = Calls

\* Every call was begun, unless the run was aborted.
BatchIsDone == Begun # {} /\ (Begun = Calls \/ (run.aborted /\ batch.kind # "truncated"))

\* The batch asks for another turn unless every call of it asks to stop.
BatchDone ==
    /\ at \in {"tools", "launched"}
    /\ BatchIsDone
    /\ \A i \in Begun : StateOf(i) = "answered"
    /\ more' = \E i \in Begun : ~batch.calls[i].stops
    /\ batch' = NoBatch
    /\ at' = "finish"
    /\ UNCHANGED <<queue, sent, run, inject, goOn, transcript, turns>>

-------------------------------------------------------------------------------
(* The end of a turn and of a run. *)

\* finishTurn and turn_end, then the poll for steering messages.
Finish ==
    /\ at = "finish"
    /\ \/ at' = "ending" /\ UNCHANGED <<queue, inject, goOn>>
       \/ /\ inject' = Drained("steer")
          /\ Drain("steer")
          /\ LET again == more \/ Drained("steer") # <<>>
             IN /\ at' = IF again THEN "prepare" ELSE "followUp"
                /\ \E asked \in IF turns < MaxTurns THEN BOOLEAN ELSE {FALSE} :
                     goOn' = (asked /\ ~again)
    /\ UNCHANGED <<sent, run, more, batch, transcript, turns>>

\* The agent would stop here: follow-ups, or the turn finishTurn asked for.
FollowUp ==
    /\ at = "followUp"
    /\ inject' = Drained("followUp")
    /\ Drain("followUp")
    /\ goOn' = FALSE
    /\ at' = IF Drained("followUp") # <<>> \/ goOn THEN "prepare" ELSE "ending"
    /\ more' = (at' = "prepare")
    /\ UNCHANGED <<sent, run, batch, transcript, turns>>

\* (mutant) the poll is repeated whatever the one before returned
PollsAgainAlways == TRUE

\* Only an earlier poll that returned nothing is repeated.
PollsAgain == inject = <<>>

\* prepareNextTurn, which may take long, and the poll after it.
Prepare ==
    /\ at = "prepare"
    /\ at' = "inject"
    /\ IF PollsAgain
         THEN inject' = inject \o Drained("steer") /\ Drain("steer")
         ELSE UNCHANGED <<queue, inject>>
    /\ UNCHANGED <<sent, run, more, goOn, batch, transcript, turns>>

\* agent_end was emitted, or the failure was dealt with: finishRun.
EndRun ==
    /\ at \in {"ending", "failed"}
    /\ run' = NoRun
    /\ at' = "idle"
    /\ more' = FALSE /\ goOn' = FALSE
    /\ UNCHANGED <<queue, sent, inject, batch, transcript, turns>>

\* handleRunFailure after a listener or a hook threw, at whatever event: what was
\* drained is lost, and so are the results of the calls under way, which run on
\* unheeded.  The failure becomes an answer unless a listener throws at that too. (A
\* run that fails before it has an answer counts as a turn in the bound.)
Fail ==
    /\ at \notin {"idle", "failed"}
    /\ transcript' \in {transcript, Append(transcript, AnswerMessage(FALSE, 0))}
    /\ inject' = <<>>
    /\ batch' = NoBatch
    /\ at' = "failed"
    /\ LET answered == \E k \in (run.base + 1)..Len(transcript) : transcript[k].role = "assistant"
       IN  turns' = IF answered \/ turns = MaxTurns THEN turns ELSE turns + 1
    /\ UNCHANGED <<queue, sent, run, more, goOn>>

Proceed ==
    \/ EmitMessage \/ FirstPoll \/ RequestModel \/ Answer \/ Launch \/ BatchDone
    \/ Finish \/ FollowUp \/ Prepare \/ EndRun
    \/ \E i \in Calls : RefuseCall(i) \/ BeginCall(i) \/ PrepareCall(i)
                          \/ FinishCall(i) \/ AnswerCall(i)

Next ==
    \/ Proceed \/ Fail
    \/ Prompt \/ ContinueQueued \/ ContinueTranscript \/ OmitAnswer \/ Reset \/ Abort
    \/ \E q \in Queues : Queue(q) \/ Clear(q)

Spec == Init /\ [][Next]_vars

\* The loop goes on: the model answers or its stream ends with an error, a tool
\* returns or throws.  Nobody has to send, abort or fail.
FairSpec == Spec /\ WF_vars(Proceed)

-------------------------------------------------------------------------------
(* Properties. *)

Senders == Queues \cup {"prompt"}

UserMessage == [role : {"user"}, via : Senders, id : 1..MaxMessages]

\* The loop's variables have their types; a run is active exactly while the loop
\* is somewhere, only one sender's messages are on their way into the transcript,
\* and tool calls are on record only while they are carried out.
TypeOK ==
    /\ \A q \in Queues : \A m \in ToSet(queue[q]) : m \in UserMessage /\ m.via = q
    /\ sent \in 0..MaxMessages
    /\ run \in [active : BOOLEAN, aborted : BOOLEAN, skipPoll : BOOLEAN, base : Nat]
    /\ at \in {"idle", "start", "inject", "request", "tools", "launched", "finish",
               "prepare", "followUp", "ending", "failed"}
    /\ run.active <=> at # "idle"
    /\ ToSet(inject) \subseteq UserMessage
    /\ \A m, n \in ToSet(inject) : m.via = n.via
    /\ more \in BOOLEAN /\ goOn \in BOOLEAN
    /\ batch.kind \in {"none", "truncated", "sequential", "parallel"}
    /\ batch.kind # "none" <=> at \in {"tools", "launched"}
    /\ \A i \in Calls :
         StateOf(i) \in {"waiting", "started", "prepared", "running", "ended", "answered"}
    /\ turns \in 0..MaxTurns

IsAnswer(k) == transcript[k].role = "assistant"

\* agent-loop.ts, executeToolCallsParallel: tools run in any order, are aborted or
\* blocked, and still every tool result of the transcript stands behind the answer
\* that called it, in the order of its calls, with no message in between: the model
\* providers refuse any other conversation.
ResultsInOrder ==
    \A k \in DOMAIN transcript :
      transcript[k].role = "toolResult" =>
        LET first == k - transcript[k].call
        IN /\ first >= 1
           /\ IsAnswer(first)
           /\ transcript[first].calls >= transcript[k].call
           /\ \A j \in (first + 1)..k : transcript[j] = ResultMessage(j - first)

\* agent-loop.ts, runLoop: a run that nobody aborted asks the model again only when
\* each tool call of its earlier answers has its result.
RequestsAreComplete ==
    (at = "request" /\ ~run.aborted) =>
      \A k \in (run.base + 1)..Len(transcript) :
        IsAnswer(k) =>
          \A i \in 1..transcript[k].calls :
            k + i \in DOMAIN transcript /\ transcript[k + i] = ResultMessage(i)

\* The message at k follows another of the same one-at-a-time queue at once.
CrowdsAt(k) ==
    /\ transcript[k].role = "user" /\ transcript[k - 1].role = "user"
    /\ transcript[k].via = transcript[k - 1].via
    /\ transcript[k].via \in Queues => Mode[transcript[k].via] # "all"

\* agent-loop.ts, the comment at the poll after prepareNextTurn: in one run a queue in
\* one-at-a-time mode hands the model one message, then the model answers, over every
\* combination of polls, preparations and a run that starts from a queue.
OneMessagePerTurn ==
    run.active => \A k \in (run.base + 2)..Len(transcript) : ~CrowdsAt(k)

\* The messages of one sender among others: the n-th is the one that has n of them up
\* to it.
TheirsIn(messages, via) ==
    {k \in DOMAIN messages : messages[k].role = "user" /\ messages[k].via = via}
RankedIn(places, n) == {k \in places : Cardinality({j \in places : j <= k}) = n}

Ids(messages, via) ==
    LET theirs == TheirsIn(messages, via)
        Nth(n) == CHOOSE k \in RankedIn(theirs, n) : TRUE
    IN  [n \in 1..Cardinality(theirs) |-> messages[Nth(n)].id]

Waits(via) == Ids(inject, via) \o (IF via \in Queues THEN Ids(queue[via], via) ELSE <<>>)

Inbox == INSTANCE MessageInbox WITH
    Queues <- Senders,
    Messages <- 1..MaxMessages,
    waiting <- [via \in Senders |-> Waits(via)],
    delivered <- [via \in Senders |-> Ids(transcript, via)],
    sent <- 1..sent

\* agent.ts, PendingMessageQueue and the polls of the loop: steering messages,
\* follow-ups and prompts reach the transcript in the order they were sent and at
\* most once, whichever poll or continue() drains them; a failed run or a cleared
\* queue loses a stretch of them for good.
ImplementsInbox == Inbox!Spec

\* agent.ts, runWithLifecycle: every run ends, whatever is queued, aborted, refused
\* or blocked meanwhile, once the model stops asking for tools.
RunsEnd == run.active ~> ~run.active
===============================================================================
