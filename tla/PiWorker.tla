-------------------------------- MODULE PiWorker --------------------------------
(*****************************************************************************)
(* The worker process between the job broker and the agent's session         *)
(* (harness/agent/worker.ts, bridge.ts, scheduling.ts): it claims a job,     *)
(* prompts the session up to three times, keeps the lease alive, hands the   *)
(* operator's feedback to the session, posts the session's events and        *)
(* reports the job.                                                          *)
(*                                                                           *)
(* One JavaScript thread; a step reaches from one await to the next.  The    *)
(* main loop, the heartbeat timer, the tools, the deadline timer, the event  *)
(* posts and the session's own run interleave at those points.  The session  *)
(* (AgentLoop, and coding-agent's AgentSession around it) is reduced to      *)
(* where its run stands and the messages it still holds, the broker          *)
(* (AgentBroker) to the feedback it offers and has seen acknowledged; any    *)
(* request may fail, before or after the broker acted on it.                 *)
(*****************************************************************************)
EXTENDS Integers, Sequences, SequencesExt

CONSTANTS
    Feedback,       \* the operator's messages to a running job
    NoItem,
    MaxJobs,        \* bound: jobs
    MaxEpisodes,    \* bound: episodes
    EventBudget,    \* events of a run (12000)
    Prompts,        \* prompts of a job (3)
    MaxFailures,    \* failures in a row after which the worker exits (60)
    MaxBeats        \* bound: heartbeats waiting in the chain

ASSUME WorkerAssumption ==
    {MaxJobs, MaxEpisodes, EventBudget, Prompts, MaxFailures, MaxBeats} \subseteq Nat \ {0}

VARIABLES
    pc,         \* where the main loop stands
    job,        \* activeJob: its number and episode; number 0 for none
    claimed,    \* jobs claimed so far
    episode,    \* the episode of the simulation
    running,    \* FALSE after SIGTERM
    session,    \* the session object, its episode and the messages it holds
    turn,       \* the session's run, and how often the job prompted it
    beats,      \* the promise chain heartbeatTask
    broken,     \* a link of the chain was rejected
    fb,         \* FeedbackDelivery: delivered and pending
    posts,      \* events waiting to be posted
    events,     \* eventCount, and whether an event was not delivered
    runFailure,
    timers,     \* the deadline timer, and timers no variable holds
    approvals,  \* tools that wait for the operator's approval
    failures,   \* networkFailures
    broker,     \* of the running job: the feedback offered and acknowledged
    seen        \* feedback the model has read

loop == <<pc, job, claimed, failures>>
world == <<episode, running, broker>>
agent == <<session, turn, seen>>
chain == <<beats, broken, fb>>
clock == <<runFailure, timers, approvals>>
outbox == <<posts, events>>

vars == <<loop, world, agent, chain, clock, outbox>>

NoJob == [number |-> 0, episode |-> 0]
NoTurn == [at |-> "idle", aborted |-> FALSE, prompts |-> 0]
NoEvents == [count |-> 0, lost |-> FALSE]
NoFeedback == [delivered |-> {}, pending |-> {}]
NoOffer == [offered |-> {}, acked |-> {}]
NoTimer == [deadline |-> FALSE, stray |-> 0]

Init ==
    /\ pc = "poll" /\ running = TRUE
    /\ job = NoJob /\ claimed = 0 /\ episode = 1
    /\ session = [state |-> "none", episode |-> 0, inbox |-> <<>>]
    /\ turn = NoTurn
    /\ beats = <<>> /\ broken = FALSE
    /\ fb = NoFeedback
    /\ posts = 0 /\ events = NoEvents
    /\ runFailure = FALSE
    /\ timers = NoTimer /\ approvals = 0
    /\ failures = 0
    /\ broker = NoOffer
    /\ seen = <<>>

InTurn == pc \in {"run", "lastBeat", "events", "completing"}

\* session.abort(): a prompt that has not reached the agent yet is not aborted.
Abort(t) == IF t.at = "streaming" THEN [t EXCEPT !.aborted = TRUE] ELSE t

-------------------------------------------------------------------------------
(* The main loop: claiming a job and opening the session. *)

\* A request fails, or answers with no job.
PollFails ==
    /\ pc = "poll" /\ running
    /\ pc' = "backoff"
    /\ failures' = failures + 1
    /\ UNCHANGED <<world, agent, chain, clock, outbox, job, claimed>>

\* The broker hands out a queued job.  Its episode is set before the broker is made
\* (main.py), so no job is of an earlier one than the session was opened for.
Claim ==
    /\ pc = "poll" /\ running
    /\ claimed < MaxJobs
    /\ claimed' = claimed + 1
    /\ \E e \in (IF session.state = "none" THEN 1 ELSE session.episode)..episode :
         job' = [number |-> claimed + 1, episode |-> e]
    /\ pc' = "open"
    /\ failures' = 0
    /\ runFailure' = FALSE
    /\ beats' = <<>> /\ broken' = FALSE
    /\ UNCHANGED <<world, agent, outbox, fb, timers, approvals>>

\* (mutant) the session disposed for new skills is kept
RenewedKept(s) == [s EXCEPT !.state = "disposed"]

\* Skills changed on disk: the cached session is dropped.
Renewed(s) == [s EXCEPT !.state = "none"]

\* Reusing the session, or disposing of it and making another, which may fail.
Open ==
    /\ pc = "open"
    /\ \E skillsChanged \in BOOLEAN :
         LET cached == IF skillsChanged THEN Renewed(session) ELSE session
         IN \/ /\ cached.state # "none" /\ cached.episode = job.episode
               /\ session' = cached /\ pc' = "run"
            \/ /\ cached.state = "none" \/ cached.episode # job.episode
               /\ \/ /\ session' = [state |-> "open", episode |-> job.episode, inbox |-> <<>>]
                     /\ pc' = "run"
                  \/ /\ session' = [cached EXCEPT !.state = IF @ = "none" THEN @ ELSE "disposed"]
                     /\ pc' = "report"
    /\ IF pc' = "run"
         THEN /\ timers' = [timers EXCEPT !.deadline = TRUE]
              /\ turn' = [NoTurn EXCEPT !.at = "prelude", !.prompts = 1]
         ELSE UNCHANGED <<timers, turn>>
    /\ UNCHANGED <<world, chain, outbox, job, claimed, runFailure, approvals, failures,
                   seen>>

-------------------------------------------------------------------------------
(* The session's run. *)

\* The prompt reaches the agent, as a run that is not aborted.
StartRun ==
    /\ turn.at = "prelude"
    /\ turn' = [turn EXCEPT !.at = "streaming"]
    /\ UNCHANGED <<loop, world, chain, clock, outbox, session, seen>>

\* The model reads a message the session holds, also one an earlier job left.
Read ==
    /\ turn.at = "streaming" /\ session.inbox # <<>>
    /\ seen' = Append(seen, Head(session.inbox))
    /\ session' = [session EXCEPT !.inbox = Tail(@)]
    /\ UNCHANGED <<loop, world, chain, clock, outbox, turn>>

Emit ==
    /\ turn.at = "streaming"
    /\ events.count <= EventBudget
    /\ IF events.count < EventBudget
         THEN /\ posts' = posts + 1
              /\ events' = [events EXCEPT !.count = @ + 1]
              /\ UNCHANGED <<runFailure, turn>>
         ELSE /\ events' = [count |-> events.count + 1, lost |-> TRUE]
              /\ runFailure' = TRUE
              /\ turn' = Abort(turn)
              /\ UNCHANGED posts
    /\ UNCHANGED <<loop, world, chain, session, timers, approvals, seen>>

\* The next event of the chain is posted, dropped after a failure, or fails.
Post ==
    /\ posts > 0
    /\ posts' = posts - 1
    /\ \/ ~runFailure /\ UNCHANGED <<events, runFailure, turn>>
       \/ /\ events' = [events EXCEPT !.lost = TRUE]
          /\ runFailure' = TRUE
          /\ turn' = IF runFailure THEN turn ELSE Abort(turn)
    /\ UNCHANGED <<loop, world, chain, session, timers, approvals, seen>>

\* A tool that submits is executed alone.
MayAsk == approvals = 0

\* A plan waits for the operator: the deadline is suspended.
AskApproval ==
    /\ turn.at = "streaming" /\ ~turn.aborted /\ ~runFailure
    /\ MayAsk
    /\ approvals' = approvals + 1
    /\ timers' = [timers EXCEPT !.deadline = FALSE]
    /\ UNCHANGED <<loop, world, agent, chain, outbox, runFailure>>

\* The operator decided, the plan expired, the run was aborted or a request failed.
EndApproval ==
    /\ approvals > 0
    /\ approvals' = approvals - 1
    /\ timers' = IF runFailure THEN timers
                 ELSE [deadline |-> TRUE,
                       stray |-> timers.stray + (IF timers.deadline THEN 1 ELSE 0)]
    /\ UNCHANGED <<loop, world, agent, chain, outbox, runFailure>>

DeadlineFires ==
    /\ \/ timers.deadline /\ timers' = [timers EXCEPT !.deadline = FALSE]
       \/ timers.stray > 0 /\ timers' = [timers EXCEPT !.stray = @ - 1]
    /\ runFailure' = TRUE
    /\ turn' = Abort(turn)
    /\ UNCHANGED <<loop, world, chain, outbox, session, approvals, seen>>

\* The session goes on while it holds messages, unless it was aborted.
Settle ==
    /\ turn.at = "streaming" /\ approvals = 0
    /\ turn.aborted \/ session.inbox = <<>>
    /\ turn' = [turn EXCEPT !.at = "idle"]
    /\ UNCHANGED <<loop, world, chain, clock, outbox, session, seen>>

-------------------------------------------------------------------------------
(* Heartbeats: a chain of promises, each link starting when the one before ends. *)

NewBeat(by) == [by |-> by, at |-> "waiting", list |-> {}, item |-> NoItem]

\* The timer of withRunHeartbeat, or a tool about to call the backend.
Beat ==
    /\ Len(beats) < MaxBeats
    /\ \E by \in {"timer", "tool"} :
         /\ IF by = "timer" THEN InTurn ELSE turn.at = "streaming"
         /\ beats' = Append(beats, NewBeat(by))
    /\ UNCHANGED <<loop, world, agent, clock, outbox, broken, fb>>

\* (mutant) heartbeats are not chained
MayMoveAny(i) == i \in DOMAIN beats

\* (mutant) the newest heartbeat goes first
MayMoveLast(i) == beats # <<>> /\ i = Len(beats)

\* Only the oldest link moves.
MayMove(i) == i = 1 /\ beats # <<>>

\* A link is rejected, and with it every link behind it.
Reject ==
    /\ broken' = TRUE
    /\ beats' = <<>>
    /\ IF \E i \in DOMAIN beats : beats[i].by = "timer"
         THEN runFailure' = TRUE /\ turn' = Abort(turn)
         ELSE UNCHANGED <<runFailure, turn>>
    /\ pc' = IF \E i \in DOMAIN beats : beats[i].by = "main" THEN "cleanFailed" ELSE pc
    /\ timers' = IF pc' = "cleanFailed" THEN [timers EXCEPT !.deadline = FALSE] ELSE timers

\* The link ends; the main loop goes on if it waited for it.
EndBeat(i) ==
    /\ beats' = [k \in 1..(Len(beats) - 1) |-> IF k < i THEN beats[k] ELSE beats[k + 1]]
    /\ pc' = IF beats[i].by = "main" THEN "events" ELSE pc

\* The broker acknowledges what was handed to the session, and lists the rest.
Acked == broker.acked \cup (fb.pending \cap broker.offered)

BeatAnswered(i) ==
    /\ MayMove(i) /\ beats[i].at = "waiting" /\ ~broken
    /\ job.episode = episode
    /\ broker' = [broker EXCEPT !.acked = Acked]
    /\ LET list == broker.offered \ Acked
       IN /\ fb' = [fb EXCEPT !.pending = {}]
          /\ IF turn.at # "streaming" \/ list = {}
               THEN EndBeat(i)
               ELSE beats' = [beats EXCEPT ![i].at = "steering", ![i].list = list]
                    /\ UNCHANGED pc
    /\ UNCHANGED <<agent, clock, outbox, job, claimed, episode, running, broken,
                   failures>>

\* The reply says cancel, the request fails, or the chain is broken already.
BeatFails(i) ==
    /\ MayMove(i) /\ beats[i].at = "waiting"
    /\ broker' \in {broker, [broker EXCEPT !.acked = IF broken THEN @ ELSE Acked]}
    /\ Reject
    /\ UNCHANGED <<outbox, job, claimed, episode, running, session, fb, approvals,
                   failures, seen>>

\* deliver(): the next message of the list that was not delivered before.
PickItem(i) ==
    /\ MayMove(i) /\ beats[i].at = "steering"
    /\ LET rest == beats[i].list \ fb.delivered
       IN IF rest = {}
            THEN EndBeat(i)
            ELSE /\ \E f \in rest :
                      beats' = [beats EXCEPT ![i].at = "queueing", ![i].item = f]
                 /\ UNCHANGED pc
    /\ UNCHANGED <<world, agent, clock, outbox, job, claimed, broken, fb, failures>>

\* steer() put it into the session's queue, whether or not the run still goes on.
QueueItem(i) ==
    /\ MayMove(i) /\ beats[i].at = "queueing"
    /\ LET f == beats[i].item
       IN /\ session' = [session EXCEPT !.inbox = Append(@, [job |-> job.number, item |-> f])]
          /\ fb' = [delivered |-> fb.delivered \cup {f}, pending |-> fb.pending \cup {f}]
    /\ beats' = [beats EXCEPT ![i].at = "steering", ![i].item = NoItem]
    /\ UNCHANGED <<loop, world, clock, outbox, turn, broken, seen>>

\* steer() refuses the message.
RefuseItem(i) ==
    /\ MayMove(i) /\ beats[i].at = "queueing"
    /\ Reject
    /\ UNCHANGED <<world, outbox, job, claimed, session, fb, approvals, failures, seen>>

-------------------------------------------------------------------------------
(* The main loop: prompting, the last heartbeat, the report. *)

\* The operation of withRunHeartbeat threw.
Clean == pc' = "cleanFailed" /\ timers' = [timers EXCEPT !.deadline = FALSE]

\* session.prompt() refuses before the agent runs.
PromptFails ==
    /\ turn.at = "prelude"
    /\ turn' = [turn EXCEPT !.at = "idle"]
    /\ Clean
    /\ UNCHANGED <<world, chain, outbox, job, claimed, session, runFailure, approvals,
                   failures, seen>>

\* (mutant) the session's run is not awaited
TurnOverEarly == pc = "run" /\ turn.at # "prelude"

\* runUntilSettled returned.
TurnOver == pc = "run" /\ turn.at = "idle"

\* A plan without a reason, then a run without a decision, is prompted once more.
PromptAgain ==
    /\ TurnOver /\ turn.prompts < Prompts
    /\ turn' = [turn EXCEPT !.at = "prelude", !.aborted = FALSE, !.prompts = @ + 1]
    /\ UNCHANGED <<loop, world, chain, clock, outbox, session, seen>>

ReasonMissing ==
    /\ TurnOver /\ turn.prompts > 1
    /\ Clean
    /\ UNCHANGED <<world, agent, chain, outbox, job, claimed, runFailure, approvals,
                   failures>>

LastBeat ==
    /\ TurnOver
    /\ pc' = "lastBeat"
    /\ beats' = Append(beats, NewBeat("main"))
    /\ UNCHANGED <<world, agent, clock, outbox, job, claimed, broken, fb, failures>>

\* (mutant) the report does not wait for the events
AllPostedAlways == TRUE

AllPosted == posts = 0

\* The verdict: no failure was recorded and the last answer is whole, which it may be
\* although the run was aborted after it.
Judge ==
    /\ pc = "events" /\ AllPosted
    /\ \/ ~runFailure /\ pc' = "completing" /\ UNCHANGED timers
       \/ Clean
    /\ UNCHANGED <<world, agent, chain, outbox, job, claimed, runFailure, approvals,
                   failures>>

\* The completion report is answered, or fails although it may have arrived.
Complete ==
    /\ pc = "completing"
    /\ pc' \in {"cleanDone", "cleanFailed"}
    /\ timers' = [timers EXCEPT !.deadline = FALSE]
    /\ UNCHANGED <<world, agent, chain, outbox, job, claimed, runFailure, approvals,
                   failures>>

\* (mutant) the heartbeats under way are not awaited
SettledButBeats == posts = 0

\* What the finally block waits for.
Settled == posts = 0 /\ beats = <<>>

Finally ==
    /\ pc \in {"cleanDone", "cleanFailed"}
    /\ Settled
    /\ IF pc = "cleanDone"
         THEN pc' = "poll" /\ job' = NoJob
         ELSE pc' = "report" /\ UNCHANGED job
    /\ turn' = NoTurn /\ events' = NoEvents
    /\ fb' = NoFeedback /\ broker' = NoOffer
    /\ UNCHANGED <<clock, claimed, episode, running, session, beats, broken, posts,
                   failures, seen>>

\* The failure report, whatever becomes of it.
Report ==
    /\ pc = "report"
    /\ pc' = "backoff"
    /\ job' = NoJob /\ broker' = NoOffer
    /\ failures' = failures + 1
    /\ UNCHANGED <<agent, chain, clock, outbox, claimed, episode, running>>

Backoff ==
    /\ pc = "backoff"
    /\ pc' = IF failures > MaxFailures THEN "exited" ELSE "poll"
    /\ UNCHANGED <<world, agent, chain, clock, outbox, job, claimed, failures>>

Exit ==
    /\ pc = "poll" /\ ~running
    /\ pc' = "exited"
    /\ UNCHANGED <<world, agent, chain, clock, outbox, job, claimed, failures>>

-------------------------------------------------------------------------------
(* The surroundings. *)

\* The operator writes to the running job.
Offer ==
    /\ InTurn \/ pc = "open"
    /\ \E f \in Feedback \ broker.offered :
         broker' = [broker EXCEPT !.offered = @ \cup {f}]
    /\ UNCHANGED <<loop, agent, chain, clock, outbox, episode, running>>

NextEpisode ==
    /\ episode < MaxEpisodes
    /\ episode' = episode + 1
    /\ UNCHANGED <<loop, agent, chain, clock, outbox, running, broker>>

Terminate ==
    /\ running
    /\ running' = FALSE
    /\ turn' = Abort(turn)
    /\ UNCHANGED <<loop, chain, clock, outbox, episode, session, broker, seen>>

Main ==
    \/ PollFails \/ Claim \/ Open \/ PromptFails \/ PromptAgain \/ ReasonMissing
    \/ LastBeat \/ Judge \/ Complete \/ Finally \/ Report \/ Backoff \/ Exit

Session == StartRun \/ Read \/ EndApproval \/ Settle

Chain ==
    \E i \in DOMAIN beats :
      BeatAnswered(i) \/ BeatFails(i) \/ PickItem(i) \/ QueueItem(i) \/ RefuseItem(i)

Next ==
    \/ Main \/ Session \/ Chain \/ Post
    \/ Emit \/ AskApproval \/ DeadlineFires \/ Beat
    \/ Offer \/ NextEpisode \/ Terminate

Spec == Init /\ [][Next]_vars

\* Every request is answered or times out and an approval is decided or expires.
\* After 24 tool calls a run gets only errors, so it cannot ask for ever.
FairSpec ==
    /\ Spec
    /\ WF_vars(Main) /\ WF_vars(Chain) /\ WF_vars(Post)
    /\ WF_vars(StartRun) /\ WF_vars(Read) /\ WF_vars(EndApproval) /\ SF_vars(Settle)

-------------------------------------------------------------------------------
(* Properties. *)

TypeOK ==
    /\ pc \in {"poll", "open", "run", "lastBeat", "events", "completing", "cleanDone",
               "cleanFailed", "report", "backoff", "exited"}
    /\ job.number \in 0..MaxJobs /\ job.episode \in 0..MaxEpisodes
    /\ job.number # 0 <=> pc \notin {"poll", "backoff", "exited"}
    /\ claimed \in 0..MaxJobs /\ episode \in 1..MaxEpisodes
    /\ running \in BOOLEAN /\ broken \in BOOLEAN /\ runFailure \in BOOLEAN
    /\ session.state \in {"none", "open", "disposed"}
    /\ turn.at \in {"idle", "prelude", "streaming"} /\ turn.prompts \in 0..Prompts
    /\ turn.at # "idle" => pc = "run"
    /\ Len(beats) <= MaxBeats + 1
    /\ fb.pending \cup fb.delivered \subseteq Feedback
    /\ broker.acked \subseteq broker.offered /\ broker.offered \subseteq Feedback

\* worker.ts, the finally block: when the loop claims the next job, nothing of the
\* last one can still act: no heartbeat or event is under way, no deadline is armed,
\* not one that an approval rearmed and no variable holds, and the session is not
\* running.  Only this makes the single activeJob, runFailure and heartbeatTask of
\* the process safe.
QuietBetweenJobs ==
    pc \in {"poll", "open", "report", "backoff", "exited"} =>
      /\ beats = <<>> /\ posts = 0
      /\ timers = NoTimer
      /\ turn.at = "idle" /\ approvals = 0

\* bridge.ts, FeedbackDelivery, and broker.py, heartbeat: the broker lists a message
\* in every heartbeat until it is acknowledged, and the session still gets it once; a
\* message of the running job counts as delivered only once the session holds it or
\* the model has read it.
FeedbackIsDelivered ==
    LET given == seen \o session.inbox
    IN  /\ IsInjective(given)
        /\ job.number # 0 =>
             \A f \in broker.acked : [job |-> job.number, item |-> f] \in ToSet(given)

\* worker.ts, makeSession and the cache around it: a session that was disposed of is
\* never prompted for a job of the current episode.
DisposedSessionsAreStale ==
    (InTurn /\ session.state = "disposed") => job.episode < episode

\* worker.ts:95-105, 189-213: a job is reported as completed only when every event of
\* its run arrived and none of its heartbeats was refused, whether a tool, the timer or
\* the loop sent it: a run that the broker told to cancel is not reported as done.
CompletedIsWhole ==
    [][pc # "completing" /\ pc' = "completing" =>
         ~events.lost /\ posts = 0 /\ ~broken]_vars

\* withRunHeartbeat, heartbeatRun and the finally block: whatever fails, hangs on
\* an approval or is aborted, a claimed job is reported and the worker polls again
\* or exits.
JobsAreReported == job.number # 0 ~> job.number = 0
===============================================================================
