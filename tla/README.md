# Verification of the maritime-surveillance scheduler

TLA+ models, TLC runs and TLAPS proofs of the control and scheduling core of this
repository. Paths are relative to the repository (`src/control/...` is Python,
`adapter/` the bridge to the planning agent, `harness/agent/` its TypeScript worker,
`harness/packages/` the coding-agent packages the worker is built on).

## 1. The system

A fleet of UAVs searches a sea area for ships. The simulation (`env/simulation.py`) runs
on one thread: each step applies queued commands, lets the control coordinator fly every
UAV, updates sensors and contacts, finishes coverage and probe sessions, services the
bases, and then lets the scheduler (`schedule/task_allocator.py`,
`mission/mission_scheduler.py`) assign a batch of tasks. The scheduler may ask an external
planning agent through the broker (`adapter/broker.py`); a FastAPI event loop serves the
agent's worker process, the operators and the views.

| component | state | operations | interacts through |
|---|---|---|---|
| lease store (`control/common/ownership.py`) | one lease (owner, controller, generation) per UAV | acquire, replace, batch, release, accepts | lock; used by the coordinator |
| coordinator (`control/common/coordinator.py`) and task flow (`control/heuristic/task_flow.py`) | controllers, pending tasks, modes, remembered coverage, queued events, quarantine | start, assign, batch, recall, hold, reset, quarantine, tick | called by the simulation; re-entered by controllers and callbacks |
| broker (`adapter/broker.py`), port (`adapter/schedule_adapter.py`) | runs with leases and feedback, plans, grants, autonomy mode | enqueue and wait, claim, heartbeat, submit, report, decide, cancel | scheduler thread, event loop, worker process, operators |
| worker (`harness/agent/worker.ts`, `bridge.ts`, `scheduling.ts`) | its job, session, chain of heartbeats, delivered feedback, events to post, timers | poll, prompt, beat, inject, post, settle, report, clean up | broker over HTTP, the agent's session |
| agent and its loop (`harness/packages/agent/src/agent.ts`, `agent-loop.ts`) | steering and follow-up queues, the active run, the transcript | prompt, continue, steer, follow up, clear, abort, reset; request, tool calls, polls | model providers, tools, listeners |
| session log (`harness/packages/coding-agent/src/core/session-manager.ts`) | a tree of entries in memory, its file | append, branch, label, compact, open, fork, migrate | the file system, the session of the worker |
| recovery and bases (`env/simulation.py`, `env/base_station.py`) | return state, landing queue, service | recall, divert, land, refuel | simulation thread, coordinator |
| contacts (`mission/contact_store.py`) | contact life cycle, assignment, aliases | observe, merge, assign, release, expire | simulation thread, events to the coordinator |
| intents and command queues (`mission/intent_store.py`, `intent_commands.py`, `vessel_commands.py`) | revisions, life cycles, idempotency keys | submit, drain, complete, expire | HTTP thread to simulation thread |
| hand-off (`mission/handoff.py`) | attempts with deadlines | require, assign, lock, fail | simulation thread |
| triggers and commit (`schedule/trigger_manager.py`, `task_allocator.py`) | pending events, de-duplication, snapshots | add, check, decide, commit | simulation thread |
| frame publisher (`vis/backend/frame_publisher.py`) | queues of frames, acknowledgements | publish, drain, flush | worker threads, websockets |
| LLM gateway (`mission/llm_gateway.py`) | attempts, deadlines | request, retry | thread pool |

Hard behaviours: a controller's decision that is applied after its lease moved on; events
queued under one task and consumed under the next; batches that must move several leases
and controllers or none; a worker that dies, stalls or reports late; approvals that race
with deadlines; operator input that must not be lost or doubled; a scheduler thread (and
with it the simulation) that blocks on an answer; feedback that reaches the model through
two queues, four polls and a chain of promises; tools that end in any order; a session file
that is cut off in the middle of a line. `PROJECT.json` lists each hazard at its
line with the properties that watch it. Geometry, flight dynamics, sensor models and
learned statistics are floating point and stay outside.

## 2. Modules

| module | models | kind |
|---|---|---|
| `LeaseTable` | what leases promise: one generation per handover, a learned policy takes over only from the SYSTEM | abstract specification |
| `ControlOwnership` | the lease store with callers that keep leases | implements `LeaseTable` |
| `ControlOwnershipProofs` | its theorems | TLAPS |
| `ControlCoordinator` | every state-changing operation of the coordinator, its tick and its events | implements `LeaseTable` |
| `ControlCoordinatorProofs` | its theorems | TLAPS |
| `AgentBroker` | broker and scheduler port, with a worker reduced to what the broker sees of it | state machine with fairness |
| `AgentBrokerProofs` | its theorems | TLAPS |
| `PiWorker` | the worker process between broker and session | state machine with fairness |
| `PiWorkerProofs` | its theorems | TLAPS |
| `MessageInbox` | what the agent promises to whoever sends it a message: in order, at most once, never revived | abstract specification |
| `AgentLoop` | the agent's queues, its runs and the loop of requests, tool calls and polls | implements `MessageInbox`; fairness |
| `AgentLoopProofs` | its theorems | TLAPS |
| `AgentInboxProofs` | that the loop implements `MessageInbox` | TLAPS |
| `SessionLog` | the session's tree and its file, with deaths and failed writes | state machine |
| `SessionLogProofs` | its theorems | TLAPS |
| `CommandReceipts` | what the queues promise a client: a command is taken once, carried out at most once, and its receipt is final | abstract specification |
| `OperatorCommands` | the intent and runtime queues, the intent store, and the boundaries of the simulation thread | implements `CommandReceipts`; fairness |
| `OperatorCommandsProofs` | its theorems | TLAPS |
| `MC*` | constants for TLC | |

Operators marked `(mutant)` are plausible bugs of the definition that follows them;
`PROJECT.json` pairs each with the property that must notice it. They take part in no
specification.

### ControlOwnership
`leases` is `_leases`; `seen` is what callers remember. `Acquire`, `Replace`,
`ReleaseToSystem` and `TransitionBatch` are the four writing methods (a call that raises
changes nothing and has no action), `Current` the read. Owners are those the callers pass:
`Replace` gives a lease to SYSTEM or HEURISTIC only.

### ControlCoordinator
The variables are the coordinator's dictionaries: `lease` (owner and generation of
`ownership.current`), `controller` (`_controllers`, named by the task the controller was
built for), `pending` (`_pending_tasks`), `mode` (`_operation_modes`), `saved`
(`_saved_coverage_tasks` of the task flow), `queue`, `quarantined`, `applied`; `started`
says which UAVs have an episode, and `tick` holds the locals of `step_uav`.
One action per operation. `step_uav` is split where other calls can come in: taking
and handling events (`TickBegins`, `IgnoreEvent`, `RestoreCoverage`, `ConfirmTrack`,
`ReleaseToHolding`), pinning the lease (`ObserveAndStart`, `TickFails`), and the command
(`ApplyCommand`, `CommandRejected`). Between the last two, any operation may run: a
controller or callback that re-enters the coordinator. Events of one minute carry sequence
numbers from two counters, so they are handled in any order. Whether a remembered
region is still free is decided by the region store, which is not modelled: either
may be the case. Three guards are what the callers do and not what the coordinator checks: work
is started (`Start`) where no controller is installed, events are queued for the kinds of work
the simulation raises them for, and a controller's commands are those its mask leaves it.

### AgentBroker
`jobs` and `plans` are the broker's lists with the fields the control flow reads (`error`
only tells how a run failed); `awaiting` and `received` belong to the scheduler thread in
`_await`, `worker` to the worker process (its active run, the plan its tool call polls,
feedback it delivered and has to acknowledge). Every HTTP handler is one step, because all
handlers run on one event loop; the scheduler thread's steps interleave with them.
`overdue` says that a wall-clock lease or a plan's ten simulated minutes have passed.
Simulation time does not pass while the scheduler waits, because it waits on the
simulation thread. Two details of the code come out as they are: the job list is cut to
its last `MaxJobs` entries, and `defer_routine` filters nothing, since every kind of run
outranks a routine one. Coalescing of queued runs is left out: with one scheduler thread
no selection run can still be queued when the next is posted.

### OperatorCommands
`pending`, `commands`, `results` are the fields of `_CommandQueue`, per queue; `retired` the
tombstones a reset leaves; `intents` the store's dictionary, in the order of its ids, with
the fields the life cycle reads. An intent's area, mode and weight are a payload that is
valid or not and carries a duration or not. `effects` is history: which intent and revision
each command left, as its `CommandResult` shows it. `thread` says where the simulation
thread is (between steps, working off one of the queues, about to tick, inside `reset`,
stopped) and the batch it drained. A request checks the run's state and its episode on the
event loop's thread (`CheckRequest`) and is queued later (`Enqueue`), with the simulation
thread in between; the loop serves one request at a time. `Sent` bounds the
requests the clients make. Emptying a queue, applying each
command, expiring intents and the tick are steps of the simulation thread, so requests
arrive between any two of them. How a pause ends or begins (the decisions of the models) is
nondeterministic. `reset` runs between two steps, the call of a driver of the engine; its
draining and its rebuilding are two steps, because a request may come between.
Left out: vessel commands, whose queue is of another kind, the intents' coverage metrics,
and the `paused_safety` state, which this loop treats as the other pause.

### PiWorker
The process is one JavaScript thread, so a step reaches from one await to the next. `pc` is
where the main loop stands, `job` is `activeJob`; `beats` and `broken` are the promise chain
`heartbeatTask` (one heartbeat is under way, the others wait behind it; a rejected link
rejects all behind it), `fb` is `FeedbackDelivery`, `posts` and `events` the event posts and
their count, `runFailure`, `timers` and `approvals` the locals of the run and of its tools.
The session is reduced to where its run stands (`turn`) and the messages it still holds, the
broker to the feedback it offered and saw acknowledged. Any request may fail, before or after
the broker acted on it. `Main` collects the steps of the main loop, `Chain` those of the
heartbeats; the environment ends episodes, sends feedback, decides approvals and sends SIGTERM.
The verdict (`Judge`) reads `runFailure` and the stop reason of the last answer, nothing else:
a run aborted by SIGTERM after its last whole answer is reported as completed. A message the
session's run has drained counts as read (`Read`), although a run that fails just then loses it.

### AgentLoop
`queue` holds the two `PendingMessageQueue`s, `run` is `activeRun` with its abort signal,
`at` the await at which the loop stands, `inject` is `pendingMessages` (and the prompts of a
run that starts), `more` is `hasMoreToolCalls`, `batch` the tool calls of the last answer,
`transcript` is `state.messages`. `Prompt`, `ContinueQueued`, `ContinueTranscript`, `Queue`,
`Clear`, `Abort` and `Reset` are the methods callers use. `OmitAnswer` is the session
around the agent, which rewrites the conversation between two runs: its auto-retry, and
its recovery of a cut-off or overflowing answer, take the last answer with its results out
and call `continue()`, which then starts at a message nobody answered. The stop reasons that
decide about it are not modelled, so any last answer may go. The other actions are the loop:
messages in (`EmitMessage`, `FirstPoll`), a request and its answer (`RequestModel`, `Answer`),
the calls of a batch (`RefuseCall` to `AnswerCall`, `Launch`, `BatchDone`), the polls at the
end of a turn (`Finish`, `FollowUp`, `Prepare`), the end (`EndRun`) and an exception of a
listener or a hook (`Fail`). That can come at any place, while tools of a
batch run and at `agent_end` too; `handleRunFailure` stores an answer of its own, unless a
listener throws at that as well, and the run stands at "failed" until `finishRun`. Between
any two actions callers act. Left out: streaming events, system messages, changes of the
queue modes, what a message says, and the session's other assignments of `state.messages`
(compaction, navigation between branches, the check for an answer to omit before a prompt,
`agent-session.ts:1697`).

### SessionLog
`disk` maps paths to lines (a line that was cut off may swallow the next one), `memory` is a
`SessionManager` (`fileEntries`, `leafId`, `sessionFile`, `flushed`), `io` the write under
way, line by line. Ids are numbers; the ids below `FirstId` belong to files of earlier
processes (`Earlier`), of which `EarlierAssumption` says what this code leaves in a file
when nothing failed: rows in the order of their ids, behind their parents, none missing.
The filters of the code are put by rank (`Nth`, `Picked`). A process may die (`Crash`) or a write may fail (`WriteFails`) at every
line, with nothing, a part or all but the newline of it written; a later process continues
the most recent session, opens an empty file or forks. `acked` is history: entries whose
append returned. Left out: in-memory sessions, listings, modification times, files of the
first version (entries without ids), the text of an entry (so what a compaction keeps includes
system messages, which `buildContextEntries` drops), and the order in which labels are hung on
again.

## 3. Runs

| run | question | bounds |
|---|---|---|
| `ownership` | can a superseded lease move anything, does a generation identify its lease | 2 UAVs, 2 callers, 3 generations: a lease is superseded twice after it was read |
| `coordinator_deep` | do lease, controller, pending task, mode, remembered coverage and acting decision agree after any history | 1 UAV, 4 leases, 2 events in flight, 2 regions, 2 probe sessions: coverage is interrupted, remembered, restored and ended by an event of an older lease |
| `coordinator_old_events` | "events of an old generation must not release a new task" (violated) | 1 UAV |
| `broker_plans` | approvals, grants, lost leases, cancellations, deaths | 2 runs, 2 plans, 2 inputs, 2 selections in two domains, one of them risky, all modes: a plan can rest on a grant, and a run can start after another was lost with its plan open |
| `broker_input` | is a message always taken up | 3 runs, 1 input, a plan that blocks claiming, list of 2, feedback of 1: the job list overflows while the message waits |
| `broker_unapproved` | is only an approved selection committed (violated) | 1 run, 1 plan |
| `broker_lost_input` | does no run drop input (violated) | 2 runs |
| `commands` | are repeated, competing and late commands carried out at most once, in their episode, and only on open intents of a live run; does one of two edits of the same revision lose; is each accepted one answered | 4 ids: a create, two clients who update or cancel the intent at revision 1, a retry or an abort (`CompetingEdits`); queue of 2, 2 episodes of 2 minutes, windows of 2: both edits are drained together, one after the other or before the create, the queue is full, windows end, runs are aborted or reset with edits queued, and requests of the first episode are queued in the second |
| `commands_late` | does a closed run answer all (violated) | 1 id |
| `agent_loop` | is every request a conversation the providers accept, does a run hand over one message before each answer, does each message arrive once and in order, does every run end | 3 messages, 2 turns of up to 2 calls, steering one at a time, follow-ups all at once, an exception at any place: a message can be queued before, during and after each poll of two turns, a failed run can be retried, and two calls are the fewest that can end in either order |
| `pi_worker` | does anything of a job outlive it, is feedback acknowledged only when held, is every job reported | 2 jobs of 2 episodes, 1 message, 2 prompts, 1 event, 2 heartbeats waiting, exit after 1 failure: a second job follows on everything the first can leave, the event budget overflows |
| `session_log` | is what was acknowledged read again; do file, memory and tree agree | 2 files, up to 2 new entries after the 3 of an earlier file, 1 death or failed write, symmetry of the paths (no liveness): every write is cut at every line, then continued by another process |

Types of the lease store, the coordinator, the commands and the agent loop, visible returns,
bound decisions, lapsed intents and the coordinator's refinement of `LeaseTable` have no run:
they are proved (section 4).

No run has a UAV with a learned policy; the theorems cover every choice of `Learning`.
All UAVs behave alike and do not share controllers, so one UAV with a long history covers
what each can do; what a batch couples is left to the theorems, which hold for every fleet.
The coordinator's bounded history ends at `MaxGen` (`BoundReached`). The agent loop, the
worker and the session log stop at their bounds too, so their runs do not check deadlock.

### Fairness
`OperatorCommands!FairSpec` assumes that the loop of `main.py` goes on until the run is
closed (`Simulation`), and that a reset that began ends; nothing of clients, of the wall
clock, or of who resets the engine. In that module a closed run really stops, so its runs do
not check deadlock.

`AgentBroker!FairSpec`: the worker polls once a second and is restarted by the supervisor
(up to its restart budget, beyond which the promise ends); a turn has a deadline of 180 s, a
cancelled run is dropped at the next heartbeat, and a process may die, so the worker leaves
its run, one way or the other; a run nobody works on loses its lease after 15 s; the
scheduler's wait is bounded by its deadline; simulation time moves whenever the scheduler is
not waiting, and it is strongly fair because waits come back again and again. Nothing is
assumed of operators: they may never decide.

`AgentLoop!FairSpec` assumes that the loop goes on (`Proceed`): the model answers or its
stream ends with an error, a tool returns or throws. It assumes nothing of callers, nor that
anything throws. That runs end also needs the model to stop calling tools and `finishTurn` to
stop asking for turns; `MaxTurns` says so. (It bounds retries as well: a run that fails before
it has an answer counts.)

`PiWorker!FairSpec` assumes that requests are answered or time out, that events are posted,
that an approval is decided or expires, and that the session's run goes on. Settling is
strongly fair: a run may ask for approvals again and again, but after 24 tool calls it gets
only errors.

`SessionLog` states safety only.

### What the violations show
* **Old events release new work.** `target_lost` and `target_departed` carry neither task
  nor generation and `handle` compares nothing for them: queued under one task, consumed
  under the next, they release it.
* **An unapproved selection is assigned.** The submit tool stores the selection as the
  run's result before anyone approves it, and a run that fails (or completes) hands over
  that result.
* **Input is lost with the lease.** `expire_leases` fails a run and leaves its feedback on
  it, where nothing reads it again.
* **A command can outlive its run.** The API compares `finished` on its own thread and
  queues afterwards, so a command can come in after the last pass over its queue; after an
  abort there is no last pass. Its receipt says queued for ever.

Observations without a run. Quarantine is undone by an assignment, and a second
`quarantine_uav` then does nothing (no production code quarantines a UAV). A plan outlives
its run and can be approved after the scheduler gave up, with no effect. A command queued
while `reset` is between draining the old queues and making new ones was answered 202 and
is unknown afterwards.

Of the worker: `FeedbackDelivery` may queue a message after the session settled; it is
acknowledged, the completed run never reads it (`adapter/broker.py:412` takes it as
delivered), and it waits in the session for the next run or goes with the session. A failed
run's queue and the broker's requeue can bring one message to the model twice. An abort
before the prompt reached the agent has no effect. A completed report whose answer is lost is
followed by a report of failure. `FeedbackIsDelivered` states what does hold.

Of the agent loop: a listener that throws at `agent_end` makes the failure's events follow
it. After a failure in the middle of a parallel batch the other tools run on unheeded. A retry
hands over a second message: with the failed answer taken out, `continue()` starts at the
steering message it was an answer to and polls the queue before it asks, so two steering
messages stand in a row without a completed turn between them, where
`harness/packages/coding-agent/docs/rpc-commands.md:341` says one per completed turn.
Within one run the promise holds, and that is what `OneMessagePerTurn` says. A follow-up may
overtake a steering message that comes between the two polls of one turn's end; each queue keeps its own order, which is what `MessageInbox` promises.
Messages that were drained are lost if the run then fails.

Of the session log: an append that fails half way, in a process that lives on, takes the next
entry with it (their lines join) and leaves later entries without a parent; `LossIsBounded`
counts exactly that. A failed first write makes every later one fail, because the file
exists. A migration empties the file before it writes it. A failed branching out goes on as
if written. A fork copies a file of the first version without migrating it. A move of the
leaf is not written, so a restart continues at the last entry. A death within the first write
makes `continueRecent` choose an older session.

## 4. Proofs

All theorems hold for every fleet, every set of regions, contacts, probes and callers, every
number of messages, calls and turns, and every bound; the assumptions are those of the
modules (`MaxGenAssumption`, `ConstantsAssumption`, `BrokerAssumption`, `WorkerAssumption`,
`CommandsAssumption`, `SentAssumption`, `NoneAssumption`, `LoopAssumption`, `BoundsAssumption`,
`KindsAssumption`, `EarlierAssumption`).

* `ControlOwnershipProofs`: types; a generation identifies its lease (inductive with the
  bound `seen[c][u].gen <= leases[u].gen`); work leases are fenced; the store implements
  `LeaseTable` (each method is one `Move`).
* `ControlCoordinatorProofs`: types, and the inductive invariant `CommandPath`. None of the
  checked invariants is inductive alone. That lease and controller agree needs the mode to
  show a return (a batch refuses a UAV by its mode only), the mode needs the
  acting decision to be the installed controller's whenever its lease is current (a command
  rewrites the mode), that needs its generation never to exceed the stored one, and
  remembered coverage needs the controller. `CommandPath` is their conjunction with those
  links; it is preserved by each operation (one step per operation) and each part of the
  tick. The invariants, the action properties `ReturnNotPreempted`, `CommandsAreFenced`,
  `CoverageEndsByItsOwnEvents` and the refinement of `LeaseTable` follow from it.
* `OperatorCommandsProofs`: for every set of ids, payloads, limits and every number of
  episodes and minutes, each safety property of the runs (`CommandsAssumption`,
  `SentAssumption`, `NoneAssumption`). `IInv` says that an id is in at most one place, without repetition,
  and there exactly while its receipt says queued; that only applied commands have had an
  effect, in their episode; and that each queue holds commands of its kind. From it the
  queues implement `CommandReceipts`. That no edit is lost needs one link more
  (`EditsReached`): no edit left a revision its intent has not reached.
* `AgentBrokerProofs`: for every number of runs, plans and inputs, any limit of the job list
  and any set of selections and domains, types and the six safety properties of the broker's
  runs, all from one `IInv`. That at most one run is active needs the lists to be numbered
  densely (an operation finds a run by its number, a list that was cut keeps an end of the
  numbers). That a run that ended leaves nothing open needs pending plans to belong to the
  leased run, and a queued run to have no answer and no plans; that grants are backed needs
  each session's approval to stand behind a plan that was approved; that an input is held
  once needs each to be in one place (a run's list, the inbox, the worker's hands or
  acknowledged). A requeue posts several runs at once: `RequeuePosts` counts them by rank.
* `PiWorkerProofs`: for every number of jobs, episodes, messages, events, prompts and
  heartbeats, types and the five safety properties of the worker. `IInv` says that the
  loop's place fits its job (`JobFits`), the session's run (`TurnFits`), the session's
  episode (`SessionFits`), the chain of heartbeats, of which only the oldest moves
  (`ChainFits`), and that the session holds exactly what counts as delivered
  (`FeedbackFits`). That a completed job had no heartbeat refused needs
  `Refusals`: after a refusal no heartbeat is sent any more, and what joins the chain behind the
  main loop's last heartbeat is the timer's, whose rejection is recorded before the verdict. Strengthening it showed what the code rests on: when
  a session is disposed for another episode and cannot be replaced, it stays with its old
  episode (`worker.ts:159-163`), and a job of that episode would be prompted on it. The
  broker hands out none: its episode is set once, before the broker is made
  (`simulation.py:231`, `main.py:214`), and the episodes of its jobs never go back, which
  `Claim` says.
* `AgentLoopProofs`: types (`Shape` and `Whereabouts`, which says where the loop can be while
  a run or a batch is on record). That a queue in one-at-a-time mode gives one message before
  each answer of a run is not inductive: the messages on their way count as well. `Handover`
  says that drained messages are alone unless their queue's mode is "all", that what the run
  added does not end with a message of the same sender, and that before the first poll it
  added no steering message unless that poll is skipped; `Placed` says where messages can wait
  at all. What stood in the conversation before the run is left out of it, because a retry may
  leave any message there.
  The order of results needs `Batching`: calls are begun in their order, and the conversation
  ends with the batch's answer and the results of its first m calls, those that are answered.
  With `Whole` (every answer of the run but the open one has all its results) it also gives
  that no request is made while a result is missing.
* `AgentInboxProofs`: the loop implements `MessageInbox`. The mapping picks a sender's
  messages out of a sequence by their rank, so that facts about cardinalities replace an
  induction over the sequence: an entry behind the others has the last rank and changes none
  (`RanksGrow`), and every sender's messages have their ranks at all times (`AllRanked`, the
  only invariant needed beyond `Shape` and `Placed`). Then each action is a step of the
  inbox: `Queue` and `Prompt` send, `EmitMessage` delivers the first of what waits, `Clear`
  gives up the back and `Fail` the front of it, `Reset` starts over, and a drain moves
  messages from their queue on their way, which the inbox does not see.

* `SessionLogProofs`: for every set of paths, every number of ids and faults, every choice of
  kinds and all files of earlier processes, types and the four other properties of the run. None
  is inductive: `IInv` says that the rows of every file are in the order of their ids and
  behind their parents, and miss none unless a write failed (`FilesFit`), the same of the
  session in memory (`MemoryFits`), that the rows written and the lines still to be written
  together are that session (`WriteFits`, by kind of write), that file and memory agree
  between writes (`MirrorFits`), and that the acknowledged entries that no file gives back,
  with the one a torn line would take, are no more than the failed writes (`LossFits`). Two things
  stand in for an induction over sequences. What a filter keeps is picked by rank, so that a
  line added behind, a torn line or a repaired one changes no earlier pick. And `BranchTo`,
  a recursive function over the ids, is shown to exist and to give a chain from a root by
  the well-foundedness of the order of ids (`Counting`). For `ForkKeepsContext` two walks
  over two trees are compared: the walk over the new session is the whole session
  (`LinearReads`), what it reads is determined by its ids (`SameIds`), and the kept range of
  the last compaction has the same entries though it may begin elsewhere (`KeptSame`).

Only model-checked: all liveness, which the prover does not reach under fairness.

## 5. Plan

1. Every safety property of the passing runs is proved; proofs go on with the modules below.
2. Recovery life cycle (`RecoveryLifecycle`): recall, landing queue, refuelling, and its
   composition with the coordinator's calls.
3. `PlanCommit`: snapshot, decision and batch commit with expected generations, on top of
   the coordinator.
4. The queue of vessel commands beside `OperatorCommands`; contacts, hand-off, triggers,
   publisher and gateway, each a module of its own.
5. Matching as a pure function against a reference definition.

Hazards those modules are for, which no property watches yet: a quarantined UAV that is
assigned work (`src/control/common/coordinator.py:345`); a group release without a probe id
(`src/control/heuristic/task_flow.py:138`); a refuelling UAV that is tasked again
(`src/env/simulation.py:6552`) and more UAVs than a base can service (`:6399`); a snapshot
attached after its run was queued (`adapter/schedule_adapter.py:223`); a merge that keeps the
older assignment (`src/mission/contact_store.py:557`); a queue emptied before its commands
are completed (`src/mission/intent_commands.py:57`); a hand-off whose deadline passes on the
way (`src/mission/handoff.py:162`); de-duplication over contacts
(`src/schedule/trigger_manager.py:117`); a slow view (`src/vis/backend/frame_publisher.py:128`);
a late answer of a model (`src/mission/llm_gateway.py:143`).

Not planned: geometry and flight control, sensors, ship behaviour, coverage policies,
learning from outcomes (floating point or statistics), configuration parsing, views, and
the rest of `harness/packages`. That rest is most of the repository's TypeScript: terminal
interface, extensions, package manager, model providers, generated model lists and a
collaborative editor. The worker uses none of it but the providers, and the loop leaves a
provider's answer open.
