---------------------------- MODULE OperatorCommands ----------------------------
(*****************************************************************************)
(* Operator commands between the HTTP server and the simulation thread:      *)
(* the two bounded, idempotent queues (src/mission/intent_commands.py), the  *)
(* intents they edit under optimistic revisions (src/mission/intent_store.py) *)
(* and the boundaries at which the simulation thread empties the queues      *)
(* (src/env/simulation.py, main.py).                                         *)
(*                                                                           *)
(* A request handler checks the run's state and then enqueues; the two are   *)
(* separate steps because the simulation thread runs between them.  The      *)
(* handlers share one event loop and do not await in between, so at most one *)
(* request is between its two steps.  An intent's area, mode and weight are  *)
(* abstracted to a payload that is valid or not and that may carry a         *)
(* duration.                                                                 *)
(*****************************************************************************)
EXTENDS Integers, Sequences, FiniteSets

CONSTANTS
    Ids,            \* command ids
    Sent,           \* bound: the requests the clients make
    Payloads,       \* payloads of create and update
    ValidPayloads,  \* those IntentStore accepts
    DurationOf,     \* the duration a payload carries, 0 for none
    MaxActive,      \* max_active_intents
    QueueLimit,     \* mutation_queue_limit
    Steps,          \* the run's step budget
    MaxEpisodes,    \* bound: episodes
    NamedIntents,   \* bound: intents the commands name
    NamedRevisions, \* bound: revisions the commands expect
    NoCommand, NoRequest, NoPayload

ASSUME CommandsAssumption ==
    /\ ValidPayloads \subseteq Payloads
    /\ DurationOf \in [Payloads \cup {NoPayload} -> Nat]
    /\ {MaxActive, QueueLimit, MaxEpisodes} \subseteq Nat \ {0}
    /\ Steps \in Nat
    /\ NamedIntents \subseteq Nat \ {0} /\ NamedRevisions \subseteq Nat \ {0}

Queues == {"intent", "runtime"}

\* A create always carries a duration.
IntentCommand ==
    [op : {"create"}, intent : {0}, expected : {0},
     payload : {p \in Payloads : DurationOf[p] > 0}]
      \cup [op : {"update"}, intent : NamedIntents, expected : NamedRevisions, payload : Payloads]
      \cup [op : {"cancel"}, intent : NamedIntents, expected : NamedRevisions, payload : {NoPayload}]

RuntimeCommand ==
    [op : {"retry", "abort"}, intent : {0}, expected : {0}, payload : {NoPayload}]

Command == IntentCommand \cup RuntimeCommand
Stored == [command : Command, episode : Nat]
Request == [queue : Queues, id : Ids, command : Command, episode : Nat]

ASSUME NoneAssumption == NoCommand \notin Stored /\ NoRequest \notin Request

CommandsOf(q) == IF q = "intent" THEN IntentCommand ELSE RuntimeCommand

ASSUME SentAssumption ==
    \A s \in Sent : s \in Request /\ s.command \in CommandsOf(s.queue)

VARIABLES
    episode,        \* the current episode
    status,         \* runtime_status
    clock,          \* simulation time
    intents,        \* intents in the order of their ids
    pending,        \* per queue: the ids waiting to be drained
    commands,       \* per queue: the command of each id, with its episode
    results,        \* per queue: the status of each id's CommandResult
    retired,        \* ids rejected by a reset
    thread,         \* where the simulation thread is, and the batch it drained
    request,        \* the request that passed its checks and is not enqueued yet
    effects         \* per queue and id: the edits carried out for it

vars == <<episode, status, clock, intents, pending, commands, results,
          retired, thread, request, effects>>

NoneOf(v) == [q \in Queues |-> [id \in Ids |-> v]]

Members(s) == {s[i] : i \in DOMAIN s}

\* A fresh engine; the rest of the run's state is set by Init and ResetRebuild.
FreshQueues ==
    [pending |-> [q \in Queues |-> <<>>], commands |-> NoneOf(NoCommand),
     results |-> NoneOf("none"), effects |-> NoneOf(<<>>)]

AtBoundary == [at |-> "boundary", batch |-> <<>>, stepping |-> FALSE, closing |-> FALSE]

Init ==
    /\ episode = 1 /\ status = "running" /\ clock = 0 /\ intents = <<>>
    /\ pending = FreshQueues.pending
    /\ commands = FreshQueues.commands
    /\ results = FreshQueues.results
    /\ effects = FreshQueues.effects
    /\ retired = {}
    /\ thread = AtBoundary
    /\ request = NoRequest

-------------------------------------------------------------------------------
(* The HTTP handlers. *)

\* POST, PATCH, DELETE: the checks made on the request's thread.
CheckRequest(sent) ==
    /\ request = NoRequest
    /\ sent.episode = episode
    /\ status # "finished"
    /\ sent.command.op = "retry" => status = "paused_model"
    /\ request' = sent
    /\ UNCHANGED <<episode, status, clock, intents, pending, commands, results,
                   retired, thread, effects>>

\* (mutant) a repeated id is accepted as a new command
AcceptsAgain(q, id) ==
    Len(pending[q]) < QueueLimit /\ id \notin Members(pending[q])

\* An id is taken once; a repetition is answered with its receipt or a conflict.
Accepts(q, id) ==
    commands[q][id] = NoCommand /\ Len(pending[q]) < QueueLimit

Enqueue ==
    /\ request # NoRequest
    /\ request' = NoRequest
    /\ LET q == request.queue
           id == request.id
       IN  IF Accepts(q, id)
             THEN /\ commands' = [commands EXCEPT ![q][id] =
                        [command |-> request.command, episode |-> request.episode]]
                  /\ results' = [results EXCEPT ![q][id] = "queued"]
                  /\ pending' = [pending EXCEPT ![q] = Append(@, id)]
             ELSE UNCHANGED <<commands, results, pending>>
    /\ UNCHANGED <<episode, status, clock, intents, retired, thread, effects>>

-------------------------------------------------------------------------------
(* The intent store. *)

Active == {i \in DOMAIN intents : intents[i].lifecycle = "active"}

\* Expiry leaves the revision alone.
Expired(now) ==
    [i \in DOMAIN intents |->
        IF intents[i].lifecycle = "active" /\ now >= intents[i].expires
          THEN [intents[i] EXCEPT !.lifecycle = "expired"] ELSE intents[i]]

\* (mutant) only the revision is compared
CurrentRevision(c) ==
    /\ c.intent \in DOMAIN intents
    /\ intents[c.intent].revision = c.expected

\* (mutant) no revision is compared
AnyRevision(c) == c.intent \in Active

CurrentActive(c) ==
    /\ c.intent \in Active
    /\ intents[c.intent].revision = c.expected

Applicable(c) ==
    CASE c.op = "create" -> /\ Cardinality(Active) < MaxActive
                            /\ c.payload \in ValidPayloads
      [] c.op = "update" -> CurrentActive(c) /\ c.payload \in ValidPayloads
      [] c.op = "cancel" -> CurrentActive(c)

Created(c) ==
    Append(intents, [revision |-> 1, lifecycle |-> "active",
                     expires |-> clock + DurationOf[c.payload]])

\* A payload without a duration leaves the end of the window.
UpdatedIntent(i, p) ==
    [revision |-> i.revision + 1, lifecycle |-> i.lifecycle,
     expires |-> IF DurationOf[p] > 0 THEN clock + DurationOf[p] ELSE i.expires]

CancelledIntent(i) ==
    [revision |-> i.revision + 1, lifecycle |-> "cancelled", expires |-> i.expires]

Updated(c) == [intents EXCEPT ![c.intent] = UpdatedIntent(intents[c.intent], c.payload)]

Cancelled(c) == [intents EXCEPT ![c.intent] = CancelledIntent(intents[c.intent])]

Edited(c) ==
    CASE c.op = "create" -> Created(c)
      [] c.op = "update" -> Updated(c)
      [] c.op = "cancel" -> Cancelled(c)

\* What the command's receipt shows of the intent it left behind.
EffectOf(c) ==
    IF c.op = "create" THEN [intent |-> Len(intents) + 1, revision |-> 1]
                       ELSE [intent |-> c.intent, revision |-> intents[c.intent].revision + 1]

-------------------------------------------------------------------------------
(* The boundaries of the simulation thread. *)

\* The simulation thread takes everything that waits in q.
Drain(q, stepping) ==
    /\ pending' = [pending EXCEPT ![q] = <<>>]
    /\ thread' = [thread EXCEPT !.at = q, !.batch = pending[q], !.stepping = stepping]

\* The head of the batch gets its result, and the edit it made if there is one.
Complete(q, result) ==
    /\ results' = [results EXCEPT ![q][Head(thread.batch)] = result]
    /\ thread' = [thread EXCEPT !.batch = Tail(@)]

Reject(q) ==
    /\ Complete(q, "rejected")
    /\ UNCHANGED effects

Apply(q, effect) ==
    /\ Complete(q, "applied")
    /\ effects' = [effects EXCEPT ![q][Head(thread.batch)] = Append(@, effect)]

\* (mutant) a paused run does not look at its queues
MayDrainUnpaused == thread.closing \/ (status = "running" /\ clock < Steps)

\* step() while the run runs, the idle loop while the model is paused, and the
\* last boundary after the run was closed.
MayDrain ==
    thread.closing \/ status = "paused_model" \/ (status = "running" /\ clock < Steps)

DrainRuntime ==
    /\ thread.at = "boundary"
    /\ MayDrain
    /\ Drain("runtime", status = "running")
    /\ UNCHANGED <<episode, status, clock, intents, commands, results, retired,
                   request, effects>>

Given(q) == commands[q][Head(thread.batch)]

NoEffect == [intent |-> 0, revision |-> 0]

\* retry_blocked_decision runs the decision again: the run resumes or stays paused.
Retry ==
    \/ status # "paused_model" /\ Reject("runtime") /\ UNCHANGED status
    \/ status = "paused_model" /\ Apply("runtime", NoEffect) /\ status' = "running"
    \/ status = "paused_model" /\ Reject("runtime") /\ UNCHANGED status

Abort ==
    IF status = "finished"
      THEN Reject("runtime") /\ UNCHANGED status
      ELSE Apply("runtime", NoEffect) /\ status' = "finished"

ApplyRuntime ==
    /\ thread.at = "runtime" /\ thread.batch # <<>>
    /\ IF Given("runtime").episode # episode
         THEN Reject("runtime") /\ UNCHANGED status
         ELSE IF Given("runtime").command.op = "retry" THEN Retry ELSE Abort
    /\ UNCHANGED <<episode, clock, intents, pending, commands, retired, request>>

\* Expiry comes before the queue is emptied.
DrainIntents ==
    /\ thread.at = "runtime" /\ thread.batch = <<>>
    /\ intents' = Expired(clock)
    /\ Drain("intent", thread.stepping)
    /\ UNCHANGED <<episode, status, clock, commands, results, retired, request, effects>>

\* (mutant) a finished run still edits
MayEditAlways(c) == c.episode = episode /\ Applicable(c.command)

\* (mutant) the episode of the command is not compared
MayEditLater(c) == status # "finished" /\ Applicable(c.command)

MayEdit(c) ==
    c.episode = episode /\ status # "finished" /\ Applicable(c.command)

ApplyIntent ==
    /\ thread.at = "intent" /\ thread.batch # <<>>
    /\ LET c == Given("intent")
       IN  IF MayEdit(c)
             THEN /\ Apply("intent", EffectOf(c.command))
                  /\ intents' = Edited(c.command)
             ELSE Reject("intent") /\ UNCHANGED intents
    /\ UNCHANGED <<episode, status, clock, pending, commands, retired, request>>

Continuation ==
    CASE thread.closing \/ status = "finished" -> "closed"
      [] ~thread.closing /\ status # "finished" /\ thread.stepping -> "tick"
      [] OTHER -> "boundary"

EndBoundary ==
    /\ thread.at = "intent" /\ thread.batch = <<>>
    /\ thread' = [thread EXCEPT !.at = Continuation]
    /\ UNCHANGED <<episode, status, clock, intents, pending, commands, results,
                   retired, request, effects>>

\* The red decision blocks before the clock moves.
RedBlocks ==
    /\ thread.at = "tick"
    /\ status' = "paused_model"
    /\ thread' = AtBoundary
    /\ UNCHANGED <<episode, clock, intents, pending, commands, results, retired,
                   request, effects>>

\* A minute of simulation; the heavy decision it triggers may pause the run.
Tick ==
    /\ thread.at = "tick"
    /\ clock' = clock + 1
    /\ intents' = Expired(clock + 1)
    /\ status' \in {"running", "paused_model"}
    /\ thread' = AtBoundary
    /\ UNCHANGED <<episode, pending, commands, results, retired, request, effects>>

\* main closes the run and goes through one more boundary.
Finish ==
    /\ thread.at = "boundary" /\ ~thread.closing
    /\ status' = "finished"
    /\ thread' = [thread EXCEPT !.closing = TRUE]
    /\ UNCHANGED <<episode, clock, intents, pending, commands, results, retired,
                   request, effects>>

StepsRunOut == status = "running" /\ clock = Steps /\ Finish

WallClockRunsOut == status # "finished" /\ Finish

\* What reset leaves of the receipts: whatever was queued is rejected.
ResultsOfReset ==
    [q \in Queues |-> [id \in Ids |->
        IF id \in Members(pending[q]) THEN "rejected" ELSE results[q][id]]]

\* SimulationEngine.reset between two steps: both queues are emptied into
\* tombstones, and a little later the engine is built anew.
ResetDrain ==
    /\ thread.at = "boundary" /\ ~thread.closing
    /\ episode < MaxEpisodes
    /\ results' = ResultsOfReset
    /\ retired' = retired \cup UNION {Members(pending[q]) : q \in Queues}
    /\ pending' = [q \in Queues |-> <<>>]
    /\ thread' = [thread EXCEPT !.at = "resetting"]
    /\ UNCHANGED <<episode, status, clock, intents, commands, request, effects>>

ResetRebuild ==
    /\ thread.at = "resetting"
    /\ episode' = episode + 1
    /\ status' = "running" /\ clock' = 0 /\ intents' = <<>>
    /\ pending' = FreshQueues.pending
    /\ commands' = FreshQueues.commands
    /\ results' = FreshQueues.results
    /\ effects' = FreshQueues.effects
    /\ thread' = AtBoundary
    /\ UNCHANGED <<retired, request>>

-------------------------------------------------------------------------------
Server ==
    \/ \E sent \in Sent : CheckRequest(sent)
    \/ Enqueue

Simulation ==
    \/ DrainRuntime \/ ApplyRuntime \/ DrainIntents \/ ApplyIntent \/ EndBoundary
    \/ RedBlocks \/ Tick \/ StepsRunOut

Next == Server \/ Simulation \/ WallClockRunsOut \/ ResetDrain \/ ResetRebuild

Spec == Init /\ [][Next]_vars

\* The loop of main does not stop before the run is closed.  Nothing is assumed
\* of the clients, the wall clock, or of who resets the engine.
FairSpec == Spec /\ WF_vars(Simulation) /\ WF_vars(ResetRebuild)

-------------------------------------------------------------------------------
(* Properties. *)

Waiting(q) ==
    Members(pending[q]) \cup (IF thread.at = q THEN Members(thread.batch) ELSE {})

\* Every variable keeps its type, the queues stay within their limit, and what a
\* client is told to be queued is exactly what waits in the queue or in the
\* batch the simulation thread is working through (intent_commands.py:39-74).
TypeOK ==
    /\ episode \in 1..MaxEpisodes /\ clock \in 0..Steps
    /\ status \in {"running", "paused_model", "finished"}
    /\ intents \in Seq([revision : Nat \ {0}, expires : Nat,
                        lifecycle : {"active", "cancelled", "expired"}])
    /\ retired \subseteq Ids
    /\ thread.at \in Queues \cup {"boundary", "tick", "resetting", "closed"}
    /\ \A q \in Queues :
         /\ pending[q] \in Seq(Ids) /\ Len(pending[q]) <= QueueLimit
         /\ \A id \in Ids :
              /\ results[q][id] \in {"none", "queued", "applied", "rejected"}
              /\ results[q][id] = "none" <=> commands[q][id] = NoCommand
              /\ results[q][id] = "queued" <=> id \in Waiting(q)

Receipts == INSTANCE CommandReceipts WITH
    Namespaces <- Queues,
    receipt <- results,
    done <- [q \in Queues |-> [id \in Ids |-> Len(effects[q][id])]]

\* However requests are repeated and wherever the simulation thread is when they
\* arrive, an accepted command is carried out at most once and its receipt is
\* final: the queues implement CommandReceipts (intent_commands.py:39-74).
EachCommandOnce == Receipts!Spec

\* No edit is lost under another: two edits never leave the same intent at the
\* same revision, and each update or cancellation was made against the revision
\* its client named (intent_store.py:216-227).
RevisionsHaveOneAuthor ==
    \A a, b \in Ids :
      \A k \in DOMAIN effects["intent"][a], l \in DOMAIN effects["intent"][b] :
        LET edit == effects["intent"][a][k]
            c == commands["intent"][a].command
        IN  /\ edit = effects["intent"][b][l] => a = b /\ k = l
            /\ edit.revision = c.expected + 1

\* A command edits only the episode it was sent to, although a reset may come
\* between the check of its request and its being queued (simulation.py:1601).
EditsAreOfTheirEpisode ==
    \A q \in Queues, id \in Ids :
      effects[q][id] # <<>> => commands[q][id].episode = episode

\* Once a run is finished no command changes anything in that episode, not even
\* one that was accepted, or drained, before it was aborted
\* (simulation.py:1605, 1669).
FinishedRunsTakeNoEdits ==
    [][status = "finished" /\ episode' = episode => effects' = effects]_vars

\* A cancelled or expired intent never changes again, although expiry leaves
\* the revision a client may still hold valid (intent_store.py:126-135).
ClosedIntentsStayClosed ==
    [][episode' = episode =>
         \A i \in DOMAIN intents :
           intents[i].lifecycle # "active" => intents'[i] = intents[i]]_vars

\* While commands are applied, and while the world is stepped, no intent is
\* active whose window has closed: commands and planning never see one
\* (simulation.py:1598, 1724).
LapsedIntentsAreExpired ==
    thread.at \in {"intent", "tick"} =>
      \A i \in Active : clock < intents[i].expires

\* An accepted command does not wait for ever, while the model is paused too,
\* unless the run is closed: it is answered, or a reset that began before it was
\* queued forgets it (simulation.py:1473-1505, 1594-1684, main.py:56-70).
CommandsAreAnswered ==
    \A q \in Queues : \A id \in {sent.id : sent \in {s \in Sent : s.queue = q}} :
      results[q][id] = "queued"
        ~> results[q][id] # "queued" \/ thread.at = "closed"

\* What main.py:361 says of a run that is closed: "Reject commands queued during
\* the last step/publication instead of leaving their receipts pending forever.
\* New writes are gated by the API's finished check."
ClosedRunsAnswerAll ==
    thread.at = "closed" => \A q \in Queues, id \in Ids : results[q][id] # "queued"
=================================================================================
