-------------------------- MODULE ControlCoordinator --------------------------
(*****************************************************************************)
(* src/src/control/common/coordinator.py with the task flow it drives        *)
(* (src/src/control/heuristic/task_flow.py): who commands each UAV, through  *)
(* which controller, and which queued events may take that controller away.  *)
(*                                                                           *)
(* Each operation of the coordinator is one action, because the simulation   *)
(* thread is the only one that calls it.  A control tick (step_uav) is split *)
(* where the code gives control away: TickBegins and the events' actions are *)
(* its first half, ObserveAndStart pins the lease, the controller then acts  *)
(* outside the lock, and ApplyCommand comes back with its decision.  Other   *)
(* operations may run between ObserveAndStart and ApplyCommand (a controller *)
(* or a callback that re-enters the coordinator), none between TickBegins    *)
(* and ObserveAndStart.                                                      *)
(*                                                                           *)
(* Left out, as no property tells them apart: clocks, controller ids (the    *)
(* generation identifies a lease, see ControlOwnership), sortie numbers      *)
(* (callers always pass a larger one), the invalid-command streak, routes.   *)
(* A call that raises before it changes anything is a step that is not taken.*)
(*                                                                           *)
(* Bounds: MaxGen leases per UAV, MaxQueue events waiting for a UAV.         *)
(*****************************************************************************)
EXTENDS Integers, Sequences

CONSTANTS UAVs,          \* the configured UAVs
          Learning,      \* those configured for a learned policy (rl, bc)
          Regions,       \* search regions; a coverage task has its region's id
          Contacts,      \* canonical contact ids
          Probes,        \* probe session ids
          Nothing,       \* an absent reference
          MaxGen,        \* bound on the generations
          MaxQueue       \* bound on the events waiting for a UAV

ASSUME ConstantsAssumption ==
  /\ Learning \subseteq UAVs
  /\ MaxGen \in Nat
  /\ MaxQueue \in Nat

VARIABLES lease,         \* ownership.current(u): owner and generation
          controller,    \* _controllers[u], named by the task it was built for
          pending,       \* _pending_tasks[u]: the task start_task has not seen yet
          mode,          \* _operation_modes[u]
          saved,         \* _saved_coverage_tasks[u]
          queue,         \* _queued_events[u]
          started,       \* UAVs with an episode id
          quarantined,   \* _quarantined_uavs
          applied,       \* _last_applied_commands[u]: its job and its lease
          tick           \* the control tick of u: what step_uav holds in locals

vars == <<lease, controller, pending, mode, saved, queue, started, quarantined,
          applied, tick>>

Job(type, of, probe) == [type |-> type, of |-> of, probe |-> probe]

Coverage(r) == Job("COVERAGE", r, Nothing)
Probe(c, p) == Job("PROBE", c, p)
Track(c)    == Job("TRACK", c, Nothing)
Return      == Job("RETURN", Nothing, Nothing)
Holding     == Job("HOLDING", Nothing, Nothing)
Policy      == Job("POLICY", Nothing, Nothing)     \* a learned controller
NoJob       == Job("NONE", Nothing, Nothing)

CoverageJobs == {Coverage(r) : r \in Regions}
ContactJobs  == {Probe(c, p) : c \in Contacts, p \in Probes} \cup {Track(c) : c \in Contacts}
WorkJobs     == CoverageJobs \cup ContactJobs
SystemJobs   == {Return, Holding}
Jobs         == WorkJobs \cup SystemJobs
ControllerJobs == Jobs \cup {Policy, NoJob}

Modes == {"IDLE", "TRANSIT", "COVERAGE", "PROBE", "TRACK", "RETURN", "HOLDING"}
Owners == {"SYSTEM", "HEURISTIC", "LEARNING"}
Lease == [owner : Owners, gen : Nat]
WorkOwners == {"HEURISTIC", "LEARNING"}

\* Each event remembers the job and the generation it was raised under; Matches
\* says which of the two the handler looks at.
EventKinds == {"search_complete", "duplicate_task_cancelled", "task_failed",
               "target_lost", "type_ii_confirmed", "type_i_released",
               "group_released"}
Event == [kind : EventKinds, job : WorkJobs, gen : Nat]

NoCommand == [job |-> NoJob, gen |-> 0]
Command   == [job : ControllerJobs, gen : Nat]

NoTick == [phase |-> "none", due |-> <<>>, job |-> NoJob,
           lease |-> [owner |-> "SYSTEM", gen |-> 0]]
Tick == [phase : {"none", "events", "acting"}, due : Seq(Event),
         job : ControllerJobs, lease : Lease]

Init ==
  /\ lease = [u \in UAVs |-> [owner |-> "SYSTEM", gen |-> 0]]
  /\ controller = [u \in UAVs |-> NoJob]
  /\ pending = [u \in UAVs |-> NoJob]
  /\ mode = [u \in UAVs |-> "IDLE"]
  /\ saved = [u \in UAVs |-> NoJob]
  /\ queue = [u \in UAVs |-> <<>>]
  /\ started = {}
  /\ quarantined = {}
  /\ applied = [u \in UAVs |-> NoCommand]
  /\ tick = [u \in UAVs |-> NoTick]

-------------------------------------------------------------------------------
\* No tick is in its event half: the simulation thread is free for a call.
Free == \A u \in UAVs : tick[u].phase # "events"

Idle == \A u \in UAVs : tick[u].phase = "none"

\* ControlOwnership.acquire, replace and release_to_system, whose lease checks
\* cannot fail here: the current lease is read in the same call.
HandOver(u, owner) ==
  /\ lease[u].gen < MaxGen
  /\ lease' = [lease EXCEPT ![u] = [owner |-> owner, gen |-> lease[u].gen + 1]]

\* (mutant) an uninstalled controller's task stays pending.
InstallKeepsPending(u, job) ==
  /\ controller' = [controller EXCEPT ![u] = job]
  /\ pending' = [pending EXCEPT ![u] = IF job \in {Policy, NoJob} THEN @ ELSE job]

\* A controller is installed together with the task it has yet to start.
Install(u, job) ==
  /\ controller' = [controller EXCEPT ![u] = job]
  /\ pending' = [pending EXCEPT ![u] = IF job = Policy THEN NoJob ELSE job]

\* _save_active_coverage: only an installed coverage task is remembered, and it
\* replaces what was remembered before.
SaveActiveCoverage(u) ==
  saved' = [saved EXCEPT ![u] = IF controller[u] \in CoverageJobs THEN controller[u] ELSE @]

\* New work: new coverage drops the coverage remembered for later, other work
\* remembers the coverage it interrupts.
SaveOrClear(u, job) ==
  IF job \in CoverageJobs THEN saved' = [saved EXCEPT ![u] = NoJob]
                          ELSE SaveActiveCoverage(u)

\* (mutant) a returning UAV is not refused.
MayBeTaskedWhileReturning(u) == u \notin Learning

\* The refusals of assign_task and assign_tasks_atomically.
MayBeTasked(u) ==
  /\ u \notin Learning
  /\ lease[u].owner # "LEARNING"
  /\ ~(lease[u].owner = "SYSTEM" /\ mode[u] = "RETURN")

-------------------------------------------------------------------------------
\* queue_event: the simulation reports what happened to the work of u.
Raisable(kind, job) ==
  \/ kind \in {"search_complete", "task_failed"} /\ job.type = "COVERAGE"
  \/ kind \in {"target_lost", "duplicate_task_cancelled", "group_released"}
       /\ job.type \in {"PROBE", "TRACK"}
  \/ kind \in {"type_ii_confirmed", "type_i_released"} /\ job.type = "PROBE"

QueueEvent(u, kind) ==
  /\ Free
  /\ lease[u].owner = "HEURISTIC"
  /\ Raisable(kind, controller[u])
  /\ Len(queue[u]) < MaxQueue
  /\ queue' = [queue EXCEPT ![u] = Append(@,
                 [kind |-> kind, job |-> controller[u], gen |-> lease[u].gen])]
  /\ UNCHANGED <<lease, controller, pending, mode, saved, started, quarantined,
                 applied, tick>>

\* start_work.  Its callers only start a UAV that has no controller (a first
\* coverage task, or a learned policy at the start and after refuelling).
StartWork(u, job) ==
  /\ Free
  /\ controller[u] = NoJob
  /\ lease[u].owner = "SYSTEM"
  /\ IF u \in Learning THEN job = Policy ELSE job \in CoverageJobs
  /\ HandOver(u, IF u \in Learning THEN "LEARNING" ELSE "HEURISTIC")
  /\ Install(u, job)
  /\ saved' = [saved EXCEPT ![u] = NoJob]
  /\ mode' = [mode EXCEPT ![u] = "IDLE"]
  /\ started' = started \cup {u}
  /\ quarantined' = quarantined \ {u}
  /\ applied' = [applied EXCEPT ![u] = NoCommand]
  /\ UNCHANGED <<queue, tick>>

AssignTask(u, job) ==
  /\ Free
  /\ MayBeTasked(u)
  /\ u \in started
  /\ HandOver(u, "HEURISTIC")
  /\ Install(u, job)
  /\ SaveOrClear(u, job)
  /\ UNCHANGED <<mode, queue, started, quarantined, applied, tick>>

\* ControlOwnership.transition_batch, under leases read in the same call.
TransitionBatch(batch) ==
  lease' = [u \in UAVs |->
              IF u \in batch THEN [owner |-> "HEURISTIC", gen |-> lease[u].gen + 1]
                             ELSE lease[u]]

InstallBatch(batch, jobs) ==
  /\ controller' = [u \in UAVs |-> IF u \in batch THEN jobs[u] ELSE controller[u]]
  /\ pending' = [u \in UAVs |-> IF u \in batch THEN jobs[u] ELSE pending[u]]

AllMayBeTasked(batch) == \A u \in batch : MayBeTasked(u)

\* assign_tasks_atomically: every UAV of the batch is checked before the first
\* lease is written, and a UAV without an episode starts its first one.
AssignBatch(batch, jobs) ==
  LET fresh == batch \ started
      Remembered(u) ==
        IF jobs[u] \in CoverageJobs THEN NoJob
        ELSE IF controller[u] \in CoverageJobs THEN controller[u]
        ELSE saved[u]
  IN
  /\ Free
  /\ AllMayBeTasked(batch)
  /\ \A u \in batch : lease[u].gen < MaxGen
  /\ \A u \in fresh : lease[u].owner = "SYSTEM"
  /\ TransitionBatch(batch)
  /\ InstallBatch(batch, jobs)
  /\ saved' = [u \in UAVs |-> IF u \in batch THEN Remembered(u) ELSE saved[u]]
  /\ mode' = [u \in UAVs |-> IF u \in fresh THEN "IDLE" ELSE mode[u]]
  /\ applied' = [u \in UAVs |-> IF u \in fresh THEN NoCommand ELSE applied[u]]
  /\ started' = started \cup batch
  /\ UNCHANGED <<queue, quarantined, tick>>

\* (mutant) the lease is moved on but the work controller stays installed.
RevokeKeepsController(u) ==
  /\ Free
  /\ lease[u].owner \in WorkOwners
  /\ SaveActiveCoverage(u)
  /\ HandOver(u, "SYSTEM")
  /\ mode' = [mode EXCEPT ![u] = "RETURN"]
  /\ UNCHANGED <<controller, pending, queue, started, quarantined, applied, tick>>

RevokeForReturn(u) ==
  /\ Free
  /\ lease[u].owner \in WorkOwners
  /\ SaveActiveCoverage(u)
  /\ HandOver(u, "SYSTEM")
  /\ Install(u, Return)
  /\ mode' = [mode EXCEPT ![u] = "RETURN"]
  /\ UNCHANGED <<queue, started, quarantined, applied, tick>>

AssignSystemTask(u, job) ==
  /\ Free
  /\ job \in SystemJobs
  /\ lease[u].owner = "SYSTEM"
  /\ HandOver(u, "SYSTEM")
  /\ Install(u, job)
  /\ mode' = [mode EXCEPT ![u] = job.type]
  /\ UNCHANGED <<saved, queue, started, quarantined, applied, tick>>

\* A UAV the SYSTEM already holds keeps its lease; one it flies elsewhere raises.
PromoteToSystemHolding(u) ==
  /\ Free
  /\ lease[u].owner \in WorkOwners
  /\ SaveActiveCoverage(u)
  /\ HandOver(u, "SYSTEM")
  /\ Install(u, Holding)
  /\ mode' = [mode EXCEPT ![u] = "HOLDING"]
  /\ UNCHANGED <<queue, started, quarantined, applied, tick>>

\* The remembered coverage and the queued events survive the refuelling.
ResetAfterRefuel(u) ==
  /\ Free
  /\ lease[u].owner = "SYSTEM"
  /\ HandOver(u, "SYSTEM")
  /\ Install(u, NoJob)
  /\ mode' = [mode EXCEPT ![u] = "IDLE"]
  /\ applied' = [applied EXCEPT ![u] = NoCommand]
  /\ UNCHANGED <<saved, queue, started, quarantined, tick>>

\* quarantine_uav; a UAV already in the set is left as it is.
Quarantine(u) ==
  /\ Free
  /\ u \notin quarantined
  /\ HandOver(u, "SYSTEM")
  /\ Install(u, NoJob)
  /\ queue' = [queue EXCEPT ![u] = <<>>]
  /\ saved' = [saved EXCEPT ![u] = NoJob]
  /\ mode' = [mode EXCEPT ![u] = "IDLE"]
  /\ applied' = [applied EXCEPT ![u] = NoCommand]
  /\ quarantined' = quarantined \cup {u}
  /\ UNCHANGED <<started, tick>>

-------------------------------------------------------------------------------
\* step_uav, first half: every queued event is taken.
TickBegins(u) ==
  /\ Idle
  /\ tick' = [tick EXCEPT ![u] = [NoTick EXCEPT !.phase = "events", !.due = queue[u]]]
  /\ queue' = [queue EXCEPT ![u] = <<>>]
  /\ UNCHANGED <<lease, controller, pending, mode, saved, started, quarantined, applied>>

\* (mutant) the completion and failure of coverage are matched by task id only.
MatchesTaskOnly(e, u) ==
  CASE e.kind = "target_lost" -> TRUE
    [] e.kind = "group_released" -> controller[u] = Track(e.job.of)
    [] e.kind \notin {"target_lost", "group_released"} -> e.job = controller[u]

\* What _apply_heuristic_transitions and HeuristicTaskFlow.handle compare before
\* an event takes the controller away.  A target_lost or target_departed event
\* carries neither a task nor a generation; a failed probe or track carries its
\* task only; the release of a whole contact group names no probe session.
Matches(e, u) ==
  CASE e.kind = "target_lost" -> TRUE
    [] e.kind \in {"search_complete", "duplicate_task_cancelled"} ->
         e.job = controller[u] /\ e.gen = lease[u].gen
    [] e.kind = "task_failed" ->
         e.job = controller[u] /\ (e.job.type = "COVERAGE" => e.gen = lease[u].gen)
    [] e.kind \in {"type_ii_confirmed", "type_i_released"} ->
         e.job = controller[u] /\ controller[u].type = "PROBE"
    [] e.kind = "group_released" -> controller[u] = Track(e.job.of)

Consumes(u, e) == lease[u].owner = "HEURISTIC" /\ Matches(e, u)

Rest(s, i) == SubSeq(s, 1, i - 1) \o SubSeq(s, i + 1, Len(s))

TakeEvent(u, i) ==
  /\ tick[u].phase = "events"
  /\ i \in 1 .. Len(tick[u].due)
  /\ tick' = [tick EXCEPT ![u].due = Rest(@, i)]

\* The events of one minute come from two sequence counters, the simulation's
\* and the coordinator's, so they are handled in any order.
IgnoreEvent(u, i) ==
  /\ TakeEvent(u, i)
  /\ ~Consumes(u, tick[u].due[i])
  /\ UNCHANGED <<lease, controller, pending, mode, saved, queue, started, quarantined,
                 applied>>

\* (mutant) the restored coverage stays remembered.
RestoreCoverageKeepsSaved(u, i) ==
  LET e == tick[u].due[i] IN
  /\ TakeEvent(u, i)
  /\ Consumes(u, e)
  /\ e.kind = "target_lost"
  /\ saved[u] # NoJob
  /\ HandOver(u, "HEURISTIC")
  /\ Install(u, saved[u])
  /\ UNCHANGED <<saved, mode, queue, started, quarantined, applied>>

\* A lost target gives the remembered coverage back when the region store says
\* that its region is still active and nobody else's; otherwise the coverage is
\* dropped and ReleaseToHolding follows.  The store is not modelled: either may be.
RestoreCoverage(u, i) ==
  LET e == tick[u].due[i] IN
  /\ TakeEvent(u, i)
  /\ Consumes(u, e)
  /\ e.kind = "target_lost"
  /\ saved[u] # NoJob
  /\ HandOver(u, "HEURISTIC")
  /\ Install(u, saved[u])
  /\ saved' = [saved EXCEPT ![u] = NoJob]
  /\ UNCHANGED <<mode, queue, started, quarantined, applied>>

\* A confirmed type II contact turns the probe into a track.
ConfirmTrack(u, i) ==
  LET e == tick[u].due[i] IN
  /\ TakeEvent(u, i)
  /\ Consumes(u, e)
  /\ e.kind = "type_ii_confirmed"
  /\ HandOver(u, "HEURISTIC")
  /\ Install(u, Track(e.job.of))
  /\ saved' = [saved EXCEPT ![u] = NoJob]
  /\ UNCHANGED <<mode, queue, started, quarantined, applied>>

\* Any other end of the work puts the UAV on hold under the SYSTEM.
ReleaseToHolding(u, i) ==
  LET e == tick[u].due[i] IN
  /\ TakeEvent(u, i)
  /\ Consumes(u, e)
  /\ e.kind # "type_ii_confirmed"
  /\ HandOver(u, "SYSTEM")
  /\ Install(u, Holding)
  /\ saved' = [saved EXCEPT ![u] = NoJob]
  /\ mode' = [mode EXCEPT ![u] = "HOLDING"]
  /\ UNCHANGED <<queue, started, quarantined, applied>>

\* The lease is pinned, the pending task is started on the installed controller.
ObserveAndStart(u) ==
  /\ tick[u].phase = "events"
  /\ tick[u].due = <<>>
  /\ controller[u] # NoJob
  /\ pending[u] = NoJob \/ u \in started
  /\ tick' = [tick EXCEPT ![u] = [phase |-> "acting", due |-> <<>>,
                                  job |-> controller[u], lease |-> lease[u]]]
  /\ pending' = [pending EXCEPT ![u] = NoJob]
  /\ UNCHANGED <<lease, controller, mode, saved, queue, started, quarantined, applied>>

\* No controller, or no episode for the pending task, which is lost.
TickFails(u) ==
  /\ tick[u].phase = "events"
  /\ tick[u].due = <<>>
  /\ controller[u] = NoJob \/ (pending[u] # NoJob /\ u \notin started)
  /\ tick' = [tick EXCEPT ![u] = NoTick]
  /\ pending' = [pending EXCEPT ![u] = NoJob]
  /\ UNCHANGED <<lease, controller, mode, saved, queue, started, quarantined, applied>>

\* The operation modes a controller's command may carry.
CommandModes(u, job) ==
  CASE job.type = "COVERAGE" -> {"TRANSIT", "COVERAGE"}
    [] job.type = "PROBE" -> {"PROBE", "HOLDING"}
    [] job.type = "TRACK" -> {"TRACK", "HOLDING", "TRANSIT"}
    [] job.type \in {"RETURN", "HOLDING"} -> {job.type}
    [] job.type = "POLICY" ->
         {"TRANSIT", "COVERAGE", "PROBE", "TRACK"}
           \cup (IF mode[u] = "PROBE" THEN {"HOLDING"} ELSE {})

\* (mutant) the decision is not checked against the current lease.
LeaseIgnored(u) == tick[u].phase = "acting"

\* ownership.accepts(lease), after the controller has acted.
LeaseStillCurrent(u) == tick[u].phase = "acting" /\ tick[u].lease = lease[u]

\* step_uav, second half: the command reaches the airframe.  A heuristic work
\* controller may report its own failure along with the command.
ApplyCommand(u, newMode, failed) ==
  /\ Free
  /\ LeaseStillCurrent(u)
  /\ newMode \in CommandModes(u, tick[u].job)
  /\ failed => tick[u].job \in WorkJobs /\ Len(queue[u]) < MaxQueue
  /\ mode' = [mode EXCEPT ![u] = newMode]
  /\ applied' = [applied EXCEPT ![u] = [job |-> tick[u].job, gen |-> tick[u].lease.gen]]
  /\ queue' = IF failed
                THEN [queue EXCEPT ![u] = Append(@,
                        [kind |-> "task_failed", job |-> tick[u].job,
                         gen |-> tick[u].lease.gen])]
                ELSE queue
  /\ tick' = [tick EXCEPT ![u] = NoTick]
  /\ UNCHANGED <<lease, controller, pending, saved, started, quarantined>>

\* act raised, the lease went stale, or the safety envelope refused the command.
CommandRejected(u) ==
  /\ Free
  /\ tick[u].phase = "acting"
  /\ tick' = [tick EXCEPT ![u] = NoTick]
  /\ UNCHANGED <<lease, controller, pending, mode, saved, queue, started, quarantined,
                 applied>>

Operation ==
  \/ \E u \in UAVs, kind \in EventKinds : QueueEvent(u, kind)
  \/ \E u \in UAVs, job \in CoverageJobs \cup {Policy} : StartWork(u, job)
  \/ \E u \in UAVs, job \in WorkJobs : AssignTask(u, job)
  \/ \E batch \in (SUBSET UAVs) \ {{}} : \E jobs \in [batch -> WorkJobs] :
       AssignBatch(batch, jobs)
  \/ \E u \in UAVs : RevokeForReturn(u)
  \/ \E u \in UAVs, job \in SystemJobs : AssignSystemTask(u, job)
  \/ \E u \in UAVs : PromoteToSystemHolding(u)
  \/ \E u \in UAVs : ResetAfterRefuel(u)
  \/ \E u \in UAVs : Quarantine(u)

ControlTick ==
  \E u \in UAVs :
    \/ TickBegins(u)
    \/ \E i \in 1 .. MaxQueue : IgnoreEvent(u, i)
    \/ \E i \in 1 .. MaxQueue : RestoreCoverage(u, i)
    \/ \E i \in 1 .. MaxQueue : ConfirmTrack(u, i)
    \/ \E i \in 1 .. MaxQueue : ReleaseToHolding(u, i)
    \/ ObserveAndStart(u)
    \/ TickFails(u)
    \/ \E newMode \in Modes, failed \in BOOLEAN : ApplyCommand(u, newMode, failed)
    \/ CommandRejected(u)

\* The bounded history of some UAV ends: no more leases are written for it.
BoundReached == (\E u \in UAVs : lease[u].gen = MaxGen) /\ UNCHANGED vars

Next == Operation \/ ControlTick \/ BoundReached

Spec == Init /\ [][Next]_vars

-------------------------------------------------------------------------------
\* Every variable holds values of the kind the code keeps in it.
TypeOK ==
  /\ lease \in [UAVs -> Lease]
  /\ controller \in [UAVs -> ControllerJobs]
  /\ pending \in [UAVs -> Jobs \cup {NoJob}]
  /\ mode \in [UAVs -> Modes]
  /\ saved \in [UAVs -> CoverageJobs \cup {NoJob}]
  /\ queue \in [UAVs -> Seq(Event)]
  /\ started \subseteq UAVs
  /\ quarantined \subseteq UAVs
  /\ applied \in [UAVs -> Command]
  /\ tick \in [UAVs -> Tick]

\* The lease's owner and the installed controller always name the same kind of
\* authority: a HEURISTIC lease flies a work task, a LEARNING lease the learned
\* policy, a SYSTEM lease a return, a holding pattern or nothing.  The two live
\* in separate objects (ControlOwnership and _controllers).
CommandPathCoherent ==
  \A u \in UAVs :
    /\ lease[u].owner = "HEURISTIC" <=> controller[u] \in WorkJobs
    /\ lease[u].owner = "LEARNING" <=> controller[u] = Policy

\* A task waiting to be started belongs to the controller that is installed, so
\* start_task never reaches a controller that was built for another task.
PendingBelongsToController ==
  \A u \in UAVs : pending[u] # NoJob => pending[u] = controller[u]

\* A UAV the SYSTEM flies home shows RETURN as its operation mode, and no other
\* UAV under the SYSTEM does.  The assignment calls recognise a return by that
\* mode alone (coordinator.py:302, 406), and ticks rewrite the mode.
ReturnIsVisible ==
  \A u \in UAVs : controller[u] = Return <=> mode[u] = "RETURN"

\* A return is never preempted by work: no step takes a UAV from its return
\* controller to a HEURISTIC or LEARNING lease.
ReturnNotPreempted ==
  [][\A u \in UAVs : controller[u] = Return => lease'[u].owner \notin WorkOwners]_vars

\* A command that reaches the airframe was decided by the controller installed
\* at that moment, under the lease that is current at that moment, however the
\* coordinator was re-entered while the controller was acting.
CommandsAreFenced ==
  [][\A u \in UAVs :
       applied'[u] # applied[u] /\ applied'[u] # NoCommand =>
         applied'[u] = [job |-> controller[u], gen |-> lease[u].gen]]_vars

\* Coverage that is remembered for later is not what the UAV is flying: a lost
\* target never "restores" the coverage that is already active.
SavedCoverageIsInterrupted ==
  \A u \in UAVs : controller[u] \in CoverageJobs => saved[u] = NoJob

\* What makes the fence work: an acting controller decides under a lease that is
\* at most as new as the stored one, and while it is the stored one the acting
\* controller is still the installed one.
DecisionBindsController ==
  \A u \in UAVs : tick[u].phase = "acting" =>
    /\ tick[u].job # NoJob
    /\ tick[u].lease.gen <= lease[u].gen
    /\ tick[u].lease = lease[u] => tick[u].job = controller[u]

\* Of all events but a lost target, only one raised under the current lease ends
\* a coverage task: a completion or failure that was queued before the UAV was
\* tasked again, even with the same region, releases nothing.
CoverageEndsByItsOwnEvents ==
  [][\A u \in UAVs, i \in 1 .. MaxQueue :
       ReleaseToHolding(u, i) /\ controller[u] \in CoverageJobs =>
         \/ tick[u].due[i].kind = "target_lost"
         \/ tick[u].due[i].gen = lease[u].gen]_vars

\* What the persistent-coverage design says of every event ("events of an old
\* generation must not release a new task",
\* docs/superpowers/specs/2026-09-17-persistent-coverage-design.md:163).
OldEventsReleaseNothing ==
  [][\A u \in UAVs, i \in 1 .. MaxQueue :
       RestoreCoverage(u, i) \/ ReleaseToHolding(u, i) =>
         tick[u].due[i].gen = lease[u].gen]_vars

\* The leases the coordinator leaves behind implement the lease table.
Table == INSTANCE LeaseTable WITH table <- lease
ImplementsLeaseTable == Table!Spec
===============================================================================
