----------------------- MODULE ControlCoordinatorProofs -----------------------
(*****************************************************************************)
(* The coordinator for any fleet, any regions, contacts and probe sessions,  *)
(* and any bounds.  The inductive invariant CommandPath joins the invariants *)
(* the runs check; the action properties and the refinement follow from it.  *)
(*****************************************************************************)
EXTENDS ControlCoordinator, TLAPS

\* The kinds of job are told apart by their type.
LEMMA JobKinds ==
  /\ \A j \in CoverageJobs : j.type = "COVERAGE"
  /\ \A j \in ContactJobs : j.type \in {"PROBE", "TRACK"}
  /\ Return.type = "RETURN" /\ Holding.type = "HOLDING"
  /\ Policy.type = "POLICY" /\ NoJob.type = "NONE"
BY DEF CoverageJobs, ContactJobs, Coverage, Probe, Track, Return, Holding, Policy, NoJob, Job

\* Work is neither a SYSTEM job, nor a learned policy, nor nothing.
LEMMA WorkIsWork ==
  /\ Return \notin WorkJobs /\ Holding \notin WorkJobs
  /\ Policy \notin WorkJobs /\ NoJob \notin WorkJobs
  /\ Return # Holding /\ Return # Policy /\ Return # NoJob
  /\ Policy # NoJob /\ Policy # Holding /\ Holding # NoJob
  /\ CoverageJobs \subseteq WorkJobs
BY JobKinds DEF WorkJobs

\* The contact of a probe can be tracked.
LEMMA ProbedContact == \A j \in WorkJobs : j.type = "PROBE" => Track(j.of) \in WorkJobs
BY DEF WorkJobs, CoverageJobs, ContactJobs, Coverage, Probe, Track, Job

\* Taking an event out of a sequence of events leaves a sequence of events.
LEMMA RestType ==
  ASSUME NEW s \in Seq(Event), NEW i \in 1 .. Len(s)
  PROVE  Rest(s, i) \in Seq(Event)
<1>1. SubSeq(s, 1, i - 1) \in Seq(Event) /\ SubSeq(s, i + 1, Len(s)) \in Seq(Event)
  OBVIOUS
<1> QED BY <1>1 DEF Rest

\* Raised events are events.
LEMMA EventType ==
  ASSUME NEW k \in EventKinds, NEW j \in WorkJobs, NEW g \in Nat
  PROVE  [kind |-> k, job |-> j, gen |-> g] \in Event
BY DEF Event
-------------------------------------------------------------------------------
\* The helpers of the operations keep the types of the variables they write.
LEMMA HandOverType ==
  ASSUME TypeOK, NEW u \in UAVs, NEW owner \in Owners, HandOver(u, owner)
  PROVE  lease' \in [UAVs -> Lease]
BY DEF TypeOK, HandOver, Lease

LEMMA InstallType ==
  ASSUME TypeOK, NEW u \in UAVs, NEW job \in ControllerJobs, Install(u, job)
  PROVE  /\ controller' \in [UAVs -> ControllerJobs]
         /\ pending' \in [UAVs -> Jobs \cup {NoJob}]
BY DEF TypeOK, Install, ControllerJobs

LEMMA SaveType ==
  ASSUME TypeOK, NEW u \in UAVs, NEW job, SaveOrClear(u, job) \/ SaveActiveCoverage(u)
  PROVE  saved' \in [UAVs -> CoverageJobs \cup {NoJob}]
BY DEF TypeOK, SaveOrClear, SaveActiveCoverage

LEMMA TakeEventType ==
  ASSUME TypeOK, NEW u \in UAVs, NEW i, TakeEvent(u, i)
  PROVE  tick' \in [UAVs -> Tick] /\ tick[u].due[i] \in Event
<1>1. tick[u].due \in Seq(Event) /\ i \in 1 .. Len(tick[u].due)
  BY DEF TypeOK, TakeEvent, Tick
<1>2. Rest(tick[u].due, i) \in Seq(Event)
  BY <1>1, RestType
<1>3. tick[u].due[i] \in Event
  BY <1>1
<1> QED
  BY <1>2, <1>3 DEF TypeOK, TakeEvent, Tick

\* The modes of a command are modes.
LEMMA CommandModesAreModes ==
  ASSUME NEW u, NEW job \in ControllerJobs \ {NoJob}, NEW m \in CommandModes(u, job)
  PROVE  m \in Modes
BY JobKinds DEF CommandModes, Modes, ControllerJobs, Jobs, WorkJobs, SystemJobs

\* Types are preserved by every operation ...
LEMMA OperationType == TypeOK /\ Operation => TypeOK'
<1> SUFFICES ASSUME TypeOK, Operation PROVE TypeOK'
  OBVIOUS
<1>0. /\ Owners = {"SYSTEM", "HEURISTIC", "LEARNING"}
      /\ CoverageJobs \subseteq WorkJobs /\ WorkJobs \subseteq Jobs
      /\ WorkJobs \subseteq ControllerJobs /\ SystemJobs \subseteq ControllerJobs
      /\ {Return, Holding, Policy, NoJob} \subseteq ControllerJobs
      /\ NoCommand \in Command
  BY DEF Owners, Jobs, ControllerJobs, SystemJobs, WorkJobs, NoCommand, Command
<1>1. ASSUME NEW u \in UAVs, NEW kind \in EventKinds, QueueEvent(u, kind) PROVE TypeOK'
  <2>1. controller[u] \in WorkJobs
    BY <1>1, JobKinds DEF QueueEvent, Raisable, TypeOK, ControllerJobs, Jobs, SystemJobs
  <2>2. [kind |-> kind, job |-> controller[u], gen |-> lease[u].gen] \in Event
    BY <2>1, EventType DEF TypeOK, Lease
  <2>3. queue' \in [UAVs -> Seq(Event)]
    BY <1>1, <2>2 DEF QueueEvent, TypeOK
  <2> QED BY <1>1, <2>3 DEF QueueEvent, TypeOK
<1>2. ASSUME NEW u \in UAVs, NEW job \in CoverageJobs \cup {Policy}, StartWork(u, job)
      PROVE  TypeOK'
  <2>1. lease' \in [UAVs -> Lease]
    BY <1>0, <1>2, HandOverType DEF StartWork
  <2>2. controller' \in [UAVs -> ControllerJobs] /\ pending' \in [UAVs -> Jobs \cup {NoJob}]
    BY <1>0, <1>2, InstallType DEF StartWork
  <2> QED BY <1>0, <1>2, <2>1, <2>2 DEF StartWork, TypeOK, Modes
<1>3. ASSUME NEW u \in UAVs, NEW job \in WorkJobs, AssignTask(u, job) PROVE TypeOK'
  <2>1. lease' \in [UAVs -> Lease]
    BY <1>0, <1>3, HandOverType DEF AssignTask
  <2>2. controller' \in [UAVs -> ControllerJobs] /\ pending' \in [UAVs -> Jobs \cup {NoJob}]
    BY <1>0, <1>3, InstallType DEF AssignTask
  <2>3. saved' \in [UAVs -> CoverageJobs \cup {NoJob}]
    BY <1>3, SaveType DEF AssignTask
  <2> QED BY <1>3, <2>1, <2>2, <2>3 DEF AssignTask, TypeOK
<1>4. ASSUME NEW batch \in SUBSET UAVs, NEW jobs \in [batch -> WorkJobs],
             AssignBatch(batch, jobs)
      PROVE  TypeOK'
  <2>1. lease' \in [UAVs -> Lease]
    BY <1>4 DEF AssignBatch, TransitionBatch, TypeOK, Lease, Owners
  <2>2. controller' \in [UAVs -> ControllerJobs] /\ pending' \in [UAVs -> Jobs \cup {NoJob}]
    BY <1>0, <1>4 DEF AssignBatch, InstallBatch, TypeOK
  <2>3. saved' \in [UAVs -> CoverageJobs \cup {NoJob}]
    BY <1>4 DEF AssignBatch, TypeOK
  <2>4. mode' \in [UAVs -> Modes] /\ applied' \in [UAVs -> Command]
    BY <1>0, <1>4 DEF AssignBatch, TypeOK, Modes
  <2> QED BY <1>4, <2>1, <2>2, <2>3, <2>4 DEF AssignBatch, TypeOK
<1>5. ASSUME NEW u \in UAVs, RevokeForReturn(u) PROVE TypeOK'
  <2>1. lease' \in [UAVs -> Lease]
    BY <1>0, <1>5, HandOverType DEF RevokeForReturn
  <2>2. controller' \in [UAVs -> ControllerJobs] /\ pending' \in [UAVs -> Jobs \cup {NoJob}]
    BY <1>0, <1>5, InstallType DEF RevokeForReturn
  <2>3. saved' \in [UAVs -> CoverageJobs \cup {NoJob}]
    BY <1>5, SaveType DEF RevokeForReturn
  <2> QED BY <1>5, <2>1, <2>2, <2>3 DEF RevokeForReturn, TypeOK, Modes
<1>6. ASSUME NEW u \in UAVs, NEW job \in SystemJobs, AssignSystemTask(u, job) PROVE TypeOK'
  <2>1. lease' \in [UAVs -> Lease]
    BY <1>0, <1>6, HandOverType DEF AssignSystemTask
  <2>2. controller' \in [UAVs -> ControllerJobs] /\ pending' \in [UAVs -> Jobs \cup {NoJob}]
    BY <1>0, <1>6, InstallType DEF AssignSystemTask
  <2>3. job.type \in Modes
    BY JobKinds DEF SystemJobs, Modes
  <2> QED BY <1>6, <2>1, <2>2, <2>3 DEF AssignSystemTask, TypeOK
<1>7. ASSUME NEW u \in UAVs, PromoteToSystemHolding(u) PROVE TypeOK'
  <2>1. lease' \in [UAVs -> Lease]
    BY <1>0, <1>7, HandOverType DEF PromoteToSystemHolding
  <2>2. controller' \in [UAVs -> ControllerJobs] /\ pending' \in [UAVs -> Jobs \cup {NoJob}]
    BY <1>0, <1>7, InstallType DEF PromoteToSystemHolding
  <2>3. saved' \in [UAVs -> CoverageJobs \cup {NoJob}]
    BY <1>7, SaveType DEF PromoteToSystemHolding
  <2> QED BY <1>7, <2>1, <2>2, <2>3 DEF PromoteToSystemHolding, TypeOK, Modes
<1>8. ASSUME NEW u \in UAVs, ResetAfterRefuel(u) PROVE TypeOK'
  <2>1. lease' \in [UAVs -> Lease]
    BY <1>0, <1>8, HandOverType DEF ResetAfterRefuel
  <2>2. controller' \in [UAVs -> ControllerJobs] /\ pending' \in [UAVs -> Jobs \cup {NoJob}]
    BY <1>0, <1>8, InstallType DEF ResetAfterRefuel
  <2> QED BY <1>0, <1>8, <2>1, <2>2 DEF ResetAfterRefuel, TypeOK, Modes
<1>9. ASSUME NEW u \in UAVs, Quarantine(u) PROVE TypeOK'
  <2>1. lease' \in [UAVs -> Lease]
    BY <1>0, <1>9, HandOverType DEF Quarantine
  <2>2. controller' \in [UAVs -> ControllerJobs] /\ pending' \in [UAVs -> Jobs \cup {NoJob}]
    BY <1>0, <1>9, InstallType DEF Quarantine
  <2>3. <<>> \in Seq(Event)
    OBVIOUS
  <2> QED BY <1>0, <1>9, <2>1, <2>2, <2>3 DEF Quarantine, TypeOK, Modes
<1> QED
  BY <1>1, <1>2, <1>3, <1>4, <1>5, <1>6, <1>7, <1>8, <1>9 DEF Operation

\* ... and by every step of a control tick.
LEMMA TickType == TypeOK /\ ControlTick => TypeOK'
<1> SUFFICES ASSUME TypeOK, NEW u \in UAVs,
                    \/ TickBegins(u)
                    \/ \E i \in 1 .. MaxQueue : IgnoreEvent(u, i)
                    \/ \E i \in 1 .. MaxQueue : RestoreCoverage(u, i)
                    \/ \E i \in 1 .. MaxQueue : ConfirmTrack(u, i)
                    \/ \E i \in 1 .. MaxQueue : ReleaseToHolding(u, i)
                    \/ ObserveAndStart(u)
                    \/ TickFails(u)
                    \/ \E m \in Modes, failed \in BOOLEAN : ApplyCommand(u, m, failed)
                    \/ CommandRejected(u)
             PROVE  TypeOK'
  BY DEF ControlTick
<1>0. /\ CoverageJobs \subseteq WorkJobs /\ WorkJobs \subseteq Jobs
      /\ WorkJobs \subseteq ControllerJobs
      /\ {Holding, NoJob} \subseteq ControllerJobs /\ Holding \in Jobs
      /\ NoTick \in Tick /\ <<>> \in Seq(Event)
  <2>1. <<>> \in Seq(Event)
    OBVIOUS
  <2> QED
    BY <2>1 DEF Jobs, ControllerJobs, SystemJobs, WorkJobs, NoTick, Tick, Lease, Owners
<1>1. CASE TickBegins(u)
  <2>1. [NoTick EXCEPT !.phase = "events", !.due = queue[u]] \in Tick
    BY <1>0 DEF NoTick, Tick, TypeOK
  <2> QED BY <1>0, <1>1, <2>1 DEF TickBegins, TypeOK
<1>2. ASSUME NEW i, IgnoreEvent(u, i) PROVE TypeOK'
  BY <1>2, TakeEventType DEF IgnoreEvent, TypeOK
<1>3. ASSUME NEW i, RestoreCoverage(u, i) PROVE TypeOK'
  <2>1. lease' \in [UAVs -> Lease] /\ tick' \in [UAVs -> Tick]
    BY <1>3, HandOverType, TakeEventType DEF RestoreCoverage, Owners
  <2>2. saved[u] \in ControllerJobs
    BY <1>0 DEF TypeOK
  <2>3. controller' \in [UAVs -> ControllerJobs] /\ pending' \in [UAVs -> Jobs \cup {NoJob}]
    BY <1>3, <2>2, InstallType DEF RestoreCoverage
  <2> QED BY <1>3, <2>1, <2>3 DEF RestoreCoverage, TypeOK
<1>4. ASSUME NEW i, ConfirmTrack(u, i) PROVE TypeOK'
  <2>1. lease' \in [UAVs -> Lease] /\ tick' \in [UAVs -> Tick] /\ tick[u].due[i] \in Event
    BY <1>4, HandOverType, TakeEventType DEF ConfirmTrack, Owners
  <2>2. Track(tick[u].due[i].job.of) \in WorkJobs
    BY <1>4, <2>1, ProbedContact DEF ConfirmTrack, Consumes, Matches, Event
  <2>3. controller' \in [UAVs -> ControllerJobs] /\ pending' \in [UAVs -> Jobs \cup {NoJob}]
    BY <1>0, <1>4, <2>2, InstallType DEF ConfirmTrack
  <2> QED BY <1>4, <2>1, <2>3 DEF ConfirmTrack, TypeOK
<1>5. ASSUME NEW i, ReleaseToHolding(u, i) PROVE TypeOK'
  <2>1. lease' \in [UAVs -> Lease] /\ tick' \in [UAVs -> Tick]
    BY <1>5, HandOverType, TakeEventType DEF ReleaseToHolding, Owners
  <2>2. controller' \in [UAVs -> ControllerJobs] /\ pending' \in [UAVs -> Jobs \cup {NoJob}]
    BY <1>0, <1>5, InstallType DEF ReleaseToHolding
  <2> QED BY <1>5, <2>1, <2>2 DEF ReleaseToHolding, TypeOK, Modes
<1>6. CASE ObserveAndStart(u)
  <2>1. [phase |-> "acting", due |-> <<>>, job |-> controller[u], lease |-> lease[u]] \in Tick
    BY <1>0 DEF Tick, TypeOK
  <2> QED BY <1>6, <2>1 DEF ObserveAndStart, TypeOK
<1>7. CASE TickFails(u)
  BY <1>0, <1>7 DEF TickFails, TypeOK
<1>8. ASSUME NEW m \in Modes, NEW failed \in BOOLEAN, ApplyCommand(u, m, failed) PROVE TypeOK'
  <2>1. tick[u].job \in ControllerJobs /\ tick[u].lease.gen \in Nat
    BY DEF TypeOK, Tick, Lease
  <2>2. [job |-> tick[u].job, gen |-> tick[u].lease.gen] \in Command
    BY <2>1 DEF Command
  <2>3. queue' \in [UAVs -> Seq(Event)]
    <3>1. CASE failed
      <4>1. [kind |-> "task_failed", job |-> tick[u].job, gen |-> tick[u].lease.gen] \in Event
        BY <1>8, <2>1, <3>1, EventType DEF ApplyCommand, EventKinds
      <4> QED BY <1>8, <3>1, <4>1 DEF ApplyCommand, TypeOK
    <3>2. CASE ~failed
      BY <1>8, <3>2 DEF ApplyCommand, TypeOK
    <3> QED BY <3>1, <3>2
  <2> QED BY <1>0, <1>8, <2>2, <2>3 DEF ApplyCommand, TypeOK
<1>9. CASE CommandRejected(u)
  BY <1>0, <1>9 DEF CommandRejected, TypeOK
<1> QED
  BY <1>1, <1>2, <1>3, <1>4, <1>5, <1>6, <1>7, <1>8, <1>9

\* Every variable holds values of the kind the code keeps in it, in every
\* reachable state.
THEOREM TypeCorrect == Spec => []TypeOK
<1>1. Init => TypeOK
  <2>1. <<>> \in Seq(Event)
    OBVIOUS
  <2> QED
    BY <2>1 DEF Init, TypeOK, Lease, Owners, ControllerJobs, Modes, NoCommand, Command,
                NoTick, Tick
<1>2. TypeOK /\ UNCHANGED vars => TypeOK'
  BY DEF TypeOK, vars
<1>3. TypeOK /\ [Next]_vars => TypeOK'
  BY <1>2, OperationType, TickType DEF Next, BoundReached
<1> QED
  BY <1>1, <1>3, PTL DEF Spec

-------------------------------------------------------------------------------
\* The inductive invariant: the invariants of the runs, for one UAV.  None of
\* them is inductive alone.  A stale decision would rewrite the mode that makes a
\* return visible, so ReturnIsVisible needs DecisionBindsController; which owner
\* a returning UAV has is CommandPathCoherent; and restoring coverage installs it
\* on a UAV whose remembered coverage must then be gone.
PathOf(u) ==
  /\ lease[u].owner = "HEURISTIC" <=> controller[u] \in WorkJobs
  /\ lease[u].owner = "LEARNING" <=> controller[u] = Policy
  /\ pending[u] # NoJob => pending[u] = controller[u]
  /\ controller[u] = Return <=> mode[u] = "RETURN"
  /\ controller[u] \in CoverageJobs => saved[u] = NoJob
  /\ tick[u].phase = "acting" =>
       /\ tick[u].job # NoJob
       /\ tick[u].lease.gen <= lease[u].gen
       /\ tick[u].lease = lease[u] => tick[u].job = controller[u]

CommandPath == \A u \in UAVs : PathOf(u)

\* The inductive invariant is the conjunction of the checked invariants.
LEMMA CommandPathMeans ==
  CommandPath <=> /\ CommandPathCoherent
                  /\ PendingBelongsToController
                  /\ ReturnIsVisible
                  /\ SavedCoverageIsInterrupted
                  /\ DecisionBindsController
BY DEF CommandPath, PathOf, CommandPathCoherent, PendingBelongsToController, ReturnIsVisible,
       SavedCoverageIsInterrupted, DecisionBindsController

\* A UAV no variable of which changes keeps its command path.
LEMMA Elsewhere ==
  ASSUME NEW v \in UAVs, PathOf(v),
         lease'[v] = lease[v], controller'[v] = controller[v], pending'[v] = pending[v],
         mode'[v] = mode[v], saved'[v] = saved[v], tick'[v] = tick[v]
  PROVE  PathOf(v)'
BY DEF PathOf

\* A UAV that is handed over with a controller that fits its new owner, a mode
\* that shows a return, and no remembered coverage if it flies coverage, has a
\* coherent command path: its acting controller, if any, has lost its lease.
LEMMA HandedOver ==
  ASSUME TypeOK, NEW u \in UAVs, PathOf(u), NEW owner, NEW job,
         owner = "HEURISTIC" <=> job \in WorkJobs,
         owner = "LEARNING" <=> job = Policy,
         lease'[u] = [owner |-> owner, gen |-> lease[u].gen + 1],
         controller'[u] = job,
         pending'[u] \in {NoJob, job},
         job = Return <=> mode'[u] = "RETURN",
         job \in CoverageJobs => saved'[u] = NoJob,
         tick'[u] = tick[u] \/ tick'[u].phase # "acting"
  PROVE  PathOf(u)'
<1>1. lease[u].gen \in Nat /\ lease'[u].gen = lease[u].gen + 1 /\ lease'[u].owner = owner
  BY DEF TypeOK, Lease
<1>2. ASSUME tick'[u].phase = "acting"
      PROVE  tick'[u].lease.gen <= lease'[u].gen /\ tick'[u].lease # lease'[u]
  <2>1. tick[u].lease.gen \in Nat
    BY DEF TypeOK, Tick, Lease
  <2>2. tick'[u].lease.gen <= lease[u].gen
    BY <1>2 DEF PathOf
  <2> QED BY <1>1, <1>2, <2>1, <2>2
<1> QED
  BY <1>1, <1>2 DEF PathOf

\* HandOver and Install, read at one UAV.
LEMMA HandOverAt ==
  ASSUME TypeOK, NEW u \in UAVs, NEW owner, HandOver(u, owner)
  PROVE  /\ lease'[u] = [owner |-> owner, gen |-> lease[u].gen + 1]
         /\ \A v \in UAVs \ {u} : lease'[v] = lease[v]
BY DEF HandOver, TypeOK

LEMMA InstallAt ==
  ASSUME TypeOK, NEW u \in UAVs, NEW job, Install(u, job)
  PROVE  /\ controller'[u] = job /\ pending'[u] \in {NoJob, job}
         /\ \A v \in UAVs \ {u} : controller'[v] = controller[v] /\ pending'[v] = pending[v]
BY DEF Install, TypeOK

\* Handing one UAV over and installing its controller leaves the command path of
\* every other UAV as it was.
LEMMA HandedOverElsewhere ==
  ASSUME TypeOK, NEW u \in UAVs, NEW owner, NEW job, HandOver(u, owner), Install(u, job),
         NEW v \in UAVs, v # u, PathOf(v),
         mode'[v] = mode[v], saved'[v] = saved[v], tick'[v] = tick[v]
  PROVE  PathOf(v)'
<1>1. lease'[v] = lease[v]
  BY HandOverAt
<1>2. controller'[v] = controller[v] /\ pending'[v] = pending[v]
  BY InstallAt
<1> QED
  BY <1>1, <1>2, Elsewhere

\* An event is only taken from a tick in its event half.
LEMMA TakeEventAt ==
  ASSUME TypeOK, NEW u \in UAVs, NEW i, TakeEvent(u, i)
  PROVE  /\ tick'[u].phase = "events"
         /\ \A v \in UAVs \ {u} : tick'[v] = tick[v]
BY DEF TakeEvent, TypeOK, Tick

\* A command shows RETURN exactly when a return controller gave it.
LEMMA CommandModesShowReturn ==
  ASSUME NEW u, NEW job \in ControllerJobs \ {NoJob}, NEW m \in CommandModes(u, job)
  PROVE  job = Return <=> m = "RETURN"
<1>1. job = Return <=> job.type = "RETURN"
  BY JobKinds DEF ControllerJobs, Jobs, WorkJobs, SystemJobs
<1>2. job.type \in {"COVERAGE", "PROBE", "TRACK", "RETURN", "HOLDING", "POLICY"}
  BY JobKinds DEF ControllerJobs, Jobs, WorkJobs, SystemJobs
<1> QED
  BY <1>1, <1>2 DEF CommandModes

\* The command path survives every operation ...
LEMMA OperationPath == TypeOK /\ CommandPath /\ Operation => CommandPath'
<1> SUFFICES ASSUME TypeOK, CommandPath, Operation, NEW v \in UAVs PROVE PathOf(v)'
  BY DEF CommandPath
<1>0. PathOf(v) /\ \A u \in UAVs : PathOf(u)
  BY DEF CommandPath
<1>k. /\ Return \notin WorkJobs /\ Holding \notin WorkJobs /\ Policy \notin WorkJobs
      /\ NoJob \notin WorkJobs /\ Return # Holding /\ Return # Policy /\ Return # NoJob
      /\ Policy # NoJob /\ Policy # Holding /\ CoverageJobs \subseteq WorkJobs
  BY WorkIsWork
<1>1. ASSUME NEW u \in UAVs, NEW kind \in EventKinds, QueueEvent(u, kind) PROVE PathOf(v)'
  BY <1>0, <1>1, Elsewhere DEF QueueEvent
<1>2. ASSUME NEW u \in UAVs, NEW job \in CoverageJobs \cup {Policy}, StartWork(u, job)
      PROVE  PathOf(v)'
  <2> DEFINE owner == IF u \in Learning THEN "LEARNING" ELSE "HEURISTIC"
  <2>1. HandOver(u, owner) /\ Install(u, job)
    BY <1>2 DEF StartWork
  <2>2. /\ owner = "HEURISTIC" <=> job \in WorkJobs
        /\ owner = "LEARNING" <=> job = Policy
    BY <1>2, <1>k DEF StartWork
  <2>3. mode'[u] = "IDLE" /\ saved'[u] = NoJob /\ tick' = tick
    BY <1>2 DEF StartWork, TypeOK
  <2>4. CASE v = u
    <3> HIDE DEF owner
    <3>2. /\ lease'[u] = [owner |-> owner, gen |-> lease[u].gen + 1]
          /\ controller'[u] = job /\ pending'[u] \in {NoJob, job} /\ tick'[u] = tick[u]
      BY <2>1, <2>3, HandOverAt, InstallAt
    <3>3. job # Return
      BY <1>k
    <3> QED BY <1>0, <2>2, <2>3, <2>4, <3>2, <3>3, HandedOver
  <2>5. CASE v # u
    <3>1. mode'[v] = mode[v] /\ saved'[v] = saved[v]
      BY <1>2, <2>5 DEF StartWork, TypeOK
    <3> HIDE DEF owner
    <3> QED BY <1>0, <2>1, <2>3, <2>5, <3>1, HandedOverElsewhere
  <2> QED BY <2>4, <2>5
<1>3. ASSUME NEW u \in UAVs, NEW job \in WorkJobs, AssignTask(u, job) PROVE PathOf(v)'
  <2>1. HandOver(u, "HEURISTIC") /\ Install(u, job) /\ mode' = mode /\ tick' = tick
    BY <1>3 DEF AssignTask
  <2>2. job \in CoverageJobs => saved'[u] = NoJob
    BY <1>3 DEF AssignTask, SaveOrClear, TypeOK
  <2>3. mode[u] # "RETURN"
    <3>1. lease[u].owner \in {"SYSTEM", "HEURISTIC", "LEARNING"}
      BY DEF TypeOK, Lease, Owners
    <3> QED BY <1>0, <1>3, <1>k, <3>1 DEF AssignTask, MayBeTasked, PathOf
  <2>4. CASE v = u
    <3>1. /\ lease'[u] = [owner |-> "HEURISTIC", gen |-> lease[u].gen + 1]
          /\ controller'[u] = job /\ pending'[u] \in {NoJob, job} /\ tick'[u] = tick[u]
      BY <2>1, HandOverAt, InstallAt
    <3>2. job \in WorkJobs /\ job # Policy /\ job # Return /\ mode'[u] # "RETURN"
      BY <1>k, <2>1, <2>3
    <3> QED BY <1>0, <2>2, <2>4, <3>1, <3>2, HandedOver
  <2>5. CASE v # u
    <3>1. saved'[v] = saved[v]
      BY <1>3, <2>5 DEF AssignTask, SaveOrClear, SaveActiveCoverage, TypeOK
    <3> QED BY <1>0, <2>1, <2>5, <3>1, HandedOverElsewhere
  <2> QED BY <2>4, <2>5
<1>4. ASSUME NEW batch \in SUBSET UAVs, NEW jobs \in [batch -> WorkJobs],
             AssignBatch(batch, jobs)
      PROVE  PathOf(v)'
  <2>1. CASE v \in batch
    <3>1. lease'[v] = [owner |-> "HEURISTIC", gen |-> lease[v].gen + 1] /\ tick' = tick
      BY <1>4, <2>1 DEF AssignBatch, TransitionBatch
    <3>2. controller'[v] = jobs[v] /\ pending'[v] = jobs[v]
      BY <1>4, <2>1 DEF AssignBatch, InstallBatch
    <3>3. jobs[v] \in CoverageJobs => saved'[v] = NoJob
      BY <1>4, <2>1 DEF AssignBatch
    <3>4. mode'[v] # "RETURN"
      <4>1. lease[v].owner \in {"SYSTEM", "HEURISTIC", "LEARNING"}
        BY DEF TypeOK, Lease, Owners
      <4>2. mode[v] # "RETURN"
        BY <1>0, <1>4, <1>k, <2>1, <4>1 DEF AssignBatch, AllMayBeTasked, MayBeTasked, PathOf
      <4> QED BY <1>4, <4>2 DEF AssignBatch
    <3>5. jobs[v] \in WorkJobs
      BY <2>1
    <3> QED BY <1>0, <1>k, <3>1, <3>2, <3>3, <3>4, <3>5, HandedOver
  <2>2. CASE v \notin batch
    BY <1>0, <1>4, <2>2, Elsewhere DEF AssignBatch, TransitionBatch, InstallBatch
  <2> QED BY <2>1, <2>2
<1>5. ASSUME NEW u \in UAVs, RevokeForReturn(u) PROVE PathOf(v)'
  <2>1. HandOver(u, "SYSTEM") /\ Install(u, Return) /\ tick' = tick
    BY <1>5 DEF RevokeForReturn
  <2>2. CASE v = u
    <3>1. mode'[u] = "RETURN"
      BY <1>5 DEF RevokeForReturn, TypeOK
    <3>2. /\ lease'[u] = [owner |-> "SYSTEM", gen |-> lease[u].gen + 1]
          /\ controller'[u] = Return /\ pending'[u] \in {NoJob, Return} /\ tick'[u] = tick[u]
      BY <2>1, HandOverAt, InstallAt
    <3>3. Return \notin WorkJobs /\ Return # Policy /\ Return \notin CoverageJobs
      BY <1>k
    <3> QED BY <1>0, <1>k, <2>2, <3>1, <3>2, <3>3, HandedOver
  <2>3. CASE v # u
    <3>1. mode'[v] = mode[v] /\ saved'[v] = saved[v]
      BY <1>5, <2>3 DEF RevokeForReturn, SaveActiveCoverage, TypeOK
    <3> QED BY <1>0, <2>1, <2>3, <3>1, HandedOverElsewhere
  <2> QED BY <2>2, <2>3
<1>6. ASSUME NEW u \in UAVs, NEW job \in SystemJobs, AssignSystemTask(u, job) PROVE PathOf(v)'
  <2>1. HandOver(u, "SYSTEM") /\ Install(u, job) /\ tick' = tick /\ saved' = saved
    BY <1>6 DEF AssignSystemTask
  <2>2. job \in {Return, Holding} /\ job \notin WorkJobs /\ job # Policy
    BY <1>k DEF SystemJobs
  <2>3. CASE v = u
    <3>1. job = Return <=> mode'[u] = "RETURN"
      BY <1>6, <2>2, JobKinds DEF AssignSystemTask, TypeOK
    <3>2. /\ lease'[u] = [owner |-> "SYSTEM", gen |-> lease[u].gen + 1]
          /\ controller'[u] = job /\ pending'[u] \in {NoJob, job} /\ tick'[u] = tick[u]
      BY <2>1, HandOverAt, InstallAt
    <3>3. job \notin WorkJobs /\ job # Policy /\ job \notin CoverageJobs
      BY <1>k, <2>2
    <3> QED BY <1>0, <1>k, <2>3, <3>1, <3>2, <3>3, HandedOver
  <2>4. CASE v # u
    <3>1. mode'[v] = mode[v]
      BY <1>6, <2>4 DEF AssignSystemTask, TypeOK
    <3> QED BY <1>0, <2>1, <2>4, <3>1, HandedOverElsewhere
  <2> QED BY <2>3, <2>4
<1>7. ASSUME NEW u \in UAVs, PromoteToSystemHolding(u) PROVE PathOf(v)'
  <2>1. HandOver(u, "SYSTEM") /\ Install(u, Holding) /\ tick' = tick
    BY <1>7 DEF PromoteToSystemHolding
  <2>2. CASE v = u
    <3>1. mode'[u] = "HOLDING"
      BY <1>7 DEF PromoteToSystemHolding, TypeOK
    <3>2. /\ lease'[u] = [owner |-> "SYSTEM", gen |-> lease[u].gen + 1]
          /\ controller'[u] = Holding /\ pending'[u] \in {NoJob, Holding} /\ tick'[u] = tick[u]
      BY <2>1, HandOverAt, InstallAt
    <3>3. Holding \notin WorkJobs /\ Holding # Policy /\ Holding \notin CoverageJobs
      BY <1>k
    <3> QED BY <1>0, <1>k, <2>2, <3>1, <3>2, <3>3, HandedOver
  <2>3. CASE v # u
    <3>1. mode'[v] = mode[v] /\ saved'[v] = saved[v]
      BY <1>7, <2>3 DEF PromoteToSystemHolding, SaveActiveCoverage, TypeOK
    <3> QED BY <1>0, <2>1, <2>3, <3>1, HandedOverElsewhere
  <2> QED BY <2>2, <2>3
<1>8. ASSUME NEW u \in UAVs, ResetAfterRefuel(u) PROVE PathOf(v)'
  <2>1. HandOver(u, "SYSTEM") /\ Install(u, NoJob) /\ tick' = tick /\ saved' = saved
    BY <1>8 DEF ResetAfterRefuel
  <2>2. CASE v = u
    <3>1. mode'[u] = "IDLE"
      BY <1>8 DEF ResetAfterRefuel, TypeOK
    <3>2. /\ lease'[u] = [owner |-> "SYSTEM", gen |-> lease[u].gen + 1]
          /\ controller'[u] = NoJob /\ pending'[u] \in {NoJob, NoJob} /\ tick'[u] = tick[u]
      BY <2>1, HandOverAt, InstallAt
    <3>3. NoJob \notin WorkJobs /\ NoJob # Policy /\ NoJob \notin CoverageJobs
      BY <1>k
    <3> QED BY <1>0, <1>k, <2>2, <3>1, <3>2, <3>3, HandedOver
  <2>3. CASE v # u
    <3>1. mode'[v] = mode[v]
      BY <1>8, <2>3 DEF ResetAfterRefuel, TypeOK
    <3> QED BY <1>0, <2>1, <2>3, <3>1, HandedOverElsewhere
  <2> QED BY <2>2, <2>3
<1>9. ASSUME NEW u \in UAVs, Quarantine(u) PROVE PathOf(v)'
  <2>1. HandOver(u, "SYSTEM") /\ Install(u, NoJob) /\ tick' = tick
    BY <1>9 DEF Quarantine
  <2>2. CASE v = u
    <3>1. mode'[u] = "IDLE"
      BY <1>9 DEF Quarantine, TypeOK
    <3>2. /\ lease'[u] = [owner |-> "SYSTEM", gen |-> lease[u].gen + 1]
          /\ controller'[u] = NoJob /\ pending'[u] \in {NoJob, NoJob} /\ tick'[u] = tick[u]
      BY <2>1, HandOverAt, InstallAt
    <3>3. NoJob \notin WorkJobs /\ NoJob # Policy /\ NoJob \notin CoverageJobs
      BY <1>k
    <3> QED BY <1>0, <1>k, <2>2, <3>1, <3>2, <3>3, HandedOver
  <2>3. CASE v # u
    <3>1. mode'[v] = mode[v] /\ saved'[v] = saved[v]
      BY <1>9, <2>3 DEF Quarantine, TypeOK
    <3> QED BY <1>0, <2>1, <2>3, <3>1, HandedOverElsewhere
  <2> QED BY <2>2, <2>3
<1> QED
  BY <1>1, <1>2, <1>3, <1>4, <1>5, <1>6, <1>7, <1>8, <1>9 DEF Operation

\* ... and every step of a control tick.
LEMMA TickPath == TypeOK /\ CommandPath /\ ControlTick => CommandPath'
<1> SUFFICES ASSUME TypeOK, CommandPath, NEW v \in UAVs, NEW u \in UAVs,
                    \/ TickBegins(u)
                    \/ \E i \in 1 .. MaxQueue : IgnoreEvent(u, i)
                    \/ \E i \in 1 .. MaxQueue : RestoreCoverage(u, i)
                    \/ \E i \in 1 .. MaxQueue : ConfirmTrack(u, i)
                    \/ \E i \in 1 .. MaxQueue : ReleaseToHolding(u, i)
                    \/ ObserveAndStart(u)
                    \/ TickFails(u)
                    \/ \E m \in Modes, failed \in BOOLEAN : ApplyCommand(u, m, failed)
                    \/ CommandRejected(u)
             PROVE  PathOf(v)'
  BY DEF ControlTick, CommandPath
<1>0. PathOf(v) /\ PathOf(u)
  BY DEF CommandPath
<1>k. /\ Return \notin WorkJobs /\ Holding \notin WorkJobs /\ Policy \notin WorkJobs
      /\ NoJob \notin WorkJobs /\ Return # Holding /\ Return # Policy /\ Return # NoJob
      /\ Policy # NoJob /\ Policy # Holding /\ CoverageJobs \subseteq WorkJobs
  BY WorkIsWork
<1>1. CASE TickBegins(u)
  <2>1. tick'[u].phase = "events"
    BY <1>1 DEF TickBegins, TypeOK, NoTick
  <2> QED BY <1>0, <1>1, <2>1 DEF TickBegins, TypeOK, PathOf
<1>2. ASSUME NEW i, IgnoreEvent(u, i) PROVE PathOf(v)'
  <2>1. tick'[u].phase = "events"
    BY <1>2, TakeEventAt DEF IgnoreEvent
  <2>2. CASE v = u
    BY <1>0, <1>2, <2>1, <2>2 DEF IgnoreEvent, PathOf
  <2>3. CASE v # u
    BY <1>0, <1>2, <2>3, TakeEventAt, Elsewhere DEF IgnoreEvent
  <2> QED BY <2>2, <2>3
<1>3. ASSUME NEW i, RestoreCoverage(u, i) PROVE PathOf(v)'
  <2>1. HandOver(u, "HEURISTIC") /\ Install(u, saved[u]) /\ TakeEvent(u, i) /\ mode' = mode
    BY <1>3 DEF RestoreCoverage
  <2>2. saved[u] \in WorkJobs /\ saved[u] # Policy /\ saved[u] # Return
    BY <1>3, <1>k DEF RestoreCoverage, TypeOK
  <2>3. CASE v = u
    <3>1. /\ lease'[u] = [owner |-> "HEURISTIC", gen |-> lease[u].gen + 1]
          /\ controller'[u] = saved[u] /\ pending'[u] \in {NoJob, saved[u]}
          /\ tick'[u].phase # "acting"
      BY <2>1, HandOverAt, InstallAt, TakeEventAt
    <3>2. mode'[u] # "RETURN"
      BY <1>0, <1>3, <1>k, <2>1 DEF RestoreCoverage, Consumes, PathOf
    <3>3. saved'[u] = NoJob
      BY <1>3 DEF RestoreCoverage, TypeOK
    <3> QED BY <1>0, <2>2, <2>3, <3>1, <3>2, <3>3, HandedOver
  <2>4. CASE v # u
    <3>1. saved'[v] = saved[v]
      BY <1>3, <2>4 DEF RestoreCoverage, TypeOK
    <3>2. lease'[v] = lease[v]
      BY <2>1, <2>4, HandOverAt
    <3>3. controller'[v] = controller[v] /\ pending'[v] = pending[v]
      BY <2>1, <2>4, InstallAt
    <3>4. tick'[v] = tick[v]
      BY <2>1, <2>4, TakeEventAt
    <3> QED BY <1>0, <2>1, <3>1, <3>2, <3>3, <3>4, Elsewhere
  <2> QED BY <2>3, <2>4
<1>4. ASSUME NEW i, ConfirmTrack(u, i) PROVE PathOf(v)'
  <2> DEFINE job == Track(tick[u].due[i].job.of)
  <2>1. HandOver(u, "HEURISTIC") /\ Install(u, job) /\ TakeEvent(u, i) /\ mode' = mode
    BY <1>4 DEF ConfirmTrack
  <2>2. job \in WorkJobs /\ job # Policy /\ job # Return
    <3>1. tick[u].due[i] \in Event
      BY <2>1, TakeEventType
    <3> QED BY <1>4, <1>k, <3>1, ProbedContact DEF ConfirmTrack, Consumes, Matches, Event
  <2> HIDE DEF job
  <2>3. CASE v = u
    <3>1. /\ lease'[u] = [owner |-> "HEURISTIC", gen |-> lease[u].gen + 1]
          /\ controller'[u] = job /\ pending'[u] \in {NoJob, job}
          /\ tick'[u].phase # "acting"
      BY <2>1, HandOverAt, InstallAt, TakeEventAt
    <3>2. mode'[u] # "RETURN"
      BY <1>0, <1>4, <1>k, <2>1 DEF ConfirmTrack, Consumes, PathOf
    <3>3. saved'[u] = NoJob
      BY <1>4 DEF ConfirmTrack, TypeOK
    <3> QED BY <1>0, <2>2, <2>3, <3>1, <3>2, <3>3, HandedOver
  <2>4. CASE v # u
    <3>1. saved'[v] = saved[v]
      BY <1>4, <2>4 DEF ConfirmTrack, TypeOK
    <3>2. lease'[v] = lease[v]
      BY <2>1, <2>4, HandOverAt
    <3>3. controller'[v] = controller[v] /\ pending'[v] = pending[v]
      BY <2>1, <2>4, InstallAt
    <3>4. tick'[v] = tick[v]
      BY <2>1, <2>4, TakeEventAt
    <3> QED BY <1>0, <2>1, <3>1, <3>2, <3>3, <3>4, Elsewhere
  <2> QED BY <2>3, <2>4
<1>5. ASSUME NEW i, ReleaseToHolding(u, i) PROVE PathOf(v)'
  <2>1. HandOver(u, "SYSTEM") /\ Install(u, Holding) /\ TakeEvent(u, i)
    BY <1>5 DEF ReleaseToHolding
  <2>2. CASE v = u
    <3>1. /\ lease'[u] = [owner |-> "SYSTEM", gen |-> lease[u].gen + 1]
          /\ controller'[u] = Holding /\ pending'[u] \in {NoJob, Holding}
          /\ tick'[u].phase # "acting"
      BY <2>1, HandOverAt, InstallAt, TakeEventAt
    <3>2. mode'[u] # "RETURN" /\ saved'[u] = NoJob
      BY <1>5 DEF ReleaseToHolding, TypeOK
    <3> QED BY <1>0, <1>k, <2>2, <3>1, <3>2, HandedOver
  <2>3. CASE v # u
    <3>1. saved'[v] = saved[v] /\ mode'[v] = mode[v]
      BY <1>5, <2>3 DEF ReleaseToHolding, TypeOK
    <3>2. lease'[v] = lease[v]
      BY <2>1, <2>3, HandOverAt
    <3>3. controller'[v] = controller[v] /\ pending'[v] = pending[v]
      BY <2>1, <2>3, InstallAt
    <3>4. tick'[v] = tick[v]
      BY <2>1, <2>3, TakeEventAt
    <3> QED BY <1>0, <3>1, <3>2, <3>3, <3>4, Elsewhere
  <2> QED BY <2>2, <2>3
<1>6. CASE ObserveAndStart(u)
  <2>1. CASE v = u
    <3>1. /\ tick'[u].lease = lease[u] /\ tick'[u].job = controller[u]
          /\ pending'[u] = NoJob /\ lease[u].gen <= lease[u].gen
      BY <1>6 DEF ObserveAndStart, TypeOK, Lease
    <3> QED BY <1>0, <1>6, <2>1, <3>1 DEF ObserveAndStart, PathOf
  <2>2. CASE v # u
    BY <1>0, <1>6, <2>2, Elsewhere DEF ObserveAndStart, TypeOK
  <2> QED BY <2>1, <2>2
<1>7. CASE TickFails(u)
  <2>1. tick'[u].phase = "none" /\ pending'[u] = NoJob
    BY <1>7 DEF TickFails, TypeOK, NoTick
  <2>2. CASE v = u
    BY <1>0, <1>7, <2>1, <2>2 DEF TickFails, PathOf
  <2>3. CASE v # u
    BY <1>0, <1>7, <2>3, Elsewhere DEF TickFails, TypeOK
  <2> QED BY <2>2, <2>3
<1>8. ASSUME NEW m \in Modes, NEW failed \in BOOLEAN, ApplyCommand(u, m, failed)
      PROVE  PathOf(v)'
  <2>1. tick'[u].phase = "none" /\ mode'[u] = m
    BY <1>8 DEF ApplyCommand, TypeOK, NoTick
  <2>2. tick[u].job = controller[u] /\ m \in CommandModes(u, controller[u])
    BY <1>0, <1>8 DEF ApplyCommand, LeaseStillCurrent, PathOf
  <2>3. controller[u] = Return <=> m = "RETURN"
    <3>1. controller[u] \in ControllerJobs \ {NoJob}
      BY <1>0, <1>8, <2>2 DEF TypeOK, ApplyCommand, LeaseStillCurrent, PathOf
    <3> QED BY <2>2, <3>1, CommandModesShowReturn
  <2>4. CASE v = u
    BY <1>0, <1>8, <2>1, <2>3, <2>4 DEF ApplyCommand, PathOf
  <2>5. CASE v # u
    BY <1>0, <1>8, <2>5, Elsewhere DEF ApplyCommand, TypeOK
  <2> QED BY <2>4, <2>5
<1>9. CASE CommandRejected(u)
  <2>1. tick'[u].phase = "none"
    BY <1>9 DEF CommandRejected, TypeOK, NoTick
  <2>2. CASE v = u
    BY <1>0, <1>9, <2>1, <2>2 DEF CommandRejected, PathOf
  <2>3. CASE v # u
    BY <1>0, <1>9, <2>3, Elsewhere DEF CommandRejected, TypeOK
  <2> QED BY <2>2, <2>3
<1> QED
  BY <1>1, <1>2, <1>3, <1>4, <1>5, <1>6, <1>7, <1>8, <1>9

\* In every reachable state the lease, the controller, the pending task, the mode,
\* the remembered coverage and the acting controller of each UAV agree.
THEOREM CommandPathHolds == Spec => []CommandPath
<1>1. Init => CommandPath
  <2> SUFFICES ASSUME Init, NEW u \in UAVs PROVE PathOf(u)
    BY DEF CommandPath
  <2>1. /\ lease[u].owner = "SYSTEM" /\ controller[u] = NoJob /\ pending[u] = NoJob
        /\ mode[u] = "IDLE" /\ saved[u] = NoJob
    BY DEF Init
  <2>2. tick[u].phase = "none"
    BY DEF Init, NoTick
  <2> QED BY <2>1, <2>2, WorkIsWork DEF PathOf
<1>2. TypeOK /\ CommandPath /\ UNCHANGED vars => CommandPath'
  BY DEF vars, CommandPath, PathOf
<1>3. TypeOK /\ CommandPath /\ [Next]_vars => CommandPath'
  BY <1>2, OperationPath, TickPath DEF Next, BoundReached
<1> QED
  BY <1>1, <1>3, TypeCorrect, PTL DEF Spec

\* The five invariants of the runs, each for every value of the constants.
THEOREM CommandPathIsCoherent == Spec => []CommandPathCoherent
BY CommandPathHolds, CommandPathMeans, PTL

THEOREM PendingIsInstalled == Spec => []PendingBelongsToController
BY CommandPathHolds, CommandPathMeans, PTL

THEOREM ReturnShows == Spec => []ReturnIsVisible
BY CommandPathHolds, CommandPathMeans, PTL

THEOREM SavedIsInterrupted == Spec => []SavedCoverageIsInterrupted
BY CommandPathHolds, CommandPathMeans, PTL

THEOREM DecisionsAreBound == Spec => []DecisionBindsController
BY CommandPathHolds, CommandPathMeans, PTL

-------------------------------------------------------------------------------
\* No step takes a UAV from its return controller to work.  The assignment calls
\* are refused because the return is visible, the events because a returning UAV
\* is not under a HEURISTIC lease, a start because it has a controller.
THEOREM ReturnsAreNotPreempted == Spec => ReturnNotPreempted
<1>1. TypeOK /\ CommandPath /\ [Next]_vars =>
        [\A u \in UAVs : controller[u] = Return => lease'[u].owner \notin WorkOwners]_vars
  <2> SUFFICES ASSUME TypeOK, CommandPath, Next, NEW v \in UAVs, controller[v] = Return
               PROVE  lease'[v].owner \notin WorkOwners
    OBVIOUS
  <2>0. lease[v].owner = "SYSTEM" /\ mode[v] = "RETURN"
    <3>1. lease[v].owner \in Owners
      BY DEF TypeOK, Lease
    <3> QED BY <3>1, WorkIsWork DEF CommandPath, PathOf, Owners
  <2>1. ASSUME lease'[v] = lease[v] PROVE lease'[v].owner \notin WorkOwners
    BY <2>0, <2>1 DEF WorkOwners
  <2>2. ASSUME NEW u \in UAVs, HandOver(u, "SYSTEM") PROVE lease'[v].owner \notin WorkOwners
    <3>1. CASE v = u
      <4>1. lease'[v] = [owner |-> "SYSTEM", gen |-> lease[v].gen + 1]
        BY <2>2, <3>1, HandOverAt
      <4>2. lease'[v].owner = "SYSTEM"
        BY <4>1
      <4> QED BY <4>2 DEF WorkOwners
    <3>2. CASE v # u
      BY <2>1, <2>2, <3>2, HandOverAt
    <3> QED BY <3>1, <3>2
  <2>3. ASSUME NEW u \in UAVs, NEW owner, u # v, HandOver(u, owner)
        PROVE  lease'[v].owner \notin WorkOwners
    BY <2>1, <2>3, HandOverAt
  <2>4. ASSUME NEW u \in UAVs, NEW job, StartWork(u, job)
        PROVE  lease'[v].owner \notin WorkOwners
    BY <2>3, <2>4, WorkIsWork DEF StartWork
  <2>5. ASSUME NEW u \in UAVs, NEW job, AssignTask(u, job)
        PROVE  lease'[v].owner \notin WorkOwners
    BY <2>0, <2>3, <2>5 DEF AssignTask, MayBeTasked
  <2>6. ASSUME NEW batch \in SUBSET UAVs, NEW jobs, AssignBatch(batch, jobs)
        PROVE  lease'[v].owner \notin WorkOwners
    BY <2>0, <2>1, <2>6 DEF AssignBatch, AllMayBeTasked, MayBeTasked, TransitionBatch
  <2>7. ASSUME NEW u \in UAVs, NEW i, RestoreCoverage(u, i) \/ ConfirmTrack(u, i)
        PROVE  lease'[v].owner \notin WorkOwners
    BY <2>0, <2>3, <2>7 DEF RestoreCoverage, ConfirmTrack, Consumes
  <2>8. CASE Operation
    BY <2>1, <2>2, <2>4, <2>5, <2>6, <2>8
       DEF Operation, QueueEvent, RevokeForReturn, AssignSystemTask, PromoteToSystemHolding,
           ResetAfterRefuel, Quarantine
  <2>9. CASE ControlTick
    BY <2>1, <2>2, <2>7, <2>9
       DEF ControlTick, TickBegins, IgnoreEvent, ReleaseToHolding, ObserveAndStart, TickFails,
           ApplyCommand, CommandRejected
  <2>10. CASE BoundReached
    BY <2>1, <2>10 DEF BoundReached, vars
  <2> QED BY <2>8, <2>9, <2>10 DEF Next
<1> QED
  BY <1>1, TypeCorrect, CommandPathHolds, PTL DEF Spec, ReturnNotPreempted

\* A command only reaches the airframe through the controller and under the lease
\* that are current at that moment.
THEOREM CommandsFenced == Spec => CommandsAreFenced
<1>1. TypeOK /\ CommandPath /\ [Next]_vars =>
        [\A u \in UAVs :
           applied'[u] # applied[u] /\ applied'[u] # NoCommand =>
             applied'[u] = [job |-> controller[u], gen |-> lease[u].gen]]_vars
  <2> SUFFICES ASSUME TypeOK, CommandPath, Next, NEW v \in UAVs,
                      applied'[v] # applied[v], applied'[v] # NoCommand
               PROVE  applied'[v] = [job |-> controller[v], gen |-> lease[v].gen]
    OBVIOUS
  <2>1. ASSUME NEW u \in UAVs, applied' = [applied EXCEPT ![u] = NoCommand] PROVE FALSE
    BY <2>1 DEF TypeOK
  <2>2. ASSUME Operation PROVE FALSE
    BY <2>1, <2>2 DEF Operation, QueueEvent, StartWork, AssignTask, AssignBatch, RevokeForReturn,
                      AssignSystemTask, PromoteToSystemHolding, ResetAfterRefuel, Quarantine
  <2>3. ASSUME NEW u \in UAVs, NEW m, NEW failed, ApplyCommand(u, m, failed)
        PROVE  applied'[v] = [job |-> controller[v], gen |-> lease[v].gen]
    <3>1. u = v
      BY <2>3 DEF ApplyCommand, TypeOK
    <3>2. tick[u].job = controller[u] /\ tick[u].lease = lease[u]
      BY <2>3 DEF ApplyCommand, LeaseStillCurrent, CommandPath, PathOf
    <3> QED BY <2>3, <3>1, <3>2 DEF ApplyCommand, TypeOK
  <2>4. CASE ControlTick
    BY <2>3, <2>4 DEF ControlTick, TickBegins, IgnoreEvent, RestoreCoverage, ConfirmTrack,
                      ReleaseToHolding, ObserveAndStart, TickFails, CommandRejected
  <2>5. CASE BoundReached
    BY <2>5 DEF BoundReached, vars
  <2> QED BY <2>2, <2>4, <2>5 DEF Next
<1> QED
  BY <1>1, TypeCorrect, CommandPathHolds, PTL DEF Spec, CommandsAreFenced

\* A completion, failure or cancellation that was queued under an older lease ends
\* no coverage task, whatever task ids are used again.
THEOREM CoverageEndsByOwnEvents == Spec => CoverageEndsByItsOwnEvents
<1>1. TypeOK =>
        \A u \in UAVs, i \in 1 .. MaxQueue :
          ReleaseToHolding(u, i) /\ controller[u] \in CoverageJobs =>
            \/ tick[u].due[i].kind = "target_lost"
            \/ tick[u].due[i].gen = lease[u].gen
  <2> SUFFICES ASSUME TypeOK, NEW u \in UAVs, NEW i \in 1 .. MaxQueue,
                      ReleaseToHolding(u, i), controller[u] \in CoverageJobs,
                      tick[u].due[i].kind # "target_lost"
               PROVE  tick[u].due[i].gen = lease[u].gen
    OBVIOUS
  <2> DEFINE e == tick[u].due[i]
  <2>1. e.kind \in EventKinds /\ Matches(e, u)
    BY TakeEventType DEF ReleaseToHolding, Consumes, Event
  <2>2. controller[u].type = "COVERAGE"
    BY JobKinds
  <2>3. e.kind # "group_released" \/ controller[u] # Track(e.job.of)
    BY <2>2 DEF Track, Job
  <2> HIDE DEF e
  <2>4. CASE e.kind \in {"search_complete", "duplicate_task_cancelled"}
    BY <2>1, <2>4 DEF Matches, e
  <2>5. CASE e.kind = "task_failed"
    BY <2>1, <2>2, <2>5 DEF Matches, e
  <2>6. CASE e.kind \in {"type_ii_confirmed", "type_i_released"}
    BY <2>1, <2>2, <2>6 DEF Matches
  <2>7. CASE e.kind = "group_released"
    BY <2>1, <2>3, <2>7 DEF Matches
  <2>8. e.kind # "target_lost"
    BY DEF e
  <2> QED BY <2>1, <2>4, <2>5, <2>6, <2>7, <2>8 DEF EventKinds
<1> QED
  BY <1>1, TypeCorrect, PTL DEF CoverageEndsByItsOwnEvents

-------------------------------------------------------------------------------
\* Every step of the coordinator moves leases as the lease table allows.
THEOREM ImplementsTable == Spec => ImplementsLeaseTable
<1>1. Init => Table!Init
  BY DEF Init, Table!Init
<1>2. TypeOK /\ [Next]_vars => [Table!Next]_lease
  <2> SUFFICES ASSUME TypeOK, [Next]_vars PROVE [Table!Next]_lease
    OBVIOUS
  <2>1. ASSUME NEW u \in UAVs, NEW owner \in Owners, HandOver(u, owner),
               owner = "LEARNING" => lease[u].owner = "SYSTEM"
        PROVE  Table!Next
    <3> DEFINE grant == [v \in UAVs |-> owner]
    <3>1. grant \in [UAVs -> Table!Owners] /\ {u} \in SUBSET UAVs
      BY DEF Table!Owners, Owners
    <3>2. lease' = [v \in UAVs |-> IF v \in {u} THEN [owner |-> grant[v], gen |-> lease[v].gen + 1]
                                               ELSE lease[v]]
      BY <2>1 DEF HandOver, TypeOK
    <3>3. \A v \in {u} : grant[v] = "LEARNING" => lease[v].owner = "SYSTEM"
      BY <2>1
    <3> HIDE DEF grant
    <3>4. Table!Move({u}, grant)
      BY <3>2, <3>3 DEF Table!Move
    <3> QED BY <3>1, <3>4 DEF Table!Next
  <2>2. ASSUME NEW batch \in SUBSET UAVs, NEW jobs, AssignBatch(batch, jobs) PROVE Table!Next
    <3> DEFINE grant == [v \in UAVs |-> "HEURISTIC"]
    <3>1. grant \in [UAVs -> Table!Owners]
      BY DEF Table!Owners
    <3>2. lease' = [v \in UAVs |-> IF v \in batch
                                     THEN [owner |-> grant[v], gen |-> lease[v].gen + 1]
                                     ELSE lease[v]]
      BY <2>2 DEF AssignBatch, TransitionBatch
    <3>3. \A v \in batch : grant[v] # "LEARNING"
      OBVIOUS
    <3> HIDE DEF grant
    <3>4. Table!Move(batch, grant)
      BY <3>2, <3>3 DEF Table!Move
    <3> QED BY <3>1, <3>4 DEF Table!Next
  <2>3. ASSUME NEW u \in UAVs, HandOver(u, "SYSTEM") \/ HandOver(u, "HEURISTIC")
        PROVE  Table!Next
    BY <2>1, <2>3 DEF Owners
  <2>4. ASSUME NEW u \in UAVs, NEW job, StartWork(u, job) PROVE Table!Next
    <3>1. CASE u \in Learning
      BY <2>1, <2>4, <3>1 DEF StartWork, Owners
    <3>2. CASE u \notin Learning
      BY <2>3, <2>4, <3>2 DEF StartWork
    <3> QED BY <3>1, <3>2
  <2>5. CASE Operation
    BY <2>2, <2>3, <2>4, <2>5
       DEF Operation, QueueEvent, AssignTask, RevokeForReturn, AssignSystemTask,
           PromoteToSystemHolding, ResetAfterRefuel, Quarantine
  <2>6. CASE ControlTick
    BY <2>3, <2>6
       DEF ControlTick, TickBegins, IgnoreEvent, RestoreCoverage, ConfirmTrack, ReleaseToHolding,
           ObserveAndStart, TickFails, ApplyCommand, CommandRejected
  <2>7. CASE UNCHANGED vars
    BY <2>7 DEF vars
  <2> QED BY <2>5, <2>6, <2>7 DEF Next, BoundReached
<1> QED
  BY <1>1, <1>2, TypeCorrect, PTL DEF Spec, ImplementsLeaseTable, Table!Spec
===============================================================================
