---------------------------- MODULE AgentBroker ----------------------------
(***************************************************************************)
(* The queue between the scheduler and the planning agent                  *)
(* (src/adapter/broker.py).  The scheduler thread enqueues a selection run *)
(* and blocks until the run is done or its deadline passes; a worker       *)
(* process claims runs over HTTP, keeps a lease with heartbeats, submits   *)
(* plans and reports the end of the run; operators send messages, cancel   *)
(* runs, decide plans and change the autonomy mode.                        *)
(*                                                                         *)
(* All HTTP handlers run on one event loop, so each is one step; the       *)
(* scheduler thread interleaves with them through the broker's lock.  Wall *)
(* clock limits (a lease, a deadline) may pass at any time.  Simulation    *)
(* time stands still while the scheduler thread waits for an answer.       *)
(***************************************************************************)
EXTENDS Integers, FiniteSets

CONSTANTS
    MaxRuns,        \* bound: runs ever enqueued
    MaxPlans,       \* bound: plans ever submitted
    MaxItems,       \* bound: operator inputs, numbered in order of arrival
    MaxJobs,        \* runs the broker keeps (_MAX_JOBS)
    MaxFeedback,    \* inputs one run can take (_MAX_FEEDBACK_PER_RUN)
    UsedModes,      \* bound: the autonomy modes that are used
    Selections,     \* selections the agent can submit
    Risky,          \* the selections that preempt or are not routine
    Domains,        \* execution domains
    DomainOf,       \* the execution domain of each selection
    NoSelection, NoItem, NoRun, NoPlan

ASSUME BrokerAssumption ==
    /\ {MaxRuns, MaxPlans, MaxItems, MaxJobs, MaxFeedback} \subseteq Nat \ {0}
    /\ UsedModes \subseteq {"full", "assisted", "request"}
    /\ Risky \subseteq Selections
    /\ DomainOf \in [Selections -> Domains]
    /\ NoSelection \notin Selections
    /\ NoItem \notin Nat /\ NoRun \notin Nat /\ NoPlan \notin Nat

Runs == 1..MaxRuns
Plans == 1..MaxPlans
Items == 1..MaxItems
Ended == {"completed", "failed", "cancelled"}

VARIABLES
    jobs,           \* the run of each id
    plans,          \* the plan of each id
    grants,         \* domains approved for the session
    mode,           \* the autonomy mode
    awaiting,       \* the run the scheduler thread waits for
    received,       \* the last selection the scheduler got, and from which run
    worker,         \* what the worker process remembers
    said            \* operator inputs so far

vars == <<jobs, plans, grants, mode, awaiting, received, worker, said>>

UnusedJob ==
    [status |-> "unused", kind |-> "operator", text |-> NoItem, feedback |-> {},
     accepted |-> {}, result |-> NoSelection, done |-> FALSE, overdue |-> FALSE,
     error |-> ""]

UnusedPlan ==
    [status |-> "unused", run |-> NoRun, selection |-> NoSelection, by |-> "",
     session |-> FALSE, overdue |-> FALSE]

IdleWorker == [run |-> NoRun, polls |-> NoPlan, delivered |-> {}]

Init ==
    /\ jobs = [r \in Runs |-> UnusedJob]
    /\ plans = [p \in Plans |-> UnusedPlan]
    /\ grants = {}
    /\ mode \in UsedModes
    /\ awaiting = NoRun
    /\ received = [run |-> NoRun, selection |-> NoSelection]
    /\ worker = IdleWorker
    /\ said = 0

-----------------------------------------------------------------------------
(* The job list.  Only the last MaxJobs runs can be looked up: enqueue     *)
(* truncates the list.                                                     *)

Used(js) == Cardinality({r \in Runs : js[r].status # "unused"})

Listed(js) == {r \in Runs : js[r].status # "unused" /\ r > Used(js) - MaxJobs}

ListedIn(js, s) == {r \in Listed(js) : js[r].status = s}

HasRoom(js, n) == Used(js) + n <= MaxRuns

Enqueue(js, k, t) ==
    [js EXCEPT ![Used(js) + 1] =
        [UnusedJob EXCEPT !.status = "queued", !.kind = k, !.text = t]]

(* (mutant) *)
RequeueWrongItem(js, items) ==
    LET place(i) == Used(js) + Cardinality({k \in items : k <= i}) IN
    [r \in Runs |->
        IF \E i \in items : place(i) = r
        THEN [UnusedJob EXCEPT !.status = "queued", !.text = MaxItems + 1]
        ELSE js[r]]

(* Each input becomes an operator run of its own, oldest first.            *)
RequeueAll(js, items) ==
    LET place(i) == Used(js) + Cardinality({k \in items : k <= i}) IN
    [r \in Runs |->
        IF \E i \in items : place(i) = r
        THEN [UnusedJob EXCEPT !.status = "queued",
                               !.text = CHOOSE i \in items : place(i) = r]
        ELSE js[r]]

ExpireLeases(js) ==
    [r \in Runs |->
        IF r \in ListedIn(js, "running") /\ js[r].overdue
        THEN [js[r] EXCEPT !.status = "failed", !.error = "lease",
                           !.result = NoSelection, !.done = TRUE]
        ELSE js[r]]

(* (mutant) *)
CancelKeepsStatus(js, r) ==
    IF r \in ListedIn(js, "queued") \cup ListedIn(js, "running")
    THEN [js EXCEPT ![r].feedback = {}, ![r].result = NoSelection, ![r].done = TRUE]
    ELSE js

Cancel(js, r) ==
    IF r \in ListedIn(js, "queued") \cup ListedIn(js, "running")
    THEN [js EXCEPT ![r].status = "cancelled", ![r].feedback = {},
                    ![r].result = NoSelection, ![r].done = TRUE]
    ELSE js

(* The run the broker accepts requests for: listed and still running.      *)
Active(js, r) == r \in ListedIn(js, "running")

(* (mutant) *)
ExpireNoPlans(ps) == ps

ExpirePlans(ps) ==
    [p \in Plans |->
        IF ps[p].status = "pending_approval" /\ ps[p].overdue
        THEN [ps[p] EXCEPT !.status = "expired", !.by = "timeout"]
        ELSE ps[p]]

PendingPlans(ps) == {p \in Plans : ps[p].status = "pending_approval"}

-----------------------------------------------------------------------------
(* The scheduler thread.                                                   *)

(* provide_selection posts a run and blocks.  No selection run can still   *)
(* be queued then, so nothing coalesces.                                   *)
ProvideSelection ==
    /\ awaiting = NoRun
    /\ HasRoom(jobs, 1)
    /\ jobs' = Enqueue(jobs, "selection", NoItem)
    /\ awaiting' = Used(jobs) + 1
    /\ received' = [run |-> NoRun, selection |-> NoSelection]
    /\ UNCHANGED <<plans, grants, mode, worker, said>>

(* The wait ends because the run is done.                                  *)
AwaitReturns ==
    /\ awaiting # NoRun
    /\ jobs[awaiting].done
    /\ received' = [run |-> awaiting, selection |-> jobs[awaiting].result]
    /\ awaiting' = NoRun
    /\ UNCHANGED <<jobs, plans, grants, mode, worker, said>>

(* The deadline passes, or no worker shows up for a queued run.            *)
AwaitTimesOut ==
    /\ awaiting # NoRun
    /\ jobs' = Cancel(jobs, awaiting)
    /\ received' = [run |-> awaiting, selection |-> NoSelection]
    /\ awaiting' = NoRun
    /\ UNCHANGED <<plans, grants, mode, worker, said>>

-----------------------------------------------------------------------------
(* The worker process.                                                     *)

(* Operator runs first, then the oldest.  defer_routine filters nothing:   *)
(* every kind of run outranks a routine one.                               *)
Claimable(js, r) ==
    /\ r \in ListedIn(js, "queued")
    /\ \A q \in ListedIn(js, "queued") :
        \/ js[r].kind = "operator" /\ js[q].kind = "selection"
        \/ js[r].kind = js[q].kind /\ r <= q

(* (mutant) *)
MayClaimOverPlans(js, ps) == ListedIn(js, "running") = {}

(* Nothing is claimed while a run is running or a plan awaits approval.    *)
MayClaim(js, ps) == ListedIn(js, "running") = {} /\ PendingPlans(ps) = {}

ClaimNext ==
    LET js == ExpireLeases(jobs)
        ps == ExpirePlans(plans)
    IN  /\ worker.run = NoRun
        /\ plans' = ps
        /\ IF MayClaim(js, ps) /\ ListedIn(js, "queued") # {}
           THEN \E r \in Runs :
                /\ Claimable(js, r)
                /\ jobs' = [js EXCEPT ![r].status = "running", ![r].overdue = FALSE]
                /\ worker' = [IdleWorker EXCEPT !.run = r]
           ELSE jobs' = js /\ UNCHANGED worker
        /\ UNCHANGED <<grants, mode, awaiting, received, said>>

(* A heartbeat renews the lease, acknowledges what the session took and    *)
(* brings the feedback that is waiting.  A run that is not active any more *)
(* is abandoned.                                                           *)
Heartbeat ==
    LET r == worker.run
        acked == worker.delivered \cap jobs[r].feedback
    IN  /\ r # NoRun
        /\ IF Active(jobs, r)
           THEN /\ jobs' = [jobs EXCEPT ![r].overdue = FALSE,
                                        ![r].accepted = @ \cup acked,
                                        ![r].feedback = @ \ acked]
                /\ worker' = [worker EXCEPT !.delivered = jobs[r].feedback \ acked]
           ELSE worker' = IdleWorker /\ UNCHANGED jobs
        /\ UNCHANGED <<plans, grants, mode, awaiting, received, said>>

(* (mutant) *)
GrantCoversAnything(s) == grants # {}

GrantCovers(s) == DomainOf[s] \in grants

Autonomous(s) == mode = "full" \/ (mode = "assisted" /\ s \notin Risky)

SubmitPlan(r, s, p) ==
    [UnusedPlan EXCEPT
        !.status = IF Autonomous(s) \/ GrantCovers(s)
                   THEN "auto_approved" ELSE "pending_approval",
        !.run = r, !.selection = s,
        !.by = CASE Autonomous(s) -> "autonomy"
                 [] ~Autonomous(s) /\ GrantCovers(s) -> "session_grant"
                 [] OTHER -> ""]

(* The tool stores the selection as the run's result whether or not the    *)
(* plan needs an approval; the worker then polls a pending plan.           *)
SubmitSelection(s) ==
    LET r == worker.run IN
    /\ r # NoRun /\ worker.polls = NoPlan
    /\ Active(jobs, r) /\ jobs[r].kind = "selection"
    /\ \E p \in Plans :
        /\ plans[p].status = "unused"
        /\ \A q \in 1..(p - 1) : plans[q].status # "unused"
        /\ plans' = [plans EXCEPT ![p] = SubmitPlan(r, s, p)]
        /\ worker' = [worker EXCEPT !.polls =
            IF plans'[p].status = "pending_approval" THEN p ELSE NoPlan]
    /\ jobs' = [jobs EXCEPT ![r].result = s]
    /\ UNCHANGED <<grants, mode, awaiting, received, said>>

(* The poll sees a decision, or the request fails and the tool call ends   *)
(* with an error while the plan is still pending.                          *)
PollEnds ==
    /\ worker.polls # NoPlan
    /\ worker' = [worker EXCEPT !.polls = NoPlan]
    /\ UNCHANGED <<jobs, plans, grants, mode, awaiting, received, said>>

(* (mutant) *)
LeftoverUnsent(j, failed) == j.feedback

(* complete: input the run did not consume becomes operator runs.          *)
Leftover(j, failed) == IF failed THEN j.accepted \cup j.feedback ELSE j.feedback

(* (mutant) *)
CompleteKeepsFeedback(js, r, failed) ==
    RequeueAll(
        [js EXCEPT ![r].status = IF failed THEN "failed" ELSE "completed",
                   ![r].error = IF failed THEN "agent" ELSE "",
                   ![r].done = TRUE],
        Leftover(js[r], failed))

Complete(js, r, failed) ==
    RequeueAll(
        [js EXCEPT ![r].status = IF failed THEN "failed" ELSE "completed",
                   ![r].error = IF failed THEN "agent" ELSE "",
                   ![r].done = TRUE, ![r].feedback = {}, ![r].accepted = {}],
        Leftover(js[r], failed))

(* The worker reports the end of its run; a run that failed keeps its      *)
(* result.  The event of a run that is not active is refused.              *)
RunEnds(failed) ==
    LET r == worker.run IN
    /\ r # NoRun
    /\ failed \/ worker.polls = NoPlan
    /\ worker' = IdleWorker
    /\ IF Active(jobs, r)
       THEN /\ HasRoom(jobs, Cardinality(Leftover(jobs[r], failed)))
            /\ jobs' = Complete(jobs, r, failed)
       ELSE UNCHANGED jobs
    /\ UNCHANGED <<plans, grants, mode, awaiting, received, said>>

(* The process dies; the supervisor starts it again.                       *)
WorkerDies ==
    /\ worker # IdleWorker
    /\ worker' = IdleWorker
    /\ UNCHANGED <<jobs, plans, grants, mode, awaiting, received, said>>

-----------------------------------------------------------------------------
(* The operators.                                                          *)

(* Feedback for the running run, otherwise a run of its own; refused when  *)
(* the running run has taken its share.                                    *)
MayHear(js) ==
    \A r \in ListedIn(js, "running") :
        Cardinality(js[r].feedback) + Cardinality(js[r].accepted) < MaxFeedback

Hear(js, i) ==
    IF ListedIn(js, "running") = {} THEN Enqueue(js, "operator", i)
    ELSE [r \in Runs |->
            IF r \in ListedIn(js, "running")
            THEN [js[r] EXCEPT !.feedback = @ \cup {i}] ELSE js[r]]

QueueHuman ==
    LET js == ExpireLeases(jobs) IN
    /\ said < MaxItems /\ HasRoom(js, 1)
    /\ IF MayHear(js)
       THEN said' = said + 1 /\ jobs' = Hear(js, said + 1)
       ELSE jobs' = js /\ UNCHANGED said
    /\ UNCHANGED <<plans, grants, mode, awaiting, received, worker>>

CancelRun(r) ==
    /\ r \in ListedIn(jobs, "queued") \cup ListedIn(jobs, "running")
    /\ jobs' = Cancel(jobs, r)
    /\ UNCHANGED <<plans, grants, mode, awaiting, received, worker, said>>

SetAutonomyMode(m) ==
    /\ mode' = m
    /\ grants' = {}
    /\ UNCHANGED <<jobs, plans, awaiting, received, worker, said>>

(* (mutant) *)
MayDecideAny(p) == plans[p].status # "unused"

MayDecide(p) == ExpirePlans(plans)[p].status = "pending_approval"

(* An approval releases the waiting scheduler while the run goes on.       *)
ApprovePlan(p, session) ==
    /\ MayDecide(p)
    /\ plans' = [ExpirePlans(plans) EXCEPT ![p].status = "approved",
                    ![p].by = "operator", ![p].session = session]
    /\ grants' = IF session THEN {DomainOf[plans[p].selection]} ELSE grants
    /\ jobs' = [r \in Runs |->
                    IF r = plans[p].run /\ r \in Listed(jobs)
                    THEN [jobs[r] EXCEPT !.done = TRUE] ELSE jobs[r]]
    /\ UNCHANGED <<mode, awaiting, received, worker, said>>

(* (mutant) *)
RejectedSilently(js, r) ==
    IF r \in Listed(js)
    THEN [js EXCEPT ![r].status = "failed", ![r].error = "rejected",
                    ![r].result = NoSelection]
    ELSE js

Rejected(js, r) ==
    IF r \in Listed(js)
    THEN [js EXCEPT ![r].status = "failed", ![r].error = "rejected",
                    ![r].result = NoSelection, ![r].done = TRUE]
    ELSE js

(* reject and adjust; a comment goes back to the agent as operator input.  *)
RejectPlan(p, comment) ==
    LET js == Rejected(jobs, plans[p].run) IN
    /\ MayDecide(p)
    /\ plans' = [ExpirePlans(plans) EXCEPT ![p].status = "rejected", ![p].by = "operator"]
    /\ IF comment
       THEN /\ said < MaxItems /\ HasRoom(js, 1)
            /\ IF MayHear(ExpireLeases(js))
               THEN said' = said + 1 /\ jobs' = Hear(ExpireLeases(js), said + 1)
               ELSE jobs' = ExpireLeases(js) /\ UNCHANGED said
       ELSE jobs' = js /\ UNCHANGED said
    /\ UNCHANGED <<grants, mode, awaiting, received, worker>>

(* Listing the plans, the status or the state frame sweeps the plans.      *)
SweepPlans ==
    /\ plans' = ExpirePlans(plans)
    /\ plans' # plans
    /\ UNCHANGED <<jobs, grants, mode, awaiting, received, worker, said>>

-----------------------------------------------------------------------------
(* Time.                                                                   *)

LeaseRunsOut(r) ==
    /\ r \in ListedIn(jobs, "running") /\ ~jobs[r].overdue
    /\ jobs' = [jobs EXCEPT ![r].overdue = TRUE]
    /\ UNCHANGED <<plans, grants, mode, awaiting, received, worker, said>>

(* Simulated minutes pass, though not while the simulation waits: the ten    *)
(* of plan n are over, and so are those of the plans before it.              *)
SimTimePasses ==
    /\ awaiting = NoRun
    /\ \E n \in PendingPlans(plans) :
         /\ ~plans[n].overdue
         /\ plans' = [p \in Plans |->
                         IF p \in PendingPlans(plans) /\ p <= n
                         THEN [plans[p] EXCEPT !.overdue = TRUE] ELSE plans[p]]
    /\ UNCHANGED <<jobs, grants, mode, awaiting, received, worker, said>>

Next ==
    \/ ProvideSelection \/ AwaitReturns \/ AwaitTimesOut
    \/ ClaimNext \/ Heartbeat \/ PollEnds \/ WorkerDies
    \/ \E s \in Selections : SubmitSelection(s)
    \/ \E failed \in BOOLEAN : RunEnds(failed)
    \/ QueueHuman
    \/ \E r \in Runs : CancelRun(r) \/ LeaseRunsOut(r)
    \/ \E m \in UsedModes : SetAutonomyMode(m)
    \/ \E p \in Plans, b \in BOOLEAN : ApprovePlan(p, b) \/ RejectPlan(p, b)
    \/ SweepPlans \/ SimTimePasses

Spec == Init /\ [][Next]_vars

-----------------------------------------------------------------------------
JobType ==
    [status : {"unused", "queued", "running"} \cup Ended,
     kind : {"operator", "selection"}, text : Items \cup {NoItem},
     feedback : SUBSET Items, accepted : SUBSET Items,
     result : Selections \cup {NoSelection}, done : BOOLEAN, overdue : BOOLEAN,
     error : {"", "lease", "agent", "rejected"}]

PlanType ==
    [status : {"unused", "pending_approval", "auto_approved", "approved",
               "rejected", "expired"},
     run : Runs \cup {NoRun}, selection : Selections \cup {NoSelection},
     by : {"", "autonomy", "session_grant", "operator", "timeout"},
     session : BOOLEAN, overdue : BOOLEAN]

(* Types of the broker's state, the worker's memory and the scheduler's.   *)
TypeOK ==
    /\ jobs \in [Runs -> JobType]
    /\ plans \in [Plans -> PlanType]
    /\ grants \in SUBSET Domains
    /\ mode \in UsedModes
    /\ awaiting \in Runs \cup {NoRun}
    /\ received \in [run : Runs \cup {NoRun}, selection : Selections \cup {NoSelection}]
    /\ worker \in [run : Runs \cup {NoRun}, polls : Plans \cup {NoPlan},
                   delivered : SUBSET Items]
    /\ said \in 0..MaxItems

(* At most one run is leased, also after a lease was lost and the old      *)
(* worker still talks, and plans that await approval stem from one run:    *)
(* the agent plans nothing new while an operator still has to decide       *)
(* (claim_next).                                                           *)
OneRunAtATime ==
    /\ \A q, r \in ListedIn(jobs, "running") : q = r
    /\ \A p, q \in PendingPlans(plans) : plans[p].run = plans[q].run

(* However a run ends (report, lost lease, cancellation, rejection), its   *)
(* waiter is woken: no path leaves the scheduler thread blocked.           *)
EndedRunsAreDone == \A r \in Runs : jobs[r].status \in Ended => jobs[r].done

(* A run that is still running wakes its waiter only by an approval.       *)
EarlyAnswersAreApproved ==
    \A r \in Runs :
        jobs[r].status = "running" /\ jobs[r].done =>
            \E p \in Plans : plans[p].run = r /\ plans[p].status = "approved"

(* Where an operator input is held: as feedback of a run, as the text of   *)
(* one, or nowhere any more.                                               *)
Holders(i) ==
    {r \in Runs : i \in jobs[r].feedback \cup jobs[r].accepted \/ jobs[r].text = i}

(* Requeueing never duplicates an operator input (complete).               *)
InputHeldOnce == \A i \in Items : Cardinality(Holders(i)) <= 1

(* A plan approved without autonomy rests on an operator's session         *)
(* approval of the same domain (_grant_covers).                            *)
GrantedPlansAreBacked ==
    \A p \in Plans : plans[p].by = "session_grant" =>
        \E q \in Plans :
            /\ plans[q].session
            /\ DomainOf[plans[q].selection] = DomainOf[plans[p].selection]

(* A decision about a plan is final: rejection, approval and expiry are    *)
(* never revised (decide_plan, _expire_plans).                             *)
DecisionsAreFinal ==
    [][\A p \in Plans :
         plans[p].status \notin {"unused", "pending_approval"} =>
             plans'[p].status = plans[p].status]_vars

(* When the worker reports the end of a run, every input the run did not   *)
(* consume is queued again as a run of its own (complete, line 412).       *)
ReportedRunsReturnInput ==
    [][\A r \in Runs :
         /\ jobs[r].status = "running"
         /\ jobs'[r].status = "completed" \/ jobs'[r].error = "agent"
         => \A i \in jobs[r].feedback \cup
                 (IF jobs'[r].status = "failed" THEN jobs[r].accepted ELSE {}) :
                \E q \in Runs : jobs'[q].text = i /\ jobs'[q].status = "queued"]_vars

-----------------------------------------------------------------------------
(* What the code's own texts say and the code does not do.                 *)

(* schedule_adapter.py:326: "On success the selection is committed after   *)
(* operator approval when the autonomy mode requires it."                  *)
OnlyApprovedIsCommitted ==
    [][received' # received /\ received'.selection # NoSelection =>
         \E p \in Plans :
             /\ plans[p].run = received'.run
             /\ plans[p].selection = received'.selection
             /\ plans[p].status \in {"approved", "auto_approved"}]_vars

(* broker.py:412: "Operator input the run never consumed is requeued as    *)
(* its own job so a completed/failed run cannot silently drop it."         *)
NoRunDropsInput ==
    \A r \in Runs : jobs[r].status \in {"completed", "failed"} => jobs[r].feedback = {}

-----------------------------------------------------------------------------
(* Fairness: the worker polls every second and the supervisor restarts it; *)
(* it leaves the run it works on (a turn has a deadline, a cancelled run   *)
(* is dropped at the next heartbeat, a process may die); a run nobody works*)
(* on loses its lease; the scheduler's wait is bounded; simulation time    *)
(* moves between two decisions.                                            *)
Fairness ==
    /\ WF_vars(ClaimNext)
    /\ WF_vars(worker.run # NoRun /\ (WorkerDies \/ \E failed \in BOOLEAN : RunEnds(failed)))
    /\ WF_vars(\E r \in Runs : LeaseRunsOut(r) /\ worker.run # r)
    /\ WF_vars(AwaitReturns \/ AwaitTimesOut)
    /\ SF_vars(SimTimePasses)

FairSpec == Spec /\ Fairness

(* An operator's message does not wait for ever: neither open approvals    *)
(* nor a dead worker nor a lost lease starve it (claim_next).  Only newer   *)
(* jobs can push it off the end of the list (enqueue).                     *)
OperatorInputIsTaken ==
    \A r \in Runs :
        (jobs[r].kind = "operator" /\ jobs[r].status = "queued") ~>
            (jobs[r].status # "queued" \/ Used(jobs) - r >= MaxJobs)
=============================================================================
