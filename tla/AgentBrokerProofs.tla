--------------------------- MODULE AgentBrokerProofs ---------------------------
(*****************************************************************************)
(* Proofs about AgentBroker, for every number of runs, plans and operator    *)
(* inputs, every length of the job list and every autonomy mode.             *)
(*****************************************************************************)
EXTENDS AgentBroker, FiniteSetTheorems, TLAPS

-------------------------------------------------------------------------------
(* The job list by itself. *)

\* Runs are numbered without gaps, so Used(js) is the last one.
Dense(js) == \A r \in Runs : js[r].status # "unused" <=> r <= Used(js)

\* A run nobody worked on yet is as it was posted; a run that goes on has no error
\* yet; a run that ended has woken its waiter; one run is leased.
RunsFit(js) ==
    /\ \A r \in Runs :
         /\ js[r].status = "unused" => js[r] = UnusedJob
         /\ js[r].status = "queued" => /\ ~js[r].done /\ js[r].error = ""
                                       /\ js[r].feedback = {} /\ js[r].accepted = {}
         /\ js[r].status = "running" => js[r].error = ""
         /\ js[r].status \in Ended => js[r].done
    /\ \A q, r \in ListedIn(js, "running") : q = r

JobsFit(js) == js \in [Runs -> JobType] /\ Dense(js) /\ RunsFit(js)

\* The inputs a run holds besides its own text.
Taken(j) == j.feedback \cup j.accepted

\* Only inputs that arrived are held, each by one run and there in one place.
Held(js, n) ==
    /\ \A r \in Runs : /\ js[r].text # NoItem => js[r].text <= n
                       /\ \A i \in Taken(js[r]) : i <= n
                       /\ js[r].text \notin Taken(js[r])
    /\ \A i \in Items : \A q, r \in Runs :
         /\ i \in Taken(js[q]) \cup {js[q].text}
         /\ i \in Taken(js[r]) \cup {js[r].text}
         => q = r

-------------------------------------------------------------------------------
(* Runs, plans and grants. *)

\* A plan is of a run that was claimed, plans that await approval are of one run, the
\* leased one if there is one, and a run is answered early by an approval.
PlansFit(js, ps) ==
    /\ \A p \in Plans : /\ ps[p].run # NoRun => js[ps[p].run].status \notin {"unused", "queued"}
                        /\ ps[p].status # "unused" =>
                               ps[p].run # NoRun /\ ps[p].selection # NoSelection
                        /\ ps[p].session => ps[p].status = "approved"
                        /\ ps[p].by = "session_grant" => ps[p].status # "unused"
    /\ \A p, q \in PendingPlans(ps) : ps[p].run = ps[q].run
    /\ \A r \in ListedIn(js, "running"), p \in PendingPlans(ps) : ps[p].run = r
    /\ \A r \in Runs : js[r].status = "running" /\ js[r].done =>
         \E p \in Plans : ps[p].run = r /\ ps[p].status = "approved"

\* Every granted domain was approved for the session by an operator.
Backed(ps, d) == \E q \in Plans : ps[q].session /\ DomainOf[ps[q].selection] = d

GrantsFit(ps, gs) ==
    /\ \A d \in gs : Backed(ps, d)
    /\ \A p \in Plans : ps[p].by = "session_grant" => Backed(ps, DomainOf[ps[p].selection])

IInv ==
    /\ TypeOK
    /\ JobsFit(jobs)
    /\ Held(jobs, said)
    /\ PlansFit(jobs, plans)
    /\ GrantsFit(plans, grants)

-------------------------------------------------------------------------------
(* Counting runs. *)

LEMMA Bounds ==
    /\ MaxRuns \in Nat \ {0} /\ MaxPlans \in Nat \ {0} /\ MaxItems \in Nat \ {0}
    /\ MaxJobs \in Nat \ {0}
    /\ NoItem \notin Items /\ NoRun \notin Runs /\ NoPlan \notin Plans
    /\ NoSelection \notin Selections
    /\ Runs \subseteq Nat /\ Items \subseteq Nat /\ Plans \subseteq Nat
BY BrokerAssumption DEF Runs, Items, Plans

\* Runs without gaps are as many as the last one's number.
LEMMA UsedIsLast ==
    ASSUME NEW js, NEW n \in 0..MaxRuns,
           \A r \in Runs : js[r].status # "unused" <=> r <= n
    PROVE  Used(js) = n
<1>1. {r \in Runs : js[r].status # "unused"} = 1..n
  BY Bounds DEF Runs
<1>2. Cardinality(1..n) = n
  BY FS_Interval, Bounds
<1>. QED  BY <1>1, <1>2 DEF Used

\* Without gaps, their number is a number of a run, or nothing was posted yet.
LEMMA UsedType ==
    ASSUME NEW js
    PROVE  Used(js) \in 0..MaxRuns
<1>. DEFINE S == {r \in Runs : js[r].status # "unused"}
<1>1. IsFiniteSet(Runs) /\ Cardinality(Runs) = MaxRuns
  BY FS_Interval, Bounds DEF Runs
<1>2. S \in SUBSET Runs
  OBVIOUS
<1>3. IsFiniteSet(S) /\ Cardinality(S) <= Cardinality(Runs)
  BY <1>1, <1>2, FS_Subset
<1>4. Cardinality(S) \in Nat
  BY <1>3, FS_CardinalityType
<1>. QED  BY <1>1, <1>3, <1>4, Bounds DEF Used

\* The list shows the same runs as long as none is posted.
LEMMA ListedStays ==
    ASSUME NEW js, NEW ks,
           \A r \in Runs : ks[r].status = "unused" <=> js[r].status = "unused"
    PROVE  Used(ks) = Used(js) /\ Listed(ks) = Listed(js)
<1>1. {r \in Runs : ks[r].status # "unused"} = {r \in Runs : js[r].status # "unused"}
  OBVIOUS
<1>2. Used(ks) = Used(js)
  BY <1>1 DEF Used
<1>. QED  BY <1>2 DEF Listed

-------------------------------------------------------------------------------
(* Steps that post no run. *)

\* What may become of a run in a step that neither posts nor claims one.
Moves(j, k) ==
    /\ k.status = "unused" <=> j.status = "unused"
    /\ k.status \in {"unused", "queued"} => k = j
    /\ k.status = "running" => j.status = "running" /\ k.error = j.error
    /\ k.status \in Ended => k.done

\* A job list whose runs all move so.
Quiet(js, ks) ==
    /\ ks \in [Runs -> JobType]
    /\ \A r \in Runs : Moves(js[r], ks[r])

\* No waiter is woken before its run ends, and no worker reports the end of a run.
Unanswered(j, k) ==
    /\ k.status = "running" /\ k.done => j.status = "running" /\ j.done
    /\ k.status = "completed" => j.status = "completed"
    /\ k.error = "agent" => j.error = "agent"

Silent(js, ks) == \A r \in Runs : Unanswered(js[r], ks[r])

\* Quiet steps keep the list in order.
LEMMA QuietFits ==
    ASSUME NEW js, NEW ks, JobsFit(js), Quiet(js, ks)
    PROVE  /\ JobsFit(ks) /\ Used(ks) = Used(js) /\ Listed(ks) = Listed(js)
           /\ ListedIn(ks, "running") \subseteq ListedIn(js, "running")
<1>1. Used(ks) = Used(js) /\ Listed(ks) = Listed(js)
  BY ListedStays DEF Quiet, Moves
<1>2. ListedIn(ks, "running") \subseteq ListedIn(js, "running")
  <2>1. \A r \in Runs : ks[r].status = "running" => js[r].status = "running"
    BY DEF Quiet, Moves
  <2>2. Listed(js) \subseteq Runs
    BY DEF Listed
  <2>. QED  BY <1>1, <2>1, <2>2 DEF ListedIn
<1>3. Dense(ks)
  BY <1>1 DEF Quiet, Moves, JobsFit, Dense
<1>4. ASSUME NEW r \in Runs
      PROVE  /\ ks[r].status = "unused" => ks[r] = UnusedJob
             /\ ks[r].status = "queued" => /\ ~ks[r].done /\ ks[r].error = ""
                                           /\ ks[r].feedback = {} /\ ks[r].accepted = {}
             /\ ks[r].status = "running" => ks[r].error = ""
             /\ ks[r].status \in Ended => ks[r].done
  <2>1. Moves(js[r], ks[r])
    BY DEF Quiet
  <2>2. /\ js[r].status = "unused" => js[r] = UnusedJob
        /\ js[r].status = "queued" => /\ ~js[r].done /\ js[r].error = ""
                                      /\ js[r].feedback = {} /\ js[r].accepted = {}
        /\ js[r].status = "running" => js[r].error = ""
    BY DEF JobsFit, RunsFit
  <2>. QED  BY <2>1, <2>2 DEF Moves
<1>5. \A q, r \in ListedIn(ks, "running") : q = r
  BY <1>2 DEF JobsFit, RunsFit
<1>6. RunsFit(ks)
  BY <1>4, <1>5 DEF RunsFit
<1>. QED  BY <1>1, <1>2, <1>3, <1>6 DEF JobsFit, Quiet

\* Inputs stay where they are, or are dropped.
Keeps(js, ks) ==
    \A r \in Runs : ks[r].text = js[r].text /\ Taken(ks[r]) \subseteq Taken(js[r])

LEMMA KeepsHeld ==
    ASSUME NEW js, NEW ks, NEW n, Held(js, n), Keeps(js, ks)
    PROVE  Held(ks, n)
<1>1. \A r \in Runs : /\ ks[r].text # NoItem => ks[r].text <= n
                      /\ \A i \in Taken(ks[r]) : i <= n
                      /\ ks[r].text \notin Taken(ks[r])
  BY DEF Held, Keeps
<1>2. \A r \in Runs : Taken(ks[r]) \cup {ks[r].text} \subseteq Taken(js[r]) \cup {js[r].text}
  BY DEF Keeps
<1>3. \A i \in Items : \A q, r \in Runs :
         /\ i \in Taken(ks[q]) \cup {ks[q].text}
         /\ i \in Taken(ks[r]) \cup {ks[r].text}
         => q = r
  BY <1>2 DEF Held
<1>. QED  BY <1>1, <1>3 DEF Held

-------------------------------------------------------------------------------
(* The helpers of the handlers are quiet. *)

LEMMA ExpireIsQuiet ==
    ASSUME NEW js, JobsFit(js)
    PROVE  /\ Quiet(js, ExpireLeases(js)) /\ Silent(js, ExpireLeases(js))
           /\ Keeps(js, ExpireLeases(js))
<1>. DEFINE ks == ExpireLeases(js)
<1>1. ASSUME NEW r \in Runs
      PROVE  /\ ks[r] \in JobType /\ Moves(js[r], ks[r])
             /\ Unanswered(js[r], ks[r])
             /\ ks[r].text = js[r].text /\ Taken(ks[r]) = Taken(js[r])
  <2>1. js[r] \in JobType /\ (js[r].status = "running" => js[r].error = "")
        /\ (js[r].status \in Ended => js[r].done)
    BY DEF JobsFit, RunsFit
  <2>2. CASE r \in ListedIn(js, "running") /\ js[r].overdue
    <3>1. ks[r] = [js[r] EXCEPT !.status = "failed", !.error = "lease",
                                !.result = NoSelection, !.done = TRUE]
      BY <2>2 DEF ExpireLeases
    <3>2. js[r].status = "running"
      BY <2>2 DEF ListedIn
    <3>. HIDE DEF ks
    <3>3. ks[r] \in JobType
      BY <2>1, <3>1 DEF JobType, Ended
    <3>4. ks[r].status = "failed" /\ ks[r].error = "lease" /\ ks[r].done = TRUE
      BY <2>1, <3>1 DEF JobType, Ended
    <3>5. /\ ks[r].text = js[r].text
          /\ ks[r].feedback = js[r].feedback /\ ks[r].accepted = js[r].accepted
      BY <2>1, <3>1 DEF JobType, Ended
    <3>. QED  BY <3>2, <3>3, <3>4, <3>5 DEF Moves, Taken, Ended, Unanswered
  <2>3. CASE ~(r \in ListedIn(js, "running") /\ js[r].overdue)
    <3>1. ks[r] = js[r]
      BY <2>3 DEF ExpireLeases
    <3>. HIDE DEF ks
    <3>. QED  BY <2>1, <3>1 DEF Moves, Unanswered
  <2>. QED  BY <2>2, <2>3
<1>2. ks \in [Runs -> JobType]
  BY <1>1 DEF ExpireLeases
<1>. HIDE DEF ks
<1>3. Quiet(js, ks) /\ Silent(js, ks) /\ Keeps(js, ks)
  BY <1>1, <1>2 DEF Quiet, Silent, Keeps
<1>. QED  BY <1>3 DEF ks

\* A run of the list is as it was.
LEMMA StillMoves ==
    ASSUME NEW js, JobsFit(js), NEW r \in Runs
    PROVE  js[r] \in JobType /\ Moves(js[r], js[r]) /\ Unanswered(js[r], js[r])
BY DEF JobsFit, RunsFit, Moves, Unanswered

\* One run moves.
LEMMA OneMoves ==
    ASSUME NEW js, JobsFit(js), NEW r \in Runs, NEW k \in JobType, Moves(js[r], k)
    PROVE  Quiet(js, [js EXCEPT ![r] = k])
<1>. DEFINE ks == [js EXCEPT ![r] = k]
<1>1. js \in [Runs -> JobType]
  BY DEF JobsFit
<1>2. ks \in [Runs -> JobType] /\ \A q \in Runs : ks[q] = IF q = r THEN k ELSE js[q]
  BY <1>1
<1>. HIDE DEF ks
<1>3. ASSUME NEW q \in Runs
      PROVE  Moves(js[q], ks[q])
  BY <1>2, StillMoves
<1>4. Quiet(js, ks)
  BY <1>2, <1>3 DEF Quiet
<1>. QED  BY <1>4 DEF ks

LEMMA OneSilent ==
    ASSUME NEW js, JobsFit(js), NEW r \in Runs, NEW k, Unanswered(js[r], k)
    PROVE  Silent(js, [js EXCEPT ![r] = k])
<1>1. \A q \in Runs : [js EXCEPT ![r] = k][q] = IF q = r THEN k ELSE js[q]
  BY DEF JobsFit
<1>. QED  BY <1>1, StillMoves DEF Silent

LEMMA OneKeeps ==
    ASSUME NEW js, JobsFit(js), NEW r \in Runs, NEW k,
           k.text = js[r].text, Taken(k) \subseteq Taken(js[r])
    PROVE  Keeps(js, [js EXCEPT ![r] = k])
BY DEF Keeps, JobsFit

LEMMA StaysQuiet ==
    ASSUME NEW js, JobsFit(js)
    PROVE  Quiet(js, js) /\ Silent(js, js) /\ Keeps(js, js)
BY StillMoves DEF Quiet, Silent, Keeps, JobsFit

LEMMA CancelIsQuiet ==
    ASSUME NEW js, JobsFit(js), NEW r \in Runs
    PROVE  /\ Quiet(js, Cancel(js, r)) /\ Silent(js, Cancel(js, r))
           /\ Keeps(js, Cancel(js, r))
<1>1. CASE r \in ListedIn(js, "queued") \cup ListedIn(js, "running")
  <2>. DEFINE k == [js[r] EXCEPT !.status = "cancelled", !.feedback = {},
                                 !.result = NoSelection, !.done = TRUE]
  <2>1. js \in [Runs -> JobType] /\ js[r] \in JobType
        /\ js[r].status \in {"queued", "running"} /\ js[r].error = ""
    BY <1>1 DEF JobsFit, RunsFit, ListedIn
  <2>2. Cancel(js, r) = [js EXCEPT ![r] = k]
    BY <1>1, <2>1 DEF Cancel
  <2>3. k \in JobType
    BY <2>1 DEF JobType, Ended
  <2>4. k.status = "cancelled" /\ k.done = TRUE /\ k.error = js[r].error
    BY <2>1 DEF JobType, Ended
  <2>5. k.text = js[r].text /\ k.feedback = {} /\ k.accepted = js[r].accepted
    BY <2>1 DEF JobType, Ended
  <2>. HIDE DEF k
  <2>6. Moves(js[r], k) /\ Taken(k) \subseteq Taken(js[r])
    BY <2>1, <2>4, <2>5 DEF Moves, Taken, Ended
  <2>7. Unanswered(js[r], k)
    BY <2>4 DEF Unanswered
  <2>8. Quiet(js, [js EXCEPT ![r] = k]) /\ Silent(js, [js EXCEPT ![r] = k])
    BY <2>1, <2>3, <2>6, <2>7, OneMoves, OneSilent
  <2>9. Keeps(js, [js EXCEPT ![r] = k])
    BY <2>1, <2>5, <2>6, OneKeeps
  <2>. QED  BY <2>2, <2>8, <2>9
<1>2. CASE r \notin ListedIn(js, "queued") \cup ListedIn(js, "running")
  <2>1. Cancel(js, r) = js
    BY <1>2 DEF Cancel
  <2>. QED  BY <2>1, StaysQuiet
<1>. QED  BY <1>1, <1>2

LEMMA RejectedIsQuiet ==
    ASSUME NEW js, JobsFit(js), NEW r
    PROVE  /\ Quiet(js, Rejected(js, r)) /\ Silent(js, Rejected(js, r))
           /\ Keeps(js, Rejected(js, r))
<1>1. CASE r \in Listed(js)
  <2>. DEFINE k == [js[r] EXCEPT !.status = "failed", !.error = "rejected",
                                 !.result = NoSelection, !.done = TRUE]
  <2>1. js \in [Runs -> JobType] /\ js[r] \in JobType /\ r \in Runs
        /\ js[r].status # "unused"
    BY <1>1 DEF JobsFit, Listed
  <2>2. Rejected(js, r) = [js EXCEPT ![r] = k]
    BY <1>1, <2>1 DEF Rejected
  <2>3. k \in JobType
    BY <2>1 DEF JobType, Ended
  <2>4. k.status = "failed" /\ k.done = TRUE /\ k.error = "rejected"
    BY <2>1 DEF JobType, Ended
  <2>5. k.text = js[r].text /\ k.feedback = js[r].feedback /\ k.accepted = js[r].accepted
    BY <2>1 DEF JobType, Ended
  <2>. HIDE DEF k
  <2>6. Moves(js[r], k) /\ Taken(k) \subseteq Taken(js[r])
    BY <2>1, <2>4, <2>5 DEF Moves, Taken, Ended
  <2>7. Unanswered(js[r], k)
    BY <2>4 DEF Unanswered
  <2>8. Quiet(js, [js EXCEPT ![r] = k]) /\ Silent(js, [js EXCEPT ![r] = k])
    BY <2>1, <2>3, <2>6, <2>7, OneMoves, OneSilent
  <2>9. Keeps(js, [js EXCEPT ![r] = k])
    BY <2>1, <2>5, <2>6, OneKeeps
  <2>. QED  BY <2>2, <2>8, <2>9
<1>2. CASE r \notin Listed(js)
  <2>1. Rejected(js, r) = js
    BY <1>2 DEF Rejected
  <2>. QED  BY <2>1, StaysQuiet
<1>. QED  BY <1>1, <1>2

-------------------------------------------------------------------------------
(* Claiming and posting runs. *)

\* A queued run is claimed while no other is leased.
LEMMA ClaimFits ==
    ASSUME NEW js, JobsFit(js), NEW r \in ListedIn(js, "queued"),
           ListedIn(js, "running") = {}
    PROVE  LET ks == [js EXCEPT ![r].status = "running", ![r].overdue = FALSE]
           IN  /\ JobsFit(ks) /\ Keeps(js, ks)
               /\ ListedIn(ks, "running") = {r}
               /\ \A q \in Runs : q # r => ks[q] = js[q]
               /\ r \in Runs /\ ks[r].status = "running" /\ ~ks[r].done
               /\ Silent(js, ks)
<1>. DEFINE ks == [js EXCEPT ![r].status = "running", ![r].overdue = FALSE]
            k == [js[r] EXCEPT !.status = "running", !.overdue = FALSE]
<1>1. js \in [Runs -> JobType] /\ r \in Runs /\ js[r] \in JobType
      /\ js[r].status = "queued" /\ js[r].error = "" /\ ~js[r].done /\ r \in Listed(js)
  BY DEF JobsFit, RunsFit, ListedIn, Listed
<1>2. k \in JobType
  BY <1>1 DEF JobType, Ended
<1>3. k.status = "running" /\ k.done = js[r].done /\ k.error = js[r].error
  BY <1>1 DEF JobType, Ended
<1>4. k.text = js[r].text /\ k.feedback = js[r].feedback /\ k.accepted = js[r].accepted
  BY <1>1 DEF JobType, Ended
<1>5. ks = [js EXCEPT ![r] = k]
  BY <1>1
<1>. HIDE DEF k
<1>6. ks \in [Runs -> JobType] /\ \A q \in Runs : ks[q] = IF q = r THEN k ELSE js[q]
  BY <1>1, <1>2, <1>5
<1>. HIDE DEF ks
<1>7. Used(ks) = Used(js) /\ Listed(ks) = Listed(js)
  <2>1. \A q \in Runs : ks[q].status = "unused" <=> js[q].status = "unused"
    BY <1>1, <1>3, <1>6
  <2>. QED  BY <2>1, ListedStays
<1>8. Dense(ks)
  BY <1>1, <1>3, <1>6, <1>7 DEF JobsFit, Dense
<1>9. ListedIn(ks, "running") = {r}
  <2>1. \A q \in Runs : q \in ListedIn(ks, "running") <=> q = r
    BY <1>1, <1>3, <1>6, <1>7 DEF ListedIn
  <2>. QED  BY <1>1, <2>1 DEF ListedIn, Listed
<1>10. RunsFit(ks)
  <2>1. ASSUME NEW q \in Runs
        PROVE  /\ ks[q].status = "unused" => ks[q] = UnusedJob
               /\ ks[q].status = "queued" => /\ ~ks[q].done /\ ks[q].error = ""
                                             /\ ks[q].feedback = {} /\ ks[q].accepted = {}
               /\ ks[q].status = "running" => ks[q].error = ""
               /\ ks[q].status \in Ended => ks[q].done
    BY <1>1, <1>3, <1>6 DEF JobsFit, RunsFit, Ended
  <2>. QED  BY <1>9, <2>1 DEF RunsFit
<1>11. Keeps(js, ks)
  BY <1>4, <1>6 DEF Keeps, Taken
<1>12. /\ \A q \in Runs : q # r => ks[q] = js[q]
       /\ r \in Runs /\ ks[r].status = "running" /\ ~ks[r].done
  BY <1>1, <1>3, <1>6
<1>13. Silent(js, ks)
  <2>1. Unanswered(js[r], k)
    BY <1>1, <1>3 DEF Unanswered
  <2>. QED  BY <1>1, <1>5, <2>1, OneSilent DEF ks
<1>. QED  BY <1>6, <1>8, <1>9, <1>10, <1>11, <1>12, <1>13 DEF ks, JobsFit

\* Runs are posted: m of them, after the last one.
Fresh(j) ==
    /\ j.status = "queued" /\ j.done = FALSE /\ j.overdue = FALSE /\ j.error = ""
    /\ j.feedback = {} /\ j.accepted = {}

Posts(js, ks, m) ==
    /\ ks \in [Runs -> JobType]
    /\ \A r \in Runs : /\ Used(js) < r /\ r <= Used(js) + m => Fresh(ks[r])
                       /\ r <= Used(js) \/ Used(js) + m < r => ks[r] = js[r]

LEMMA PostsFits ==
    ASSUME NEW js, JobsFit(js), NEW ks, NEW m \in Nat, Used(js) + m <= MaxRuns,
           Posts(js, ks, m)
    PROVE  /\ JobsFit(ks) /\ Used(ks) = Used(js) + m
           /\ ListedIn(ks, "running") \subseteq ListedIn(js, "running")
           /\ \A r \in Runs : js[r].status # "unused" => ks[r] = js[r]
           /\ \A r \in Runs : js[r].status = "unused" => r > Used(js)
<1>. PICK n \in 0..MaxRuns : n = Used(js)
  BY UsedType
<1>1. \A r \in Runs : js[r].status # "unused" <=> r <= n
  BY DEF JobsFit, Dense
<1>2. \A r \in Runs : /\ n < r /\ r <= n + m => Fresh(ks[r])
                      /\ r <= n \/ n + m < r => ks[r] = js[r]
  BY DEF Posts
<1>. n \in Int /\ m \in Int /\ \A r \in Runs : r \in Int
  BY Bounds
<1>3. ASSUME NEW r \in Runs
      PROVE  (ks[r].status # "unused") = (r <= n + m)
  <2>1. CASE r <= n
    BY <1>1, <1>2, <2>1
  <2>2. CASE n < r /\ r <= n + m
    BY <1>2, <2>2 DEF Fresh
  <2>3. CASE n + m < r
    <3>1. ks[r] = js[r] /\ ~(r <= n)
      BY <1>2, <2>3
    <3>2. js[r].status = "unused"
      BY <1>1, <3>1
    <3>. QED  BY <2>3, <3>1, <3>2
  <2>. QED  BY <2>1, <2>2, <2>3
<1>4. n + m \in 0..MaxRuns
  BY Bounds
<1>5. Used(ks) = n + m
  BY <1>3, <1>4, UsedIsLast
<1>6. Dense(ks)
  BY <1>3, <1>5 DEF Dense
<1>7. \A r \in Runs : js[r].status # "unused" => ks[r] = js[r]
  BY <1>1, <1>2
<1>8. \A r \in Runs : js[r].status = "unused" => r > n
  BY <1>1, Bounds
<1>9. ASSUME NEW r \in ListedIn(ks, "running")
      PROVE  r \in ListedIn(js, "running")
  <2>1. r \in Runs /\ r \in Nat /\ ks[r].status = "running" /\ r > n + m - MaxJobs
    BY <1>5, Bounds DEF ListedIn, Listed
  <2>2. ks[r] = js[r]
    <3>1. ~(n < r /\ r <= n + m)
      BY <1>2, <2>1 DEF Fresh
    <3>. QED  BY <1>2, <2>1, <3>1
  <2>3. r > n - MaxJobs
    BY <2>1, Bounds
  <2>. QED  BY <2>1, <2>2, <2>3 DEF ListedIn, Listed
<1>10. ASSUME NEW r \in Runs
       PROVE  /\ ks[r].status = "unused" => ks[r] = UnusedJob
              /\ ks[r].status = "queued" => /\ ~ks[r].done /\ ks[r].error = ""
                                            /\ ks[r].feedback = {} /\ ks[r].accepted = {}
              /\ ks[r].status = "running" => ks[r].error = ""
              /\ ks[r].status \in Ended => ks[r].done
  <2>1. (n < r /\ r <= n + m) \/ r <= n \/ n + m < r
    OBVIOUS
  <2>2. CASE n < r /\ r <= n + m
    BY <1>2, <2>2 DEF Fresh, Ended
  <2>3. CASE r <= n \/ n + m < r
    BY <1>2, <2>3 DEF JobsFit, RunsFit
  <2>. QED  BY <2>1, <2>2, <2>3
<1>11. RunsFit(ks)
  BY <1>9, <1>10 DEF RunsFit, JobsFit
<1>. QED  BY <1>5, <1>6, <1>7, <1>8, <1>9, <1>11 DEF JobsFit, Posts

-------------------------------------------------------------------------------
(* Inputs in order. *)

\* The place of an input among those that are queued again.
Rank(items, i) == Cardinality({k \in items : k <= i})

\* Every place up to their number is one input's.
LEMMA Ranks ==
    ASSUME NEW items \in SUBSET Items
    PROVE  /\ IsFiniteSet(items) /\ Cardinality(items) \in Nat
           /\ \A i \in items : Rank(items, i) \in 1..Cardinality(items)
           /\ \A i, k \in items : Rank(items, i) = Rank(items, k) => i = k
           /\ \A m \in 1..Cardinality(items) : \E i \in items : Rank(items, i) = m
<1>. DEFINE Upto(i) == {k \in items : k <= i}
            rank == [i \in items |-> Cardinality(Upto(i))]
            N == Cardinality(items)
<1>1. items \subseteq Nat
  BY Bounds
<1>2. IsFiniteSet(items) /\ N \in Nat
  <2>1. IsFiniteSet(Items)
    BY FS_Interval, Bounds DEF Items
  <2>. QED  BY <2>1, FS_Subset, FS_CardinalityType
<1>3. ASSUME NEW i \in items
      PROVE  /\ IsFiniteSet(Upto(i)) /\ Cardinality(Upto(i)) \in 1..N
  <2>1. Upto(i) \in SUBSET items /\ i \in Upto(i)
    BY <1>1
  <2>2. IsFiniteSet(Upto(i)) /\ Cardinality(Upto(i)) \in Nat /\ Cardinality(Upto(i)) <= N
    BY <1>2, <2>1, FS_Subset, FS_CardinalityType
  <2>3. Cardinality(Upto(i)) # 0
    BY <2>1, <2>2, FS_EmptySet
  <2>. QED  BY <1>2, <2>2, <2>3
<1>4. ASSUME NEW i \in items, NEW k \in items, i < k
      PROVE  Cardinality(Upto(i)) < Cardinality(Upto(k))
  <2>1. Upto(i) \in SUBSET Upto(k) /\ Upto(i) # Upto(k)
    <3>1. i \in Int /\ k \in Int /\ \A l \in items : l \in Int
      BY <1>1
    <3>2. \A l \in items : l <= i => l <= k
      BY <1>4, <3>1
    <3>3. k \in Upto(k) /\ k \notin Upto(i)
      BY <1>4, <3>1
    <3>. QED  BY <3>2, <3>3
  <2>2. Cardinality(Upto(i)) # Cardinality(Upto(k)) /\ Cardinality(Upto(i)) <= Cardinality(Upto(k))
    BY <1>3, <2>1, FS_Subset
  <2>. QED  BY <1>3, <2>2
<1>5. ASSUME NEW i \in items, NEW k \in items, Cardinality(Upto(i)) = Cardinality(Upto(k))
      PROVE  i = k
  <2>1. i \in Nat /\ k \in Nat
    BY <1>1
  <2>2. Cardinality(Upto(i)) \in Nat
    BY <1>2, <1>3
  <2>. QED  BY <1>4, <1>5, <2>1, <2>2
<1>. HIDE DEF Upto
<1>6. rank \in [items -> 1..N] /\ \A i, k \in items : rank[i] = rank[k] => i = k
  BY <1>3, <1>5
<1>7. IsFiniteSet(1..N) /\ Cardinality(1..N) = N
  BY <1>2, FS_Interval
<1>8. rank \in Injection(items, 1..N)
  BY <1>6 DEF Injection, IsInjective
<1>9. rank \in Surjection(items, 1..N)
  BY <1>2, <1>7, <1>8, FS_Injection
<1>10. \A m \in 1..N : \E i \in items : rank[i] = m
  BY <1>9 DEF Surjection
<1>11. \A i \in items : rank[i] = Rank(items, i)
  BY DEF Rank, Upto
<1>. QED  BY <1>2, <1>6, <1>10, <1>11

\* Every input gets a run of its own.
LEMMA RequeuePosts ==
    ASSUME NEW js, JobsFit(js), NEW items \in SUBSET Items,
           Used(js) + Cardinality(items) <= MaxRuns
    PROVE  /\ Posts(js, RequeueAll(js, items), Cardinality(items))
           /\ \A i \in items : \E r \in Runs :
                /\ RequeueAll(js, items)[r].status = "queued"
                /\ RequeueAll(js, items)[r].text = i
           /\ \A r \in Runs : RequeueAll(js, items)[r] # js[r] =>
                /\ RequeueAll(js, items)[r].text \in items
                /\ Rank(items, RequeueAll(js, items)[r].text) = r - Used(js)
<1>. DEFINE ks == RequeueAll(js, items)
            N == Cardinality(items)
            fresh(r) == [UnusedJob EXCEPT !.status = "queued",
                            !.text = CHOOSE i \in items : Used(js) + Rank(items, i) = r]
<1>. PICK n \in 0..MaxRuns : n = Used(js)
  BY UsedType
<1>1. IsFiniteSet(items) /\ N \in Nat
  BY Ranks
<1>. n \in Int /\ N \in Int /\ \A r \in Runs : r \in Int
  BY Bounds, <1>1
<1>2. ks = [r \in Runs |-> IF \E i \in items : n + Rank(items, i) = r
                           THEN fresh(r) ELSE js[r]]
  BY DEF RequeueAll, Rank
<1>3. \A i \in items : Rank(items, i) \in 1..N
  BY Ranks
<1>. HIDE DEF ks
<1>4. ASSUME NEW r \in Runs, NEW i \in items, n + Rank(items, i) = r
      PROVE  /\ n < r /\ r <= n + N /\ Rank(items, i) = r - n
             /\ ks[r] \in JobType /\ Fresh(ks[r]) /\ ks[r].text = i
  <2>1. n < r /\ r <= n + N /\ Rank(items, i) = r - n
    BY <1>3, <1>4
  <2>2. ks[r] = fresh(r)
    BY <1>2, <1>4
  <2>3. (CHOOSE k \in items : Used(js) + Rank(items, k) = r) = i
    <3>1. \A k \in items : Used(js) + Rank(items, k) = r => k = i
      <4>. SUFFICES ASSUME NEW k \in items, n + Rank(items, k) = r
                    PROVE  k = i
        OBVIOUS
      <4>1. Rank(items, k) \in Int /\ Rank(items, i) \in Int
        BY <1>3
      <4>2. Rank(items, k) = Rank(items, i)
        BY <1>4, <4>1
      <4>. QED  BY <4>2, Ranks
    <3>. QED  BY <1>4, <3>1
  <2>4. ks[r] = [UnusedJob EXCEPT !.status = "queued", !.text = i]
    BY <2>2, <2>3
  <2>. HIDE DEF fresh
  <2>5. ks[r] \in JobType /\ Fresh(ks[r]) /\ ks[r].text = i
    BY <2>4, Bounds DEF UnusedJob, JobType, Ended, Fresh
  <2>. QED  BY <2>1, <2>5
<1>5. ASSUME NEW r \in Runs, n < r, r <= n + N
      PROVE  \E i \in items : n + Rank(items, i) = r
  <2>1. r - n \in 1..N
    BY <1>5
  <2>2. PICK i \in items : Rank(items, i) = r - n
    BY <2>1, Ranks
  <2>. QED  BY <2>2
<1>6. ASSUME NEW r \in Runs, r <= n \/ n + N < r
      PROVE  ks[r] = js[r]
  <2>1. ~ \E i \in items : n + Rank(items, i) = r
    BY <1>4, <1>6
  <2>. QED  BY <1>2, <2>1
<1>7. ks \in [Runs -> JobType]
  <2>1. ASSUME NEW r \in Runs  PROVE ks[r] \in JobType
    <3>1. CASE \E i \in items : n + Rank(items, i) = r
      BY <1>4, <3>1
    <3>2. CASE ~ \E i \in items : n + Rank(items, i) = r
      BY <1>2, <3>2 DEF JobsFit
    <3>. QED  BY <3>1, <3>2
  <2>. HIDE DEF fresh
  <2>. QED  BY <1>2, <2>1
<1>8. Posts(js, ks, N)
  BY <1>4, <1>5, <1>6, <1>7 DEF Posts
<1>9. ASSUME NEW i \in items
      PROVE  \E r \in Runs : ks[r].status = "queued" /\ ks[r].text = i
  <2>1. Rank(items, i) \in 1..N
    BY <1>3
  <2>2. n + Rank(items, i) \in Runs
    BY <2>1, Bounds DEF Runs
  <2>. QED  BY <1>4, <2>2 DEF Fresh
<1>10. ASSUME NEW r \in Runs, ks[r] # js[r]
       PROVE  ks[r].text \in items /\ Rank(items, ks[r].text) = r - Used(js)
  <2>1. PICK i \in items : n + Rank(items, i) = r
    BY <1>2, <1>10
  <2>. QED  BY <1>4, <2>1
<1>. QED  BY <1>8, <1>9, <1>10 DEF ks

\* One run is posted.
Posted(k, t) == [UnusedJob EXCEPT !.status = "queued", !.kind = k, !.text = t]

LEMMA EnqueuePosts ==
    ASSUME NEW js, JobsFit(js), HasRoom(js, 1), NEW k \in {"operator", "selection"},
           NEW t \in Items \cup {NoItem}
    PROVE  /\ Posts(js, Enqueue(js, k, t), 1) /\ Used(js) + 1 \in Runs
           /\ js[Used(js) + 1].status = "unused"
           /\ \A r \in Runs : Enqueue(js, k, t)[r] =
                IF r = Used(js) + 1 THEN Posted(k, t) ELSE js[r]
           /\ Fresh(Posted(k, t)) /\ Posted(k, t).text = t
<1>. DEFINE j == Posted(k, t)
            ks == Enqueue(js, k, t)
<1>. PICK n \in 0..MaxRuns : n = Used(js)
  BY UsedType
<1>. n \in Int /\ \A r \in Runs : r \in Int
  BY Bounds
<1>1. n + 1 \in Runs /\ n + 1 > n
  BY Bounds DEF Runs, HasRoom
<1>2. js \in [Runs -> JobType] /\ js[n + 1].status = "unused"
  BY <1>1 DEF JobsFit, Dense
<1>3. j \in JobType /\ Fresh(j) /\ j.text = t
  BY Bounds DEF Posted, UnusedJob, JobType, Ended, Fresh
<1>4. ks = [js EXCEPT ![n + 1] = j]
  BY DEF Enqueue, Posted
<1>. HIDE DEF j, ks
<1>5. ks \in [Runs -> JobType] /\ \A r \in Runs : ks[r] = IF r = n + 1 THEN j ELSE js[r]
  BY <1>1, <1>2, <1>3, <1>4
<1>6. ASSUME NEW r \in Runs
      PROVE  /\ n < r /\ r <= n + 1 => Fresh(ks[r])
             /\ r <= n \/ n + 1 < r => ks[r] = js[r]
  BY <1>1, <1>3, <1>5
<1>7. Posts(js, ks, 1)
  BY <1>5, <1>6 DEF Posts
<1>. QED  BY <1>1, <1>2, <1>3, <1>5, <1>7 DEF j, ks

-------------------------------------------------------------------------------
(* What a step of any kind leaves of leases and answers. *)

\* Nothing new is leased, no run goes back to the queue and no running run is answered.
Onward(js, ks) ==
    /\ ListedIn(ks, "running") \subseteq ListedIn(js, "running")
    /\ \A r \in Runs : js[r].status \notin {"unused", "queued"} =>
                           ks[r].status \notin {"unused", "queued"}
    /\ \A r \in Runs : ks[r].status = "running" /\ ks[r].done =>
                           js[r].status = "running" /\ js[r].done

LEMMA OnwardTwice ==
    ASSUME NEW js, NEW ks, NEW ls, Onward(js, ks), Onward(ks, ls)
    PROVE  Onward(js, ls)
BY DEF Onward

LEMMA SilentTwice ==
    ASSUME NEW js, NEW ks, NEW ls, Silent(js, ks), Silent(ks, ls)
    PROVE  Silent(js, ls)
BY DEF Silent, Unanswered

LEMMA QuietOnward ==
    ASSUME NEW js, NEW ks, JobsFit(js), Quiet(js, ks),
           \A r \in Runs : ks[r].status = "running" /\ ks[r].done => js[r].done
    PROVE  Onward(js, ks)
<1>1. ASSUME NEW r \in Runs, js[r].status \notin {"unused", "queued"}
      PROVE  ks[r].status \notin {"unused", "queued"}
  BY <1>1 DEF Quiet, Moves
<1>2. ASSUME NEW r \in Runs, ks[r].status = "running", ks[r].done
      PROVE  js[r].status = "running" /\ js[r].done
  BY <1>2 DEF Quiet, Moves
<1>. QED  BY <1>1, <1>2, QuietFits DEF Onward

LEMMA SilentOnward ==
    ASSUME NEW js, NEW ks, JobsFit(js), Quiet(js, ks), Silent(js, ks)
    PROVE  Onward(js, ks)
BY QuietOnward DEF Silent, Unanswered

LEMMA PostsOnward ==
    ASSUME NEW js, JobsFit(js), NEW ks, NEW m \in Nat, Used(js) + m <= MaxRuns,
           Posts(js, ks, m)
    PROVE  Onward(js, ks) /\ Silent(js, ks)
<1>. PICK n \in 0..MaxRuns : n = Used(js)
  BY UsedType
<1>. n \in Int /\ m \in Int /\ \A r \in Runs : r \in Int
  BY Bounds
<1>1. ASSUME NEW r \in Runs
      PROVE  ks[r] = js[r] \/ (js[r].status = "unused" /\ Fresh(ks[r]))
  <2>1. (n < r /\ r <= n + m) \/ r <= n \/ n + m < r
    OBVIOUS
  <2>2. r > n => js[r].status = "unused"
    BY DEF JobsFit, Dense
  <2>. QED  BY <2>1, <2>2 DEF Posts
<1>2. Silent(js, ks)
  BY <1>1 DEF Silent, Unanswered, Fresh
<1>3. Onward(js, ks)
  BY <1>1, PostsFits DEF Onward, Fresh
<1>. QED  BY <1>2, <1>3

\* Plans stay in order while runs go on, end or are posted.
LEMMA PlansFitOn ==
    ASSUME NEW js, NEW ks, NEW ps, PlansFit(js, ps), Onward(js, ks),
           ps \in [Plans -> PlanType]
    PROVE  PlansFit(ks, ps)
<1>1. ASSUME NEW p \in Plans
      PROVE  /\ ps[p].run # NoRun => ks[ps[p].run].status \notin {"unused", "queued"}
             /\ ps[p].status # "unused" => ps[p].run # NoRun /\ ps[p].selection # NoSelection
             /\ ps[p].session => ps[p].status = "approved"
             /\ ps[p].by = "session_grant" => ps[p].status # "unused"
  <2>1. ps[p].run # NoRun => ps[p].run \in Runs
    BY DEF PlanType
  <2>2. /\ ps[p].run # NoRun => js[ps[p].run].status \notin {"unused", "queued"}
        /\ ps[p].status # "unused" => ps[p].run # NoRun /\ ps[p].selection # NoSelection
        /\ ps[p].session => ps[p].status = "approved"
        /\ ps[p].by = "session_grant" => ps[p].status # "unused"
    BY DEF PlansFit
  <2>3. ps[p].run # NoRun => ks[ps[p].run].status \notin {"unused", "queued"}
    BY <2>1, <2>2 DEF Onward
  <2>. QED  BY <2>2, <2>3
<1>2. \A p, q \in PendingPlans(ps) : ps[p].run = ps[q].run
  BY DEF PlansFit
<1>3. \A r \in ListedIn(ks, "running"), p \in PendingPlans(ps) : ps[p].run = r
  BY DEF PlansFit, Onward
<1>4. \A r \in Runs : ks[r].status = "running" /\ ks[r].done =>
         \E p \in Plans : ps[p].run = r /\ ps[p].status = "approved"
  BY DEF PlansFit, Onward
<1>. QED  BY <1>1, <1>2, <1>3, <1>4 DEF PlansFit

-------------------------------------------------------------------------------
(* Where inputs go. *)

\* No run holds the input.
Free(js, i) == \A r \in Runs : i \notin Taken(js[r]) \cup {js[r].text}

LEMMA HeldLater ==
    ASSUME NEW js, JobsFit(js), NEW n \in Nat, Held(js, n)
    PROVE  Held(js, n + 1) /\ \A i \in Items : i > n => Free(js, i)
<1>1. ASSUME NEW r \in Runs
      PROVE  /\ js[r].text \in Items \cup {NoItem} /\ Taken(js[r]) \in SUBSET Items
             /\ js[r].text # NoItem => js[r].text <= n
             /\ \A i \in Taken(js[r]) : i <= n
             /\ js[r].text \notin Taken(js[r])
  <2>1. js[r] \in JobType
    BY DEF JobsFit
  <2>2. js[r].text \in Items \cup {NoItem} /\ Taken(js[r]) \in SUBSET Items
    BY <2>1 DEF JobType, Ended, Taken
  <2>. QED  BY <2>2 DEF Held
<1>. n \in Int /\ \A i \in Items : i \in Int
  BY Bounds
<1>2. ASSUME NEW r \in Runs
      PROVE  /\ js[r].text # NoItem => js[r].text <= n + 1
             /\ \A i \in Taken(js[r]) : i <= n + 1
             /\ js[r].text \notin Taken(js[r])
             /\ \A i \in Items : i > n => i \notin Taken(js[r]) \cup {js[r].text}
  <2>1. js[r].text # NoItem => js[r].text <= n + 1
    BY <1>1
  <2>2. \A i \in Taken(js[r]) : i <= n + 1
    BY <1>1
  <2>3. ASSUME NEW i \in Items, i > n
        PROVE  i \notin Taken(js[r]) \cup {js[r].text}
    <3>1. i # NoItem
      BY Bounds
    <3>. QED  BY <1>1, <2>3, <3>1
  <2>. QED  BY <1>1, <2>1, <2>2, <2>3
<1>3. \A i \in Items : \A q, r \in Runs :
         /\ i \in Taken(js[q]) \cup {js[q].text}
         /\ i \in Taken(js[r]) \cup {js[r].text}
         => q = r
  BY DEF Held
<1>4. Held(js, n + 1)
  BY <1>2, <1>3 DEF Held
<1>. QED  BY <1>2, <1>4 DEF Free

\* Inputs nobody holds get one run each.
LEMMA PlacedHeld ==
    ASSUME NEW js, NEW ks, NEW n, Held(js, n), NEW items \in SUBSET Items,
           \A i \in items : i <= n /\ Free(js, i),
           \A r \in Runs : ks[r] # js[r] => /\ Taken(ks[r]) = {}
                                            /\ ks[r].text \in items \cup {NoItem},
           \A q, r \in Runs : ks[q] # js[q] /\ ks[r] # js[r] /\ ks[q].text = ks[r].text
                                /\ ks[r].text # NoItem => q = r
    PROVE  Held(ks, n)
<1>1. ASSUME NEW r \in Runs
      PROVE  /\ ks[r].text # NoItem => ks[r].text <= n
             /\ \A i \in Taken(ks[r]) : i <= n
             /\ ks[r].text \notin Taken(ks[r])
  <2>1. CASE ks[r] = js[r]
    BY <2>1 DEF Held
  <2>2. CASE ks[r] # js[r]
    BY <2>2
  <2>. QED  BY <2>1, <2>2
<1>2. ASSUME NEW i \in Items, NEW q \in Runs, NEW r \in Runs,
             i \in Taken(ks[q]) \cup {ks[q].text},
             i \in Taken(ks[r]) \cup {ks[r].text}
      PROVE  q = r
  <2>1. i # NoItem
    BY Bounds
  <2>2. CASE ks[q] = js[q] /\ ks[r] = js[r]
    BY <1>2, <2>2 DEF Held
  <2>3. CASE ks[q] # js[q] /\ ks[r] # js[r]
    <3>1. ks[q].text = i /\ ks[r].text = i
      BY <1>2, <2>3
    <3>. QED  BY <2>1, <2>3, <3>1
  <2>4. CASE ks[q] # js[q] /\ ks[r] = js[r]
    <3>1. ks[q].text = i /\ i \in items
      BY <1>2, <2>1, <2>4
    <3>. QED  BY <1>2, <2>4, <3>1 DEF Free
  <2>5. CASE ks[q] = js[q] /\ ks[r] # js[r]
    <3>1. ks[r].text = i /\ i \in items
      BY <1>2, <2>1, <2>5
    <3>. QED  BY <1>2, <2>5, <3>1 DEF Free
  <2>. QED  BY <2>2, <2>3, <2>4, <2>5
<1>. QED  BY <1>1, <1>2 DEF Held

LEMMA RequeueHeld ==
    ASSUME NEW js, JobsFit(js), NEW items \in SUBSET Items,
           Used(js) + Cardinality(items) <= MaxRuns,
           NEW n, Held(js, n), \A i \in items : i <= n /\ Free(js, i)
    PROVE  Held(RequeueAll(js, items), n)
<1>. DEFINE ks == RequeueAll(js, items)
<1>1. /\ Posts(js, ks, Cardinality(items)) /\ Cardinality(items) \in Nat
      /\ \A r \in Runs : ks[r] # js[r] =>
           /\ ks[r].text \in items /\ Rank(items, ks[r].text) = r - Used(js)
  BY RequeuePosts, Ranks
<1>. PICK m \in 0..MaxRuns : m = Used(js)
  BY UsedType
<1>. m \in Int /\ \A r \in Runs : r \in Int
  BY Bounds
<1>. HIDE DEF ks
<1>2. ASSUME NEW r \in Runs, ks[r] # js[r]
      PROVE  Taken(ks[r]) = {} /\ ks[r].text \in items
  <2>1. Cardinality(items) \in Int
    BY <1>1
  <2>2. m < r /\ r <= m + Cardinality(items)
    BY <1>1, <1>2, <2>1 DEF Posts
  <2>. QED  BY <1>1, <1>2, <2>2 DEF Posts, Fresh, Taken
<1>3. ASSUME NEW q \in Runs, NEW r \in Runs, ks[q] # js[q], ks[r] # js[r],
             ks[q].text = ks[r].text
      PROVE  q = r
  <2>1. q - m = r - m
    BY <1>1, <1>3
  <2>. QED  BY <2>1
<1>4. Held(ks, n)
  BY <1>2, <1>3, PlacedHeld
<1>. QED  BY <1>4 DEF ks

LEMMA EnqueueHeld ==
    ASSUME NEW js, JobsFit(js), HasRoom(js, 1), NEW k \in {"operator", "selection"},
           NEW t \in Items \cup {NoItem}, NEW n, Held(js, n),
           t # NoItem => t <= n /\ Free(js, t)
    PROVE  Held(Enqueue(js, k, t), n)
<1>. DEFINE ks == Enqueue(js, k, t)
<1>1. /\ \A r \in Runs : ks[r] = IF r = Used(js) + 1 THEN Posted(k, t) ELSE js[r]
      /\ Fresh(Posted(k, t)) /\ Posted(k, t).text = t
  BY EnqueuePosts
<1>2. Taken(Posted(k, t)) = {}
  BY <1>1 DEF Fresh, Taken
<1>. HIDE DEF ks
<1>3. \A r \in Runs : ks[r] # js[r] => Taken(ks[r]) = {} /\ ks[r].text = t
  BY <1>1, <1>2
<1>. DEFINE items == Items \cap {t}
<1>4. items \in SUBSET Items /\ \A i \in items : i <= n /\ Free(js, i)
  BY Bounds
<1>5. t \in items \cup {NoItem}
  OBVIOUS
<1>. HIDE DEF items
<1>6. \A r \in Runs : ks[r] # js[r] => Taken(ks[r]) = {} /\ ks[r].text \in items \cup {NoItem}
  BY <1>3, <1>5
<1>7. \A q, r \in Runs : ks[q] # js[q] /\ ks[r] # js[r] /\ ks[q].text = ks[r].text
                            /\ ks[r].text # NoItem => q = r
  BY <1>1
<1>8. Held(ks, n)
  BY <1>4, <1>6, <1>7, PlacedHeld
<1>. QED  BY <1>8 DEF ks

-------------------------------------------------------------------------------
(* The end of a run, and a message. *)

\* complete leaves the list in order: what the run took gets runs of its own.
LEMMA CompleteFits ==
    ASSUME NEW js, JobsFit(js), NEW r \in ListedIn(js, "running"), NEW failed \in BOOLEAN,
           NEW n, Held(js, n), HasRoom(js, Cardinality(Leftover(js[r], failed)))
    PROVE  LET ks == Complete(js, r, failed) IN
           /\ JobsFit(ks) /\ Onward(js, ks) /\ Held(ks, n)
           /\ ks[r].status = IF failed THEN "failed" ELSE "completed"
           /\ \A q \in Runs : js[q].status # "unused" /\ q # r => ks[q] = js[q]
           /\ \A i \in Leftover(js[r], failed) : \E q \in Runs :
                 ks[q].text = i /\ ks[q].status = "queued"
<1>. DEFINE k == [js[r] EXCEPT !.status = IF failed THEN "failed" ELSE "completed",
                               !.error = IF failed THEN "agent" ELSE "",
                               !.done = TRUE, !.feedback = {}, !.accepted = {}]
            es == [js EXCEPT ![r] = k]
            items == Leftover(js[r], failed)
            ks == Complete(js, r, failed)
<1>1. js \in [Runs -> JobType] /\ r \in Runs /\ js[r] \in JobType /\ js[r].status = "running"
  BY DEF JobsFit, ListedIn, Listed
<1>2. ks = RequeueAll(es, items)
  BY <1>1 DEF Complete
<1>3. k \in JobType
  BY <1>1 DEF JobType, Ended
<1>4. k.status = (IF failed THEN "failed" ELSE "completed") /\ k.done = TRUE
  BY <1>1 DEF JobType, Ended
<1>5. k.text = js[r].text /\ k.feedback = {} /\ k.accepted = {}
  BY <1>1 DEF JobType, Ended
<1>6. items \in SUBSET Items /\ items \subseteq Taken(js[r])
  BY <1>1 DEF JobType, Ended, Leftover, Taken
<1>. HIDE DEF k
<1>7. k.status \in {"failed", "completed"}
  BY <1>4
<1>8. Moves(js[r], k) /\ Taken(k) = {}
  BY <1>1, <1>4, <1>5, <1>7 DEF Moves, Taken, Ended
<1>9. Quiet(js, es)
  BY <1>1, <1>3, <1>8, OneMoves
<1>10. Keeps(js, es)
  BY <1>1, <1>5, <1>8, OneKeeps
<1>11. \A q \in Runs : es[q] = IF q = r THEN k ELSE js[q]
  BY <1>1
<1>. HIDE DEF es, items, ks
<1>12. JobsFit(es) /\ Used(es) = Used(js) /\ Listed(es) = Listed(js)
  BY <1>9, QuietFits
<1>13. Onward(js, es)
  BY <1>7, <1>9, <1>11, QuietOnward
<1>14. Held(es, n)
  BY <1>10, KeepsHeld
<1>15. Used(es) + Cardinality(items) <= MaxRuns /\ Cardinality(items) \in Nat
  BY <1>6, <1>12, Ranks DEF HasRoom, items
<1>16. /\ Posts(es, ks, Cardinality(items))
       /\ \A i \in items : \E q \in Runs : ks[q].status = "queued" /\ ks[q].text = i
  BY <1>2, <1>6, <1>12, <1>15, RequeuePosts
<1>17. JobsFit(ks) /\ Onward(es, ks) /\ \A q \in Runs : es[q].status # "unused" => ks[q] = es[q]
  BY <1>12, <1>15, <1>16, PostsFits, PostsOnward
<1>18. Onward(js, ks)
  BY <1>13, <1>17, OnwardTwice
<1>19. \A i \in items : i <= n /\ Free(es, i)
  <2>1. ASSUME NEW i \in items
        PROVE  i <= n /\ i \in Items /\ i \in Taken(js[r])
    BY <1>1, <1>6 DEF Held
  <2>2. ASSUME NEW i \in items, NEW q \in Runs
        PROVE  i \notin Taken(es[q]) \cup {es[q].text}
    <3>1. CASE q = r
      <4>1. js[r].text \notin Taken(js[r])
        BY <1>1 DEF Held
      <4>. QED  BY <1>5, <1>8, <1>11, <2>1, <3>1, <4>1
    <3>2. CASE q # r
      <4>1. i \notin Taken(js[q]) \cup {js[q].text}
        BY <1>1, <2>1, <3>2 DEF Held
      <4>. QED  BY <1>11, <3>2, <4>1
    <3>. QED  BY <3>1, <3>2
  <2>. QED  BY <2>1, <2>2 DEF Free
<1>20. Held(ks, n)
  BY <1>2, <1>6, <1>12, <1>14, <1>15, <1>19, RequeueHeld
<1>21. ks[r].status = (IF failed THEN "failed" ELSE "completed")
  BY <1>1, <1>4, <1>7, <1>11, <1>17
<1>22. \A q \in Runs : js[q].status # "unused" /\ q # r => ks[q] = js[q]
  BY <1>11, <1>17
<1>. QED  BY <1>16, <1>17, <1>18, <1>20, <1>21, <1>22 DEF ks, items

\* A new message goes to the leased run or gets a run of its own.
LEMMA HearFits ==
    ASSUME NEW js, JobsFit(js), NEW n \in Nat, n < MaxItems, Held(js, n), HasRoom(js, 1)
    PROVE  LET ks == Hear(js, n + 1) IN
           /\ JobsFit(ks) /\ Onward(js, ks) /\ Silent(js, ks) /\ Held(ks, n + 1)
<1>. DEFINE i == n + 1
            ks == Hear(js, i)
<1>1. i \in Items /\ i > n /\ i <= n + 1
  BY Bounds DEF Items
<1>2. Held(js, n + 1) /\ Free(js, i)
  BY <1>1, HeldLater
<1>3. CASE ListedIn(js, "running") = {}
  <2>1. ks = Enqueue(js, "operator", i)
    BY <1>3 DEF Hear
  <2>. HIDE DEF ks, i
  <2>2. Posts(js, ks, 1)
    BY <1>1, <2>1, EnqueuePosts
  <2>3. 1 \in Nat /\ Used(js) + 1 <= MaxRuns
    BY DEF HasRoom
  <2>4. JobsFit(ks) /\ Onward(js, ks) /\ Silent(js, ks)
    BY <2>2, <2>3, PostsFits, PostsOnward
  <2>5. Held(ks, n + 1)
    BY <1>1, <1>2, <2>1, EnqueueHeld
  <2>. QED  BY <2>4, <2>5 DEF ks, i
<1>4. CASE ListedIn(js, "running") # {}
  <2>. PICK r \in ListedIn(js, "running") : TRUE
    BY <1>4
  <2>. DEFINE k == [js[r] EXCEPT !.feedback = @ \cup {i}]
  <2>1. js \in [Runs -> JobType] /\ r \in Runs /\ js[r] \in JobType /\ js[r].status = "running"
    BY DEF JobsFit, ListedIn, Listed
  <2>2. \A q \in Runs : q \in ListedIn(js, "running") <=> q = r
    BY DEF JobsFit, RunsFit
  <2>3. ks = [q \in Runs |-> IF q = r THEN k ELSE js[q]]
    BY <1>4, <2>2 DEF Hear
  <2>4. ks = [js EXCEPT ![r] = k]
    BY <2>1, <2>3
  <2>. HIDE DEF i
  <2>5. k \in JobType
    BY <1>1, <2>1 DEF JobType, Ended
  <2>6. k.status = js[r].status /\ k.done = js[r].done /\ k.error = js[r].error
    BY <2>1 DEF JobType, Ended
  <2>7. k.text = js[r].text /\ k.feedback = js[r].feedback \cup {i} /\ k.accepted = js[r].accepted
    BY <2>1 DEF JobType, Ended
  <2>. HIDE DEF k, ks
  <2>8. Moves(js[r], k) /\ Unanswered(js[r], k)
    BY <2>1, <2>6 DEF Moves, Unanswered, Ended
  <2>9. Quiet(js, ks) /\ Silent(js, ks)
    BY <2>1, <2>4, <2>5, <2>8, OneMoves, OneSilent
  <2>10. JobsFit(ks) /\ Onward(js, ks)
    BY <2>9, QuietFits, SilentOnward
  <2>11. \A q \in Runs : ks[q] = IF q = r THEN k ELSE js[q]
    BY <2>3
  <2>12. Taken(k) = Taken(js[r]) \cup {i}
    BY <2>7 DEF Taken
  <2>13. ASSUME NEW q \in Runs
         PROVE  /\ ks[q].text # NoItem => ks[q].text <= n + 1
                /\ \A j \in Taken(ks[q]) : j <= n + 1
                /\ ks[q].text \notin Taken(ks[q])
    <3>1. CASE q = r
      BY <1>1, <1>2, <2>1, <2>7, <2>11, <2>12, <3>1 DEF Held, Free
    <3>2. CASE q # r
      BY <1>2, <2>11, <3>2 DEF Held
    <3>. QED  BY <3>1, <3>2
  <2>14. ASSUME NEW j \in Items, NEW p \in Runs, NEW q \in Runs,
                j \in Taken(ks[p]) \cup {ks[p].text},
                j \in Taken(ks[q]) \cup {ks[q].text}
         PROVE  p = q
    <3>1. CASE j = i
      <4>1. \A l \in Runs : l # r => j \notin Taken(ks[l]) \cup {ks[l].text}
        BY <1>2, <2>11, <3>1 DEF Free
      <4>. QED  BY <2>14, <4>1
    <3>2. CASE j # i
      <4>1. j \in Taken(js[p]) \cup {js[p].text} /\ j \in Taken(js[q]) \cup {js[q].text}
        BY <2>7, <2>11, <2>12, <2>14, <3>2
      <4>. QED  BY <1>2, <4>1 DEF Held
    <3>. QED  BY <3>1, <3>2
  <2>15. Held(ks, n + 1)
    BY <2>13, <2>14 DEF Held
  <2>. QED  BY <2>9, <2>10, <2>15 DEF ks, i
<1>. QED  BY <1>3, <1>4

-------------------------------------------------------------------------------
(* Plans. *)

\* What may become of a plan: it is decided once, and a session approval stays.
Settles(a, b) ==
    /\ b.run = a.run /\ b.selection = a.selection
    /\ a.status = "unused" => b.status = "unused"
    /\ a.status # "unused" => b.status # "unused"
    /\ a.status \notin {"unused", "pending_approval"} => b.status = a.status
    /\ a.session => b.session
    /\ b.session => b.status = "approved"
    /\ b.by = "session_grant" => a.by = "session_grant"

AllSettle(ps, qs) == qs \in [Plans -> PlanType] /\ \A p \in Plans : Settles(ps[p], qs[p])

LEMMA SettlesFits ==
    ASSUME NEW js, NEW ps, NEW qs, NEW gs, PlansFit(js, ps), GrantsFit(ps, gs),
           AllSettle(ps, qs)
    PROVE  /\ PlansFit(js, qs) /\ GrantsFit(qs, gs)
           /\ PendingPlans(qs) \subseteq PendingPlans(ps)
<1>1. PendingPlans(qs) \subseteq PendingPlans(ps)
  BY DEF AllSettle, Settles, PendingPlans
<1>2. ASSUME NEW p \in Plans
      PROVE  /\ qs[p].run # NoRun => js[qs[p].run].status \notin {"unused", "queued"}
             /\ qs[p].status # "unused" => qs[p].run # NoRun /\ qs[p].selection # NoSelection
             /\ qs[p].session => qs[p].status = "approved"
             /\ qs[p].by = "session_grant" => qs[p].status # "unused"
  BY DEF AllSettle, Settles, PlansFit
<1>3. \A p \in Plans : qs[p].run = ps[p].run /\ qs[p].selection = ps[p].selection
  BY DEF AllSettle, Settles
<1>4. \A p, q \in PendingPlans(qs) : qs[p].run = qs[q].run
  BY <1>1, <1>3 DEF PlansFit, PendingPlans
<1>5. \A r \in ListedIn(js, "running"), p \in PendingPlans(qs) : qs[p].run = r
  BY <1>1, <1>3 DEF PlansFit, PendingPlans
<1>6. \A r \in Runs : js[r].status = "running" /\ js[r].done =>
         \E p \in Plans : qs[p].run = r /\ qs[p].status = "approved"
  BY DEF AllSettle, Settles, PlansFit
<1>7. PlansFit(js, qs)
  BY <1>2, <1>4, <1>5, <1>6 DEF PlansFit
<1>8. \A d : Backed(ps, d) => Backed(qs, d)
  BY DEF AllSettle, Settles, Backed
<1>9. GrantsFit(qs, gs)
  BY <1>3, <1>8 DEF AllSettle, Settles, GrantsFit
<1>. QED  BY <1>1, <1>7, <1>9

LEMMA PlanSettlesItself ==
    ASSUME NEW js, NEW ps \in [Plans -> PlanType], PlansFit(js, ps)
    PROVE  AllSettle(ps, ps)
BY DEF AllSettle, Settles, PlansFit

\* An open plan is decided.
LEMMA OneSettles ==
    ASSUME NEW js, NEW ps \in [Plans -> PlanType], PlansFit(js, ps),
           NEW p \in Plans, NEW b \in PlanType, Settles(ps[p], b)
    PROVE  AllSettle(ps, [ps EXCEPT ![p] = b])
<1>1. \A q \in Plans : [ps EXCEPT ![p] = b][q] = IF q = p THEN b ELSE ps[q]
  OBVIOUS
<1>2. AllSettle(ps, ps)
  BY PlanSettlesItself
<1>. QED  BY <1>1, <1>2 DEF AllSettle

LEMMA ExpireSettles ==
    ASSUME NEW js, NEW ps \in [Plans -> PlanType], PlansFit(js, ps)
    PROVE  AllSettle(ps, ExpirePlans(ps))
<1>. DEFINE qs == ExpirePlans(ps)
<1>1. ASSUME NEW p \in Plans
      PROVE  qs[p] \in PlanType /\ Settles(ps[p], qs[p])
  <2>1. ps[p] \in PlanType /\ Settles(ps[p], ps[p])
    BY PlanSettlesItself DEF AllSettle
  <2>2. CASE ps[p].status = "pending_approval" /\ ps[p].overdue
    <3>1. qs[p] = [ps[p] EXCEPT !.status = "expired", !.by = "timeout"]
      BY <2>2 DEF ExpirePlans
    <3>. HIDE DEF qs
    <3>2. qs[p] \in PlanType
      BY <2>1, <3>1 DEF PlanType
    <3>3. qs[p].status = "expired" /\ qs[p].by = "timeout"
      BY <2>1, <3>1 DEF PlanType
    <3>4. /\ qs[p].run = ps[p].run /\ qs[p].selection = ps[p].selection
          /\ qs[p].session = ps[p].session
      BY <2>1, <3>1 DEF PlanType
    <3>5. ~ps[p].session
      BY <2>2 DEF PlansFit
    <3>. QED  BY <2>2, <3>2, <3>3, <3>4, <3>5 DEF Settles
  <2>3. CASE ~(ps[p].status = "pending_approval" /\ ps[p].overdue)
    <3>1. qs[p] = ps[p]
      BY <2>3 DEF ExpirePlans
    <3>. QED  BY <2>1, <3>1
  <2>. QED  BY <2>2, <2>3
<1>2. qs \in [Plans -> PlanType]
  BY <1>1 DEF ExpirePlans
<1>. HIDE DEF qs
<1>3. AllSettle(ps, qs)
  BY <1>1, <1>2 DEF AllSettle
<1>. QED  BY <1>3 DEF qs

\* Decisions are final.
Final(ps, qs) ==
    \A p \in Plans : ps[p].status \notin {"unused", "pending_approval"} =>
                         qs[p].status = ps[p].status

LEMMA SettlesFinal ==
    ASSUME NEW ps, NEW qs, AllSettle(ps, qs)
    PROVE  Final(ps, qs)
BY DEF AllSettle, Settles, Final

LEMMA FinalTwice ==
    ASSUME NEW ps, NEW qs, NEW rs, Final(ps, qs), Final(qs, rs)
    PROVE  Final(ps, rs)
BY DEF Final

-------------------------------------------------------------------------------
(* The steps of the broker. *)

\* The input of a run whose end its worker reports is queued again.
Returns(js, ks) ==
    \A r \in Runs :
        /\ js[r].status = "running"
        /\ ks[r].status = "completed" \/ ks[r].error = "agent"
        => \A i \in js[r].feedback \cup
                (IF ks[r].status = "failed" THEN js[r].accepted ELSE {}) :
               \E q \in Runs : ks[q].text = i /\ ks[q].status = "queued"

LEMMA SilentReturns ==
    ASSUME NEW js, NEW ks, JobsFit(js), Silent(js, ks)
    PROVE  Returns(js, ks)
<1>1. ASSUME NEW r \in Runs, js[r].status = "running"
      PROVE  ks[r].status # "completed" /\ ks[r].error # "agent"
  BY <1>1 DEF Silent, Unanswered, JobsFit, RunsFit
<1>. QED  BY <1>1 DEF Returns

RestOK ==
    /\ mode \in UsedModes
    /\ awaiting \in Runs \cup {NoRun}
    /\ received \in [run : Runs \cup {NoRun}, selection : Selections \cup {NoSelection}]
    /\ worker \in [run : Runs \cup {NoRun}, polls : Plans \cup {NoPlan},
                   delivered : SUBSET Items]
    /\ said \in 0..MaxItems

\* What is shown of every step.
StepFits == IInv' /\ Returns(jobs, jobs') /\ Final(plans, plans')

\* A step that leases no run and submits no plan.
LEMMA PlainStep ==
    ASSUME IInv, RestOK', JobsFit(jobs'), Onward(jobs, jobs'), Returns(jobs, jobs'),
           Held(jobs', said'), AllSettle(plans, plans'), grants' \subseteq grants
    PROVE  StepFits
<1>1. PlansFit(jobs', plans)
  BY PlansFitOn DEF IInv, TypeOK
<1>2. PlansFit(jobs', plans') /\ GrantsFit(plans', grants)
  BY <1>1, SettlesFits DEF IInv
<1>3. GrantsFit(plans', grants')
  BY <1>2 DEF GrantsFit
<1>4. TypeOK'
  BY DEF TypeOK, IInv, RestOK, JobsFit, AllSettle
<1>5. Final(plans, plans')
  BY SettlesFinal
<1>6. IInv'
  BY <1>2, <1>3, <1>4 DEF IInv
<1>. QED  BY <1>5, <1>6 DEF StepFits

\* Of these, a step that only changes runs already posted.
LEMMA QuietStep ==
    ASSUME IInv, RestOK', Quiet(jobs, jobs'), Silent(jobs, jobs'), Keeps(jobs, jobs'),
           AllSettle(plans, plans'), grants' \subseteq grants, said' = said
    PROVE  StepFits
<1>1. JobsFit(jobs') /\ Onward(jobs, jobs')
  BY QuietFits, SilentOnward DEF IInv
<1>2. Returns(jobs, jobs')
  BY SilentReturns DEF IInv
<1>3. Held(jobs', said')
  BY KeepsHeld DEF IInv
<1>. QED  BY <1>1, <1>2, <1>3, PlainStep

LEMMA Still ==
    ASSUME IInv
    PROVE  /\ Quiet(jobs, jobs) /\ Silent(jobs, jobs) /\ Keeps(jobs, jobs)
           /\ AllSettle(plans, plans) /\ grants \subseteq grants
           /\ RestOK /\ jobs \in [Runs -> JobType] /\ plans \in [Plans -> PlanType]
           /\ said \in Nat
BY StaysQuiet, PlanSettlesItself, Bounds DEF IInv, TypeOK, RestOK

LEMMA StutterFits ==
    ASSUME IInv, UNCHANGED vars
    PROVE  StepFits
<1>1. RestOK'
  BY Still DEF RestOK, vars
<1>2. /\ Quiet(jobs, jobs') /\ Silent(jobs, jobs') /\ Keeps(jobs, jobs')
      /\ AllSettle(plans, plans') /\ grants' \subseteq grants /\ said' = said
  BY Still DEF vars
<1>. QED  BY <1>1, <1>2, QuietStep

-------------------------------------------------------------------------------
(* The scheduler. *)

LEMMA ProvideSelectionFits ==
    ASSUME IInv, ProvideSelection
    PROVE  StepFits
<1>. JobsFit(jobs) /\ Held(jobs, said)
  BY DEF IInv
<1>1. /\ HasRoom(jobs, 1) /\ jobs' = Enqueue(jobs, "selection", NoItem)
      /\ awaiting' = Used(jobs) + 1 /\ said' = said /\ plans' = plans /\ grants' = grants
  BY DEF ProvideSelection
<1>2. Posts(jobs, jobs', 1) /\ Used(jobs) + 1 \in Runs
  BY <1>1, EnqueuePosts
<1>3. Used(jobs) + 1 <= MaxRuns /\ 1 \in Nat
  BY <1>1 DEF HasRoom
<1>4. JobsFit(jobs') /\ Onward(jobs, jobs') /\ Silent(jobs, jobs')
  BY <1>2, <1>3, PostsFits, PostsOnward
<1>5. Held(jobs', said')
  BY <1>1, EnqueueHeld
<1>6. RestOK'
  BY <1>1, <1>2, Still DEF RestOK, ProvideSelection
<1>7. AllSettle(plans, plans') /\ grants' \subseteq grants
  BY <1>1, Still
<1>. QED  BY <1>4, <1>5, <1>6, <1>7, SilentReturns, PlainStep

LEMMA AwaitReturnsFits ==
    ASSUME IInv, AwaitReturns
    PROVE  StepFits
<1>1. /\ jobs' = jobs /\ plans' = plans /\ grants' = grants /\ said' = said
  BY DEF AwaitReturns
<1>2. awaiting \in Runs /\ jobs[awaiting] \in JobType
  BY Still DEF AwaitReturns, RestOK
<1>3. jobs[awaiting].result \in Selections \cup {NoSelection}
  BY <1>2 DEF JobType, Ended
<1>4. RestOK'
  BY <1>2, <1>3, Still DEF RestOK, AwaitReturns
<1>. QED  BY <1>1, <1>4, Still, QuietStep

LEMMA AwaitTimesOutFits ==
    ASSUME IInv, AwaitTimesOut
    PROVE  StepFits
<1>1. /\ jobs' = Cancel(jobs, awaiting) /\ plans' = plans /\ grants' = grants /\ said' = said
  BY DEF AwaitTimesOut
<1>2. awaiting \in Runs
  BY Still DEF AwaitTimesOut, RestOK
<1>3. Quiet(jobs, jobs') /\ Silent(jobs, jobs') /\ Keeps(jobs, jobs')
  BY <1>1, <1>2, CancelIsQuiet DEF IInv
<1>4. RestOK'
  BY <1>2, Still DEF RestOK, AwaitTimesOut
<1>. QED  BY <1>1, <1>3, <1>4, Still, QuietStep

-------------------------------------------------------------------------------
(* The worker. *)

LEMMA ClaimNextFits ==
    ASSUME IInv, ClaimNext
    PROVE  StepFits
<1>. DEFINE js == ExpireLeases(jobs)
            ps == ExpirePlans(plans)
<1>1. /\ Quiet(jobs, js) /\ Silent(jobs, js) /\ Keeps(jobs, js)
  BY ExpireIsQuiet DEF IInv
<1>2. AllSettle(plans, ps)
  BY Still, ExpireSettles DEF IInv
<1>3. plans' = ps /\ grants' = grants /\ said' = said
  BY DEF ClaimNext
<1>4. \/ /\ MayClaim(js, ps)
         /\ \E r \in Runs :
              /\ Claimable(js, r)
              /\ jobs' = [js EXCEPT ![r].status = "running", ![r].overdue = FALSE]
              /\ worker' = [IdleWorker EXCEPT !.run = r]
      \/ jobs' = js /\ worker' = worker
  BY DEF ClaimNext
<1>. HIDE DEF js, ps
<1>5. CASE jobs' = js /\ worker' = worker
  <2>1. RestOK'
    BY <1>5, Still DEF RestOK, ClaimNext
  <2>. QED  BY <1>1, <1>2, <1>3, <1>5, <2>1, QuietStep
<1>6. ASSUME MayClaim(js, ps), NEW r \in Runs, Claimable(js, r),
             jobs' = [js EXCEPT ![r].status = "running", ![r].overdue = FALSE],
             worker' = [IdleWorker EXCEPT !.run = r]
      PROVE  StepFits
  <2>1. /\ ListedIn(js, "running") = {} /\ PendingPlans(ps) = {} /\ r \in ListedIn(js, "queued")
    BY <1>6 DEF MayClaim, Claimable
  <2>2. JobsFit(js) /\ Held(js, said) /\ Onward(jobs, js)
    BY <1>1, QuietFits, SilentOnward, KeepsHeld DEF IInv
  <2>3. /\ JobsFit(jobs') /\ Keeps(js, jobs') /\ Silent(js, jobs')
        /\ ListedIn(jobs', "running") = {r}
        /\ \A q \in Runs : q # r => jobs'[q] = js[q]
        /\ jobs'[r].status = "running" /\ ~jobs'[r].done
    <3>. DEFINE ks == [js EXCEPT ![r].status = "running", ![r].overdue = FALSE]
    <3>1. /\ JobsFit(ks) /\ Keeps(js, ks) /\ Silent(js, ks)
          /\ ListedIn(ks, "running") = {r}
          /\ \A q \in Runs : q # r => ks[q] = js[q]
          /\ ks[r].status = "running" /\ ~ks[r].done
      BY <2>1, <2>2, ClaimFits
    <3>2. jobs' = ks
      BY <1>6
    <3>. HIDE DEF ks
    <3>. QED  BY <3>1, <3>2
  <2>4. Held(jobs', said')
    BY <1>3, <2>2, <2>3, KeepsHeld
  <2>5. Returns(jobs, jobs')
    BY <1>1, <2>3, SilentTwice, SilentReturns DEF IInv
  <2>6. ps \in [Plans -> PlanType] /\ Final(plans, plans')
    BY <1>2, <1>3, SettlesFinal DEF AllSettle
  <2>7. PlansFit(js, ps) /\ GrantsFit(ps, grants)
    <3>1. PlansFit(js, plans)
      BY <2>2, Still, PlansFitOn DEF IInv
    <3>. QED  BY <1>2, <3>1, SettlesFits DEF IInv
  <2>8. PlansFit(jobs', ps)
    <3>1. ASSUME NEW p \in Plans
          PROVE  /\ ps[p].run # NoRun => jobs'[ps[p].run].status \notin {"unused", "queued"}
                 /\ ps[p].status # "unused" =>
                        ps[p].run # NoRun /\ ps[p].selection # NoSelection
                 /\ ps[p].session => ps[p].status = "approved"
                 /\ ps[p].by = "session_grant" => ps[p].status # "unused"
      <4>1. ps[p].run # NoRun => ps[p].run \in Runs
        BY <2>6 DEF PlanType
      <4>2. ps[p].run # NoRun => jobs'[ps[p].run].status \notin {"unused", "queued"}
        BY <2>3, <2>7, <4>1 DEF PlansFit
      <4>. QED  BY <2>7, <4>2 DEF PlansFit
    <3>2. \A q \in Runs : jobs'[q].status = "running" /\ jobs'[q].done =>
             \E p \in Plans : ps[p].run = q /\ ps[p].status = "approved"
      BY <2>3, <2>7 DEF PlansFit
    <3>. QED  BY <2>1, <3>1, <3>2 DEF PlansFit
  <2>9. worker' \in [run : Runs \cup {NoRun}, polls : Plans \cup {NoPlan},
                     delivered : SUBSET Items]
    BY <1>6 DEF IdleWorker
  <2>10. TypeOK'
    BY <1>3, <2>3, <2>6, <2>9, Still DEF TypeOK, IInv, JobsFit, ClaimNext
  <2>11. IInv'
    BY <1>3, <2>3, <2>4, <2>7, <2>8, <2>10 DEF IInv
  <2>. QED  BY <2>5, <2>6, <2>11 DEF StepFits
<1>. QED  BY <1>4, <1>5, <1>6

LEMMA HeartbeatFits ==
    ASSUME IInv, Heartbeat
    PROVE  StepFits
<1>. DEFINE r == worker.run
            acked == worker.delivered \cap jobs[r].feedback
<1>1. plans' = plans /\ grants' = grants /\ said' = said /\ r # NoRun
  BY DEF Heartbeat
<1>2. CASE Active(jobs, r)
  <2>. DEFINE k == [jobs[r] EXCEPT !.overdue = FALSE,
                                   !.accepted = jobs[r].accepted \cup acked,
                                   !.feedback = jobs[r].feedback \ acked]
  <2>1. /\ jobs \in [Runs -> JobType] /\ r \in Runs /\ jobs[r] \in JobType
        /\ jobs[r].status = "running" /\ jobs[r].error = ""
    BY <1>2 DEF Active, IInv, JobsFit, RunsFit, ListedIn, Listed
  <2>2. /\ jobs' = [jobs EXCEPT ![r].overdue = FALSE, ![r].accepted = @ \cup acked,
                                ![r].feedback = @ \ acked]
        /\ worker' = [worker EXCEPT !.delivered = jobs[r].feedback \ acked]
    BY <1>2 DEF Heartbeat
  <2>3. jobs' = [jobs EXCEPT ![r] = k]
    BY <2>1, <2>2
  <2>4. k \in JobType
    BY <2>1 DEF JobType, Ended
  <2>5. k.status = jobs[r].status /\ k.done = jobs[r].done /\ k.error = jobs[r].error
    BY <2>1 DEF JobType, Ended
  <2>6. /\ k.text = jobs[r].text /\ k.accepted = jobs[r].accepted \cup acked
        /\ k.feedback = jobs[r].feedback \ acked
    BY <2>1 DEF JobType, Ended
  <2>7. jobs[r].feedback \in SUBSET Items
    BY <2>1 DEF JobType, Ended
  <2>8. RestOK'
    BY <2>2, <2>7, Still DEF RestOK, Heartbeat
  <2>. HIDE DEF k
  <2>9. Moves(jobs[r], k) /\ Unanswered(jobs[r], k)
    BY <2>1, <2>5 DEF Moves, Unanswered, Ended
  <2>10. Taken(k) \subseteq Taken(jobs[r])
    BY <2>6 DEF Taken
  <2>11. Quiet(jobs, jobs') /\ Silent(jobs, jobs') /\ Keeps(jobs, jobs')
    BY <2>1, <2>3, <2>4, <2>6, <2>9, <2>10, OneMoves, OneSilent, OneKeeps DEF IInv
  <2>. QED  BY <1>1, <2>8, <2>11, Still, QuietStep
<1>3. CASE ~Active(jobs, r)
  <2>1. jobs' = jobs /\ worker' = IdleWorker
    BY <1>3 DEF Heartbeat
  <2>2. RestOK'
    BY <2>1, Still DEF RestOK, Heartbeat, IdleWorker
  <2>. QED  BY <1>1, <2>1, <2>2, Still, QuietStep
<1>. QED  BY <1>2, <1>3

LEMMA PollEndsFits ==
    ASSUME IInv, PollEnds \/ WorkerDies
    PROVE  StepFits
<1>1. /\ jobs' = jobs /\ plans' = plans /\ grants' = grants /\ said' = said
      /\ mode' = mode /\ awaiting' = awaiting /\ received' = received
      /\ worker' = [worker EXCEPT !.polls = NoPlan] \/ worker' = IdleWorker
  BY DEF PollEnds, WorkerDies
<1>2. RestOK'
  BY <1>1, Still DEF RestOK, IdleWorker
<1>. QED  BY <1>1, <1>2, Still, QuietStep

LEMMA SubmitSelectionFits ==
    ASSUME IInv, NEW s \in Selections, SubmitSelection(s)
    PROVE  StepFits
<1>. DEFINE r == worker.run
<1>1. /\ Active(jobs, r) /\ jobs' = [jobs EXCEPT ![r].result = s]
      /\ grants' = grants /\ said' = said
  BY DEF SubmitSelection
<1>2. PICK p \in Plans :
        /\ plans[p].status = "unused"
        /\ plans' = [plans EXCEPT ![p] = SubmitPlan(r, s, p)]
        /\ worker' = [worker EXCEPT !.polls =
             IF plans'[p].status = "pending_approval" THEN p ELSE NoPlan]
  BY DEF SubmitSelection
<1>3. RestOK'
  BY <1>2, Still DEF RestOK, SubmitSelection
<1>. DEFINE k == [jobs[r] EXCEPT !.result = s]
            b == SubmitPlan(r, s, p)
<1>4. /\ jobs \in [Runs -> JobType] /\ r \in Runs /\ jobs[r] \in JobType
      /\ jobs[r].status = "running" /\ jobs[r].error = "" /\ r \in ListedIn(jobs, "running")
  BY <1>1 DEF Active, IInv, JobsFit, RunsFit, ListedIn, Listed
<1>5. jobs' = [jobs EXCEPT ![r] = k]
  BY <1>1, <1>4
<1>6. k \in JobType
  BY <1>4 DEF JobType, Ended
<1>7. k.status = jobs[r].status /\ k.done = jobs[r].done /\ k.error = jobs[r].error
  BY <1>4 DEF JobType, Ended
<1>8. k.text = jobs[r].text /\ k.accepted = jobs[r].accepted /\ k.feedback = jobs[r].feedback
  BY <1>4 DEF JobType, Ended
<1>. HIDE DEF k
<1>9. Moves(jobs[r], k) /\ Unanswered(jobs[r], k) /\ Taken(k) \subseteq Taken(jobs[r])
  BY <1>4, <1>7, <1>8 DEF Moves, Unanswered, Ended, Taken
<1>10. Quiet(jobs, jobs') /\ Silent(jobs, jobs') /\ Keeps(jobs, jobs')
  BY <1>4, <1>5, <1>6, <1>8, <1>9, OneMoves, OneSilent, OneKeeps DEF IInv
<1>11. JobsFit(jobs') /\ Onward(jobs, jobs') /\ Returns(jobs, jobs') /\ Held(jobs', said')
  BY <1>1, <1>10, QuietFits, SilentOnward, SilentReturns, KeepsHeld DEF IInv
<1>12. PlansFit(jobs', plans)
  BY <1>11, Still, PlansFitOn DEF IInv
<1>13. jobs'[r].status = "running"
  BY <1>4, <1>5, <1>7
<1>14. /\ b.run = r /\ b.selection = s /\ b.session = FALSE
       /\ b.status \in {"auto_approved", "pending_approval"}
       /\ b.by = "session_grant" => DomainOf[s] \in grants
       /\ b \in PlanType
  <2>. DEFINE st == IF Autonomous(s) \/ GrantCovers(s)
                    THEN "auto_approved" ELSE "pending_approval"
              by == CASE Autonomous(s) -> "autonomy"
                      [] ~Autonomous(s) /\ GrantCovers(s) -> "session_grant"
                      [] OTHER -> ""
  <2>1. UnusedPlan \in PlanType /\ UnusedPlan.session = FALSE
    BY DEF UnusedPlan, PlanType
  <2>2. b = [UnusedPlan EXCEPT !.status = st, !.run = r, !.selection = s, !.by = by]
    BY DEF SubmitPlan
  <2>3. st \in {"auto_approved", "pending_approval"}
    OBVIOUS
  <2>4. /\ by \in {"", "autonomy", "session_grant"}
        /\ by = "session_grant" => DomainOf[s] \in grants
    <3>1. CASE Autonomous(s)
      BY <3>1
    <3>2. CASE ~Autonomous(s) /\ GrantCovers(s)
      BY <3>2 DEF GrantCovers
    <3>3. CASE ~Autonomous(s) /\ ~GrantCovers(s)
      BY <3>3
    <3>. QED  BY <3>1, <3>2, <3>3
  <2>. HIDE DEF b, st, by
  <2>5. b \in PlanType
    BY <1>4, <2>1, <2>2, <2>3, <2>4 DEF PlanType
  <2>6. b.run = r /\ b.selection = s /\ b.status = st
    BY <2>1, <2>2 DEF PlanType
  <2>7. b.session = FALSE /\ b.by = by
    BY <2>1, <2>2 DEF PlanType
  <2>. QED  BY <2>3, <2>4, <2>5, <2>6, <2>7
<1>15. plans' = [plans EXCEPT ![p] = b]
  BY <1>2
<1>. HIDE DEF b
<1>16. /\ plans' \in [Plans -> PlanType]
       /\ \A q \in Plans : plans'[q] = IF q = p THEN b ELSE plans[q]
  BY <1>14, <1>15, Still
<1>17. PlansFit(jobs', plans')
  <2>1. ASSUME NEW q \in Plans
        PROVE  /\ plans'[q].run # NoRun => jobs'[plans'[q].run].status \notin {"unused", "queued"}
               /\ plans'[q].status # "unused" =>
                      plans'[q].run # NoRun /\ plans'[q].selection # NoSelection
               /\ plans'[q].session => plans'[q].status = "approved"
               /\ plans'[q].by = "session_grant" => plans'[q].status # "unused"
    <3>1. CASE q = p
      <4>1. plans'[q] = b /\ r # NoRun /\ s # NoSelection
        BY <1>4, <1>16, <3>1, Bounds
      <4>. QED  BY <1>13, <1>14, <4>1
    <3>2. CASE q # p
      BY <1>12, <1>16, <3>2 DEF PlansFit
    <3>. QED  BY <3>1, <3>2
  <2>2. ASSUME NEW q \in PendingPlans(plans')
        PROVE  plans'[q].run = r
    <3>1. CASE q = p
      BY <1>14, <1>16, <3>1 DEF PendingPlans
    <3>2. CASE q # p
      <4>1. q \in PendingPlans(plans) /\ plans'[q] = plans[q]
        BY <1>16, <3>2 DEF PendingPlans
      <4>2. \A l \in ListedIn(jobs, "running"), o \in PendingPlans(plans) : plans[o].run = l
        BY DEF IInv, PlansFit
      <4>. QED  BY <1>4, <4>1, <4>2
    <3>. QED  BY <3>1, <3>2
  <2>3. \A q \in ListedIn(jobs', "running") : q = r
    <3>1. ListedIn(jobs', "running") \subseteq ListedIn(jobs, "running")
      BY <1>11 DEF Onward
    <3>. QED  BY <1>4, <3>1 DEF IInv, JobsFit, RunsFit
  <2>4. ASSUME NEW q \in Runs, jobs'[q].status = "running", jobs'[q].done
        PROVE  \E o \in Plans : plans'[o].run = q /\ plans'[o].status = "approved"
    <3>1. PICK o \in Plans : plans[o].run = q /\ plans[o].status = "approved"
      BY <1>12, <2>4 DEF PlansFit
    <3>2. o # p
      BY <1>2, <3>1
    <3>. QED  BY <1>16, <3>1, <3>2
  <2>. QED  BY <2>1, <2>2, <2>3, <2>4 DEF PlansFit
<1>18. GrantsFit(plans', grants')
  <2>1. ASSUME NEW d, Backed(plans, d)
        PROVE  Backed(plans', d)
    <3>1. PICK q \in Plans : plans[q].session /\ DomainOf[plans[q].selection] = d
      BY <2>1 DEF Backed
    <3>2. q # p
      BY <1>2, <3>1 DEF IInv, PlansFit
    <3>. QED  BY <1>16, <3>1, <3>2 DEF Backed
  <2>2. \A d \in grants' : Backed(plans', d)
    BY <1>1, <2>1 DEF IInv, GrantsFit
  <2>3. ASSUME NEW q \in Plans, plans'[q].by = "session_grant"
        PROVE  Backed(plans', DomainOf[plans'[q].selection])
    <3>1. CASE q = p
      BY <1>1, <1>14, <1>16, <2>2, <2>3, <3>1
    <3>2. CASE q # p
      BY <1>16, <2>1, <2>3, <3>2 DEF IInv, GrantsFit
    <3>. QED  BY <3>1, <3>2
  <2>. QED  BY <2>2, <2>3 DEF GrantsFit
<1>19. Final(plans, plans')
  BY <1>2, <1>16 DEF Final
<1>20. TypeOK'
  BY <1>1, <1>3, <1>11, <1>16 DEF TypeOK, IInv, RestOK, JobsFit
<1>21. IInv'
  BY <1>11, <1>17, <1>18, <1>20 DEF IInv
<1>. QED  BY <1>11, <1>19, <1>21 DEF StepFits

LEMMA RunEndsFits ==
    ASSUME IInv, NEW failed \in BOOLEAN, RunEnds(failed)
    PROVE  StepFits
<1>. DEFINE r == worker.run
<1>1. /\ worker' = IdleWorker /\ plans' = plans /\ grants' = grants /\ said' = said
  BY DEF RunEnds
<1>2. RestOK'
  BY <1>1, Still DEF RestOK, RunEnds, IdleWorker
<1>3. CASE Active(jobs, r)
  <2>. DEFINE ks == Complete(jobs, r, failed)
  <2>1. /\ r \in ListedIn(jobs, "running")
        /\ HasRoom(jobs, Cardinality(Leftover(jobs[r], failed))) /\ jobs' = ks
    BY <1>3 DEF Active, RunEnds
  <2>2. /\ JobsFit(ks) /\ Onward(jobs, ks) /\ Held(ks, said)
        /\ ks[r].status = IF failed THEN "failed" ELSE "completed"
        /\ \A q \in Runs : jobs[q].status # "unused" /\ q # r => ks[q] = jobs[q]
        /\ \A i \in Leftover(jobs[r], failed) : \E q \in Runs :
              ks[q].text = i /\ ks[q].status = "queued"
    BY <2>1, CompleteFits DEF IInv
  <2>. HIDE DEF ks
  <2>3. Returns(jobs, ks)
    <3>1. ASSUME NEW q \in Runs, jobs[q].status = "running",
                 ks[q].status = "completed" \/ ks[q].error = "agent"
          PROVE  q = r
      <4>1. jobs[q].error = ""
        BY <3>1 DEF IInv, JobsFit, RunsFit
      <4>. QED  BY <2>2, <3>1, <4>1
    <3>2. jobs[r].feedback \cup (IF ks[r].status = "failed" THEN jobs[r].accepted ELSE {})
             = Leftover(jobs[r], failed)
      <4>1. CASE failed
        BY <2>2, <4>1 DEF Leftover
      <4>2. CASE ~failed
        BY <2>2, <4>2 DEF Leftover
      <4>. QED  BY <4>1, <4>2
    <3>. QED  BY <2>2, <3>1, <3>2 DEF Returns
  <2>. QED  BY <1>1, <1>2, <2>1, <2>2, <2>3, Still, PlainStep
<1>4. CASE ~Active(jobs, r)
  <2>1. jobs' = jobs
    BY <1>4 DEF RunEnds
  <2>. QED  BY <1>1, <1>2, <2>1, Still, QuietStep
<1>. QED  BY <1>3, <1>4

-------------------------------------------------------------------------------
(* The operators. *)

LEMMA QueueHumanFits ==
    ASSUME IInv, QueueHuman
    PROVE  StepFits
<1>. DEFINE js == ExpireLeases(jobs)
<1>1. /\ said < MaxItems /\ HasRoom(js, 1) /\ plans' = plans /\ grants' = grants
      /\ \/ said' = said + 1 /\ jobs' = Hear(js, said + 1)
         \/ jobs' = js /\ said' = said
  BY DEF QueueHuman
<1>2. Quiet(jobs, js) /\ Silent(jobs, js) /\ Keeps(jobs, js)
  BY ExpireIsQuiet DEF IInv
<1>3. JobsFit(js) /\ Onward(jobs, js) /\ Held(js, said)
  BY <1>2, QuietFits, SilentOnward, KeepsHeld DEF IInv
<1>. HIDE DEF js
<1>4. said \in 0..MaxItems /\ said + 1 \in 0..MaxItems
  BY <1>1, Bounds DEF IInv, TypeOK
<1>5. RestOK'
  BY <1>1, <1>4, Still DEF RestOK, QueueHuman
<1>6. CASE jobs' = js /\ said' = said
  BY <1>1, <1>2, <1>5, <1>6, Still, QuietStep
<1>7. CASE said' = said + 1 /\ jobs' = Hear(js, said + 1)
  <2>. DEFINE ks == Hear(js, said + 1)
  <2>1. JobsFit(ks) /\ Onward(js, ks) /\ Silent(js, ks) /\ Held(ks, said + 1)
    BY <1>1, <1>3, Still, HearFits
  <2>2. jobs' = ks
    BY <1>7
  <2>. HIDE DEF ks
  <2>3. Onward(jobs, ks) /\ Returns(jobs, ks)
    BY <1>2, <1>3, <2>1, OnwardTwice, SilentTwice, SilentReturns DEF IInv
  <2>. QED  BY <1>1, <1>5, <1>7, <2>1, <2>2, <2>3, Still, PlainStep
<1>. QED  BY <1>1, <1>6, <1>7

LEMMA CancelRunFits ==
    ASSUME IInv, NEW r \in Runs, CancelRun(r)
    PROVE  StepFits
<1>1. /\ jobs' = Cancel(jobs, r) /\ plans' = plans /\ grants' = grants /\ said' = said
  BY DEF CancelRun
<1>2. Quiet(jobs, jobs') /\ Silent(jobs, jobs') /\ Keeps(jobs, jobs')
  BY <1>1, CancelIsQuiet DEF IInv
<1>3. RestOK'
  BY Still DEF RestOK, CancelRun
<1>. QED  BY <1>1, <1>2, <1>3, Still, QuietStep

LEMMA SetAutonomyModeFits ==
    ASSUME IInv, NEW m \in UsedModes, SetAutonomyMode(m)
    PROVE  StepFits
<1>1. /\ jobs' = jobs /\ plans' = plans /\ grants' \subseteq grants /\ said' = said
  BY DEF SetAutonomyMode
<1>2. RestOK'
  BY Still DEF RestOK, SetAutonomyMode
<1>. QED  BY <1>1, <1>2, Still, QuietStep

Decided(ps, p, st, b) ==
    [ps EXCEPT ![p].status = st, ![p].by = "operator", ![p].session = b]

\* A decision settles the plan after the overdue ones are swept.
LEMMA DecisionSettles ==
    ASSUME IInv, NEW p \in Plans, MayDecide(p), NEW st \in {"approved", "rejected"},
           NEW b \in BOOLEAN, b => st = "approved"
    PROVE  LET qs == Decided(ExpirePlans(plans), p, st, b)
           IN  /\ AllSettle(plans, ExpirePlans(plans)) /\ AllSettle(ExpirePlans(plans), qs)
               /\ qs[p].status = st /\ qs[p].session = b
               /\ qs[p].run = plans[p].run /\ qs[p].selection = plans[p].selection
               /\ plans[p].status = "pending_approval"
               /\ ~ExpirePlans(plans)[p].session
<1>. DEFINE ps == ExpirePlans(plans)
            k == [ps[p] EXCEPT !.status = st, !.by = "operator", !.session = b]
            qs == Decided(ps, p, st, b)
<1>1. AllSettle(plans, ps) /\ PlansFit(jobs, ps) /\ GrantsFit(ps, grants)
  BY Still, ExpireSettles, SettlesFits DEF IInv
<1>2. ps \in [Plans -> PlanType] /\ ps[p] \in PlanType /\ Settles(plans[p], ps[p])
  BY <1>1 DEF AllSettle
<1>3. ps[p].status = "pending_approval"
  BY DEF MayDecide
<1>. HIDE DEF ps
<1>4. plans[p].status = "pending_approval" /\ ~ps[p].session
  <2>1. plans[p].status \in {"unused", "pending_approval"}
    BY <1>2, <1>3 DEF Settles
  <2>2. plans[p].status # "unused"
    BY <1>2, <1>3 DEF Settles
  <2>3. ~ps[p].session
    BY <1>1, <1>3 DEF PlansFit
  <2>. QED  BY <2>1, <2>2, <2>3
<1>5. k \in PlanType
  BY <1>2 DEF PlanType
<1>6. k.status = st /\ k.by = "operator" /\ k.session = b
  BY <1>2 DEF PlanType
<1>7. k.run = ps[p].run /\ k.selection = ps[p].selection
  BY <1>2 DEF PlanType
<1>8. qs = [ps EXCEPT ![p] = k]
  BY <1>2 DEF Decided
<1>. HIDE DEF k, qs
<1>9. Settles(ps[p], k)
  BY <1>3, <1>4, <1>6, <1>7 DEF Settles
<1>10. AllSettle(ps, qs)
  BY <1>1, <1>2, <1>5, <1>8, <1>9, OneSettles
<1>11. qs[p] = k
  BY <1>2, <1>8
<1>12. k.run = plans[p].run /\ k.selection = plans[p].selection
  BY <1>2, <1>7 DEF Settles
<1>. QED  BY <1>1, <1>4, <1>6, <1>10, <1>11, <1>12 DEF ps, qs

LEMMA ApprovePlanFits ==
    ASSUME IInv, NEW p \in Plans, NEW session \in BOOLEAN, ApprovePlan(p, session)
    PROVE  StepFits
<1>. DEFINE ps == ExpirePlans(plans)
            r == plans[p].run
<1>1. /\ MayDecide(p) /\ said' = said
      /\ plans' = [ps EXCEPT ![p].status = "approved", ![p].by = "operator",
                             ![p].session = session]
      /\ grants' = IF session THEN {DomainOf[plans[p].selection]} ELSE grants
      /\ jobs' = [q \in Runs |-> IF q = r /\ q \in Listed(jobs)
                                 THEN [jobs[q] EXCEPT !.done = TRUE] ELSE jobs[q]]
  BY DEF ApprovePlan
<1>2. /\ AllSettle(plans, ps) /\ AllSettle(ps, plans')
      /\ plans'[p].status = "approved" /\ plans'[p].session = session
      /\ plans'[p].run = r /\ plans'[p].selection = plans[p].selection
      /\ plans[p].status = "pending_approval"
  <2>. DEFINE qs == Decided(ps, p, "approved", session)
  <2>1. /\ AllSettle(plans, ps) /\ AllSettle(ps, qs)
        /\ qs[p].status = "approved" /\ qs[p].session = session
        /\ qs[p].run = r /\ qs[p].selection = plans[p].selection
        /\ plans[p].status = "pending_approval"
    <3>1. MayDecide(p) /\ "approved" \in {"approved", "rejected"}
      BY <1>1
    <3>. QED  BY <3>1, DecisionSettles
  <2>2. plans' = qs
    BY <1>1 DEF Decided
  <2>. HIDE DEF qs
  <2>. QED  BY <2>1, <2>2
<1>. HIDE DEF ps
<1>3. /\ PlansFit(jobs, plans') /\ GrantsFit(plans', grants)
      /\ plans' \in [Plans -> PlanType] /\ Final(plans, plans')
  <2>1. PlansFit(jobs, ps) /\ GrantsFit(ps, grants)
    BY <1>2, SettlesFits DEF IInv
  <2>2. PlansFit(jobs, plans') /\ GrantsFit(plans', grants)
    BY <1>2, <2>1, SettlesFits
  <2>3. Final(plans, ps) /\ Final(ps, plans')
    BY <1>2, SettlesFinal
  <2>4. Final(plans, plans')
    BY <2>3, FinalTwice
  <2>. QED  BY <1>2, <2>2, <2>4 DEF AllSettle
<1>4. r \in Runs /\ jobs[r].status \notin {"unused", "queued"}
      /\ plans[p].selection \in Selections
  <2>1. plans[p] \in PlanType /\ r # NoRun /\ plans[p].selection # NoSelection
    BY <1>2, Still DEF IInv, PlansFit
  <2>2. r \in Runs /\ plans[p].selection \in Selections
    BY <2>1 DEF PlanType
  <2>. QED  BY <2>1, <2>2 DEF IInv, PlansFit
<1>5. ASSUME NEW q \in Runs
      PROVE  /\ jobs'[q] \in JobType /\ Moves(jobs[q], jobs'[q])
             /\ jobs'[q].status = jobs[q].status /\ jobs'[q].error = jobs[q].error
             /\ jobs'[q].text = jobs[q].text /\ Taken(jobs'[q]) = Taken(jobs[q])
             /\ q # r => jobs'[q] = jobs[q]
  <2>1. jobs[q] \in JobType /\ Moves(jobs[q], jobs[q])
    BY StillMoves DEF IInv
  <2>2. CASE q = r /\ q \in Listed(jobs)
    <3>. DEFINE k == [jobs[q] EXCEPT !.done = TRUE]
    <3>1. jobs'[q] = k
      BY <1>1, <2>2
    <3>2. k \in JobType
      BY <2>1 DEF JobType, Ended
    <3>3. k.status = jobs[q].status /\ k.error = jobs[q].error /\ k.done = TRUE
      BY <2>1 DEF JobType, Ended
    <3>4. k.text = jobs[q].text /\ k.feedback = jobs[q].feedback
          /\ k.accepted = jobs[q].accepted
      BY <2>1 DEF JobType, Ended
    <3>. HIDE DEF k
    <3>5. Moves(jobs[q], k) /\ Taken(k) = Taken(jobs[q])
      BY <1>4, <2>2, <3>3, <3>4 DEF Moves, Ended, Taken
    <3>. QED  BY <2>2, <3>1, <3>2, <3>3, <3>4, <3>5
  <2>3. CASE ~(q = r /\ q \in Listed(jobs))
    <3>1. jobs'[q] = jobs[q]
      BY <1>1, <2>3
    <3>. QED  BY <2>1, <3>1
  <2>. QED  BY <2>2, <2>3
<1>6. Quiet(jobs, jobs') /\ Keeps(jobs, jobs')
  <2>1. jobs' \in [Runs -> JobType]
    BY <1>1, <1>5
  <2>. QED  BY <1>5, <2>1 DEF Quiet, Keeps
<1>7. /\ JobsFit(jobs') /\ Held(jobs', said')
      /\ ListedIn(jobs', "running") \subseteq ListedIn(jobs, "running")
  BY <1>1, <1>6, QuietFits, KeepsHeld DEF IInv
<1>8. Returns(jobs, jobs')
  <2>1. \A q \in Runs : jobs[q].status = "running" =>
           jobs'[q].status # "completed" /\ jobs'[q].error # "agent"
    BY <1>5 DEF IInv, JobsFit, RunsFit
  <2>. QED  BY <2>1 DEF Returns
<1>9. PlansFit(jobs', plans')
  <2>1. ASSUME NEW q \in Plans
        PROVE  /\ plans'[q].run # NoRun => jobs'[plans'[q].run].status \notin {"unused", "queued"}
               /\ plans'[q].status # "unused" =>
                      plans'[q].run # NoRun /\ plans'[q].selection # NoSelection
               /\ plans'[q].session => plans'[q].status = "approved"
               /\ plans'[q].by = "session_grant" => plans'[q].status # "unused"
    <3>1. plans'[q].run # NoRun => plans'[q].run \in Runs
      BY <1>3 DEF PlanType
    <3>2. plans'[q].run # NoRun => jobs[plans'[q].run].status \notin {"unused", "queued"}
      BY <1>3 DEF PlansFit
    <3>3. plans'[q].run # NoRun => jobs'[plans'[q].run].status \notin {"unused", "queued"}
      BY <1>5, <3>1, <3>2
    <3>. QED  BY <1>3, <3>3 DEF PlansFit
  <2>2. \A q, o \in PendingPlans(plans') : plans'[q].run = plans'[o].run
    BY <1>3 DEF PlansFit
  <2>3. \A q \in ListedIn(jobs', "running"), o \in PendingPlans(plans') : plans'[o].run = q
    BY <1>3, <1>7 DEF PlansFit
  <2>4. ASSUME NEW q \in Runs, jobs'[q].status = "running", jobs'[q].done
        PROVE  \E o \in Plans : plans'[o].run = q /\ plans'[o].status = "approved"
    <3>1. CASE q = r
      BY <1>2, <3>1
    <3>2. CASE q # r
      BY <1>3, <1>5, <2>4, <3>2 DEF PlansFit
    <3>. QED  BY <3>1, <3>2
  <2>. QED  BY <2>1, <2>2, <2>3, <2>4 DEF PlansFit
<1>10. GrantsFit(plans', grants')
  <2>1. session => Backed(plans', DomainOf[plans[p].selection])
    BY <1>2 DEF Backed
  <2>2. \A d \in grants' : Backed(plans', d)
    BY <1>1, <1>3, <2>1 DEF GrantsFit
  <2>. QED  BY <1>3, <2>2 DEF GrantsFit
<1>11. grants' \in SUBSET Domains
  BY <1>1, <1>4, BrokerAssumption DEF IInv, TypeOK
<1>12. RestOK'
  BY Still DEF RestOK, ApprovePlan
<1>13. TypeOK'
  BY <1>3, <1>7, <1>11, <1>12 DEF TypeOK, RestOK, JobsFit
<1>14. IInv'
  BY <1>7, <1>9, <1>10, <1>13 DEF IInv
<1>. QED  BY <1>3, <1>8, <1>14 DEF StepFits

LEMMA RejectPlanFits ==
    ASSUME IInv, NEW p \in Plans, NEW comment \in BOOLEAN, RejectPlan(p, comment)
    PROVE  StepFits
<1>. DEFINE ps == ExpirePlans(plans)
            js == Rejected(jobs, plans[p].run)
            ls == ExpireLeases(js)
<1>1. /\ MayDecide(p) /\ grants' = grants
      /\ plans' = [ps EXCEPT ![p].status = "rejected", ![p].by = "operator"]
      /\ \/ jobs' = js /\ said' = said
         \/ jobs' = ls /\ said' = said /\ said < MaxItems
         \/ /\ jobs' = Hear(ls, said + 1) /\ said' = said + 1
            /\ said < MaxItems /\ HasRoom(js, 1)
  BY DEF RejectPlan
<1>2. AllSettle(plans, plans')
  <2>. DEFINE qs == Decided(ps, p, "rejected", FALSE)
  <2>1. /\ AllSettle(plans, ps) /\ AllSettle(ps, qs) /\ ~ps[p].session
        /\ qs[p].status = "rejected" /\ qs[p].run = plans[p].run
        /\ plans[p].status = "pending_approval"
    <3>1. MayDecide(p) /\ "rejected" \in {"approved", "rejected"}
      BY <1>1
    <3>. QED  BY <3>1, DecisionSettles
  <2>2. ps \in [Plans -> PlanType] /\ ps[p] \in PlanType
    BY <2>1 DEF AllSettle
  <2>. HIDE DEF ps
  <2>3. plans' = qs
    <3>1. ps[p].session = FALSE
      BY <2>1, <2>2 DEF PlanType
    <3>2. [ps[p] EXCEPT !.status = "rejected", !.by = "operator"] =
          [ps[p] EXCEPT !.status = "rejected", !.by = "operator", !.session = FALSE]
      BY <2>2, <3>1 DEF PlanType
    <3>3. plans' = [ps EXCEPT ![p] = [ps[p] EXCEPT !.status = "rejected", !.by = "operator"]]
      BY <1>1, <2>2
    <3>4. qs = [ps EXCEPT ![p] = [ps[p] EXCEPT !.status = "rejected", !.by = "operator",
                                              !.session = FALSE]]
      BY <2>2 DEF Decided
    <3>. QED  BY <3>2, <3>3, <3>4
  <2>. HIDE DEF qs
  <2>. QED  BY <2>1, <2>3 DEF AllSettle, Settles
<1>3. Quiet(jobs, js) /\ Silent(jobs, js) /\ Keeps(jobs, js)
  BY RejectedIsQuiet DEF IInv
<1>. HIDE DEF js, ps
<1>4. /\ JobsFit(js) /\ Onward(jobs, js) /\ Held(js, said) /\ Used(js) = Used(jobs)
  BY <1>3, QuietFits, SilentOnward, KeepsHeld DEF IInv
<1>5. Quiet(js, ls) /\ Silent(js, ls) /\ Keeps(js, ls)
  BY <1>4, ExpireIsQuiet
<1>. HIDE DEF ls
<1>6. /\ JobsFit(ls) /\ Onward(js, ls) /\ Held(ls, said) /\ Used(ls) = Used(js)
  BY <1>4, <1>5, QuietFits, SilentOnward, KeepsHeld
<1>7. Onward(jobs, ls) /\ Silent(jobs, ls)
  BY <1>3, <1>4, <1>5, <1>6, OnwardTwice, SilentTwice
<1>8. said' \in 0..MaxItems
  BY <1>1, Bounds DEF IInv, TypeOK
<1>9. RestOK'
  BY <1>8, Still DEF RestOK, RejectPlan
<1>10. CASE jobs' = js /\ said' = said
  BY <1>1, <1>2, <1>3, <1>9, <1>10, QuietStep
<1>11. CASE jobs' = ls /\ said' = said
  <2>1. Returns(jobs, jobs')
    BY <1>7, <1>11, SilentReturns DEF IInv
  <2>. QED  BY <1>1, <1>2, <1>6, <1>7, <1>9, <1>11, <2>1, PlainStep
<1>12. CASE /\ jobs' = Hear(ls, said + 1) /\ said' = said + 1
            /\ said < MaxItems /\ HasRoom(js, 1)
  <2>. DEFINE ks == Hear(ls, said + 1)
  <2>1. HasRoom(ls, 1)
    BY <1>6, <1>12 DEF HasRoom
  <2>2. JobsFit(ks) /\ Onward(ls, ks) /\ Silent(ls, ks) /\ Held(ks, said + 1)
    BY <1>6, <1>12, <2>1, Still, HearFits
  <2>3. jobs' = ks
    BY <1>12
  <2>. HIDE DEF ks
  <2>4. Onward(jobs, ks) /\ Returns(jobs, ks)
    BY <1>7, <2>2, OnwardTwice, SilentTwice, SilentReturns DEF IInv
  <2>. QED  BY <1>1, <1>2, <1>9, <1>12, <2>2, <2>3, <2>4, PlainStep
<1>. QED  BY <1>1, <1>10, <1>11, <1>12

LEMMA SweepPlansFits ==
    ASSUME IInv, SweepPlans
    PROVE  StepFits
<1>1. /\ jobs' = jobs /\ plans' = ExpirePlans(plans) /\ grants' = grants /\ said' = said
  BY DEF SweepPlans
<1>2. AllSettle(plans, plans')
  BY <1>1, Still, ExpireSettles DEF IInv
<1>3. RestOK'
  BY Still DEF RestOK, SweepPlans
<1>. QED  BY <1>1, <1>2, <1>3, Still, QuietStep

-------------------------------------------------------------------------------
(* Time. *)

LEMMA LeaseRunsOutFits ==
    ASSUME IInv, NEW r \in Runs, LeaseRunsOut(r)
    PROVE  StepFits
<1>. DEFINE k == [jobs[r] EXCEPT !.overdue = TRUE]
<1>1. /\ jobs' = [jobs EXCEPT ![r].overdue = TRUE] /\ r \in ListedIn(jobs, "running")
      /\ plans' = plans /\ grants' = grants /\ said' = said
  BY DEF LeaseRunsOut
<1>2. /\ jobs \in [Runs -> JobType] /\ jobs[r] \in JobType /\ jobs[r].status = "running"
  BY <1>1 DEF IInv, JobsFit, ListedIn
<1>3. jobs' = [jobs EXCEPT ![r] = k]
  BY <1>1, <1>2
<1>4. k \in JobType
  BY <1>2 DEF JobType, Ended
<1>5. k.status = jobs[r].status /\ k.error = jobs[r].error /\ k.done = jobs[r].done
  BY <1>2 DEF JobType, Ended
<1>6. k.text = jobs[r].text /\ k.feedback = jobs[r].feedback /\ k.accepted = jobs[r].accepted
  BY <1>2 DEF JobType, Ended
<1>. HIDE DEF k
<1>7. Moves(jobs[r], k) /\ Unanswered(jobs[r], k) /\ Taken(k) \subseteq Taken(jobs[r])
  BY <1>2, <1>5, <1>6 DEF Moves, Unanswered, Taken, Ended
<1>8. Quiet(jobs, jobs') /\ Silent(jobs, jobs') /\ Keeps(jobs, jobs')
  BY <1>3, <1>4, <1>6, <1>7, OneMoves, OneSilent, OneKeeps DEF IInv
<1>9. RestOK'
  BY Still DEF RestOK, LeaseRunsOut
<1>. QED  BY <1>1, <1>8, <1>9, Still, QuietStep

LEMMA SimTimePassesFits ==
    ASSUME IInv, SimTimePasses
    PROVE  StepFits
<1>1. PICK n \in PendingPlans(plans) :
        plans' = [p \in Plans |->
                     IF p \in PendingPlans(plans) /\ p <= n
                     THEN [plans[p] EXCEPT !.overdue = TRUE] ELSE plans[p]]
  BY DEF SimTimePasses
<1>2. jobs' = jobs /\ grants' = grants /\ said' = said
  BY DEF SimTimePasses
<1>3. ASSUME NEW p \in Plans
      PROVE  plans'[p] \in PlanType /\ Settles(plans[p], plans'[p])
  <2>1. plans[p] \in PlanType /\ Settles(plans[p], plans[p])
    BY Still DEF AllSettle
  <2>2. CASE p \in PendingPlans(plans) /\ p <= n
    <3>. DEFINE k == [plans[p] EXCEPT !.overdue = TRUE]
    <3>1. plans'[p] = k
      BY <1>1, <2>2
    <3>2. k \in PlanType
      BY <2>1 DEF PlanType
    <3>3. k.status = plans[p].status /\ k.by = plans[p].by /\ k.session = plans[p].session
      BY <2>1 DEF PlanType
    <3>4. k.run = plans[p].run /\ k.selection = plans[p].selection
      BY <2>1 DEF PlanType
    <3>. HIDE DEF k
    <3>. QED  BY <2>1, <3>1, <3>2, <3>3, <3>4 DEF Settles
  <2>3. CASE ~(p \in PendingPlans(plans) /\ p <= n)
    <3>1. plans'[p] = plans[p]
      BY <1>1, <2>3
    <3>. QED  BY <2>1, <3>1
  <2>. QED  BY <2>2, <2>3
<1>4. AllSettle(plans, plans')
  BY <1>1, <1>3 DEF AllSettle
<1>5. RestOK'
  BY Still DEF RestOK, SimTimePasses
<1>. QED  BY <1>2, <1>4, <1>5, Still, QuietStep

-------------------------------------------------------------------------------
(* The theorems. *)

LEMMA InitFits == Init => IInv
<1>. SUFFICES ASSUME Init  PROVE IInv
  OBVIOUS
<1>1. UnusedJob \in JobType /\ Taken(UnusedJob) = {} /\ UnusedJob.text = NoItem
      /\ UnusedJob.status = "unused"
  BY DEF UnusedJob, JobType, Ended, Taken
<1>2. UnusedPlan \in PlanType /\ UnusedPlan.status = "unused" /\ UnusedPlan.run = NoRun
      /\ UnusedPlan.session = FALSE /\ UnusedPlan.by = ""
  BY DEF UnusedPlan, PlanType
<1>3. /\ jobs \in [Runs -> JobType] /\ \A r \in Runs : jobs[r] = UnusedJob
      /\ plans \in [Plans -> PlanType] /\ \A p \in Plans : plans[p] = UnusedPlan
  BY <1>1, <1>2 DEF Init
<1>4. Used(jobs) = 0
  <2>1. {r \in Runs : jobs[r].status # "unused"} = {}
    BY <1>1, <1>3
  <2>. QED  BY <2>1, FS_EmptySet DEF Used
<1>5. Dense(jobs)
  <2>1. \A r \in Runs : r \in Int /\ ~(r <= 0)
    BY Bounds DEF Runs
  <2>. QED  BY <1>1, <1>3, <1>4, <2>1 DEF Dense
<1>6. RunsFit(jobs)
  <2>1. ASSUME NEW r \in Runs
        PROVE  /\ jobs[r].status = "unused" => jobs[r] = UnusedJob
               /\ jobs[r].status = "queued" => /\ ~jobs[r].done /\ jobs[r].error = ""
                                               /\ jobs[r].feedback = {} /\ jobs[r].accepted = {}
               /\ jobs[r].status = "running" => jobs[r].error = ""
               /\ jobs[r].status \in Ended => jobs[r].done
    BY <1>1, <1>3 DEF Ended
  <2>2. ListedIn(jobs, "running") = {}
    BY <1>1, <1>3 DEF ListedIn, Listed
  <2>. QED  BY <2>1, <2>2 DEF RunsFit
<1>7. Held(jobs, said)
  <2>1. \A i \in Items : i # NoItem
    BY Bounds
  <2>2. \A r \in Runs : Taken(jobs[r]) = {} /\ jobs[r].text = NoItem
    BY <1>1, <1>3
  <2>. QED  BY <2>1, <2>2 DEF Held
<1>8. PlansFit(jobs, plans)
  <2>1. PendingPlans(plans) = {}
    BY <1>2, <1>3 DEF PendingPlans
  <2>2. \A r \in Runs : jobs[r].status # "running"
    BY <1>1, <1>3
  <2>. QED  BY <1>2, <1>3, <2>1, <2>2 DEF PlansFit
<1>9. GrantsFit(plans, grants)
  BY <1>2, <1>3 DEF GrantsFit, Init
<1>10. TypeOK
  BY <1>3, Bounds DEF TypeOK, Init, IdleWorker
<1>. QED  BY <1>3, <1>5, <1>6, <1>7, <1>8, <1>9, <1>10 DEF IInv, JobsFit

LEMMA StepsFit == IInv /\ [Next]_vars => StepFits
<1>. SUFFICES ASSUME IInv, [Next]_vars  PROVE StepFits
  OBVIOUS
<1>1. CASE UNCHANGED vars
  BY <1>1, StutterFits
<1>2. CASE ProvideSelection \/ AwaitReturns \/ AwaitTimesOut
  BY <1>2, ProvideSelectionFits, AwaitReturnsFits, AwaitTimesOutFits
<1>3. CASE ClaimNext \/ Heartbeat \/ PollEnds \/ WorkerDies
  BY <1>3, ClaimNextFits, HeartbeatFits, PollEndsFits
<1>4. CASE \E s \in Selections : SubmitSelection(s)
  BY <1>4, SubmitSelectionFits
<1>5. CASE \E failed \in BOOLEAN : RunEnds(failed)
  BY <1>5, RunEndsFits
<1>6. CASE QueueHuman
  BY <1>6, QueueHumanFits
<1>7. CASE \E r \in Runs : CancelRun(r) \/ LeaseRunsOut(r)
  BY <1>7, CancelRunFits, LeaseRunsOutFits
<1>8. CASE \E m \in UsedModes : SetAutonomyMode(m)
  BY <1>8, SetAutonomyModeFits
<1>9. CASE \E p \in Plans, b \in BOOLEAN : ApprovePlan(p, b) \/ RejectPlan(p, b)
  BY <1>9, ApprovePlanFits, RejectPlanFits
<1>10. CASE SweepPlans \/ SimTimePasses
  BY <1>10, SweepPlansFits, SimTimePassesFits
<1>. QED  BY <1>1, <1>2, <1>3, <1>4, <1>5, <1>6, <1>7, <1>8, <1>9, <1>10 DEF Next

\* The strengthened invariant holds of every behaviour of the broker.
THEOREM Invariant == Spec => []IInv
<1>1. IInv /\ [Next]_vars => IInv'
  BY StepsFit DEF StepFits
<1>. QED  BY InitFits, <1>1, PTL DEF Spec

\* Every variable keeps its type (AgentBroker).
THEOREM TypeCorrect == Spec => []TypeOK
<1>1. IInv => TypeOK
  BY DEF IInv
<1>. QED  BY Invariant, <1>1, PTL

\* At most one run is leased and the plans that await approval are of one run, whatever
\* leases are lost, plans expire or workers die (claim_next).
THEOREM OneRun == Spec => []OneRunAtATime
<1>1. IInv => OneRunAtATime
  BY DEF IInv, JobsFit, RunsFit, PlansFit, OneRunAtATime
<1>. QED  BY Invariant, <1>1, PTL

\* No path that ends a run leaves the scheduler thread blocked (job.done).
THEOREM WaitersAreWoken == Spec => []EndedRunsAreDone
<1>1. IInv => EndedRunsAreDone
  BY DEF IInv, JobsFit, RunsFit, EndedRunsAreDone
<1>. QED  BY Invariant, <1>1, PTL

\* The scheduler gets an answer of a run that goes on only after an approval (decide_plan).
THEOREM NoEarlyAnswer == Spec => []EarlyAnswersAreApproved
<1>1. IInv => EarlyAnswersAreApproved
  BY DEF IInv, PlansFit, EarlyAnswersAreApproved
<1>. QED  BY Invariant, <1>1, PTL

\* A session grant that lets a plan pass was given by an operator for the plan's domain
\* (_grant_covers), however often the autonomy mode was changed in between.
THEOREM GrantsAreBacked == Spec => []GrantedPlansAreBacked
<1>1. IInv => GrantedPlansAreBacked
  BY DEF IInv, GrantsFit, Backed, GrantedPlansAreBacked
<1>. QED  BY Invariant, <1>1, PTL

\* Requeueing, rejecting and delivering never duplicate an operator's input (complete,
\* queue_human).
THEOREM NoInputTwice == Spec => []InputHeldOnce
<1>1. ASSUME IInv, NEW i \in Items
      PROVE  Cardinality(Holders(i)) <= 1
  <2>1. \A q, r \in Holders(i) : q = r
    BY <1>1 DEF IInv, Held, Holders, Taken
  <2>2. CASE Holders(i) = {}
    BY <2>2, FS_EmptySet
  <2>3. CASE Holders(i) # {}
    <3>1. PICK r : Holders(i) = {r}
      BY <2>1, <2>3
    <3>. QED  BY <3>1, FS_Singleton
  <2>. QED  BY <2>2, <2>3
<1>2. IInv => InputHeldOnce
  BY <1>1 DEF InputHeldOnce
<1>. QED  BY Invariant, <1>2, PTL

\* Approval, rejection and expiry of a plan are never revised (decide_plan, _expire_plans).
THEOREM DecidedOnce == Spec => DecisionsAreFinal
<1>1. IInv /\ [Next]_vars =>
        [\A p \in Plans : plans[p].status \notin {"unused", "pending_approval"} =>
            plans'[p].status = plans[p].status]_vars
  BY StepsFit DEF StepFits, Final
<1>. QED  BY Invariant, <1>1, PTL DEF Spec, DecisionsAreFinal

\* What a run took and did not use is queued again when its worker reports the run's end
\* (complete, line 412), with a run for each input.
THEOREM ReportedEnds == Spec => ReportedRunsReturnInput
<1>1. IInv /\ [Next]_vars =>
        [\A r \in Runs :
           /\ jobs[r].status = "running"
           /\ jobs'[r].status = "completed" \/ jobs'[r].error = "agent"
           => \A i \in jobs[r].feedback \cup
                   (IF jobs'[r].status = "failed" THEN jobs[r].accepted ELSE {}) :
                  \E q \in Runs : jobs'[q].text = i /\ jobs'[q].status = "queued"]_vars
  BY StepsFit DEF StepFits, Returns
<1>. QED  BY Invariant, <1>1, PTL DEF Spec, ReportedRunsReturnInput
===============================================================================
