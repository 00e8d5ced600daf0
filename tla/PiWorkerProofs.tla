----------------------------- MODULE PiWorkerProofs -----------------------------
(*****************************************************************************)
(* Proofs about PiWorker, for every number of jobs, episodes, messages,      *)
(* events, prompts and heartbeats.                                           *)
(*****************************************************************************)
EXTENDS PiWorker, TLAPS

Given == [job : 1..MaxJobs, item : Feedback]

BeatType == [by : {"timer", "tool", "main"}, at : {"waiting", "steering", "queueing"},
             list : SUBSET Feedback, item : Feedback \cup {NoItem}]

Places == {"poll", "open", "run", "lastBeat", "events", "completing", "cleanDone",
           "cleanFailed", "report", "backoff", "exited"}

JobNumbers == [number : 0..MaxJobs, episode : 0..MaxEpisodes]

SessionType == [state : {"none", "open", "disposed"}, episode : 0..MaxEpisodes,
                inbox : Seq(Given)]

TurnType == [at : {"idle", "prelude", "streaming"}, aborted : BOOLEAN, prompts : 0..Prompts]

FeedbackType == [delivered : SUBSET Feedback, pending : SUBSET Feedback]

OfferType == [offered : SUBSET Feedback, acked : SUBSET Feedback]

EventType == [count : Nat, lost : BOOLEAN]

TimerType == [deadline : BOOLEAN, stray : Nat]

Types ==
    /\ pc \in Places /\ job \in JobNumbers
    /\ claimed \in 0..MaxJobs /\ episode \in 1..MaxEpisodes
    /\ running \in BOOLEAN /\ broken \in BOOLEAN /\ runFailure \in BOOLEAN
    /\ session \in SessionType /\ turn \in TurnType
    /\ beats \in Seq(BeatType) /\ fb \in FeedbackType
    /\ posts \in Nat /\ events \in EventType
    /\ timers \in TimerType /\ approvals \in Nat /\ failures \in Nat
    /\ broker \in OfferType /\ seen \in Seq(Given)

-------------------------------------------------------------------------------
(* The invariant. *)

\* The main loop has a job that is not reported yet.
Working == pc \in {"run", "lastBeat", "events", "completing", "cleanDone", "cleanFailed"}

\* The job at hand is the last one claimed.
JobFits ==
    /\ job.number = 0 => pc \in {"poll", "backoff", "exited"}
    /\ pc \in {"poll", "backoff", "exited"} => job.number = 0
    /\ job.number # 0 => job.number = claimed /\ job.episode \in 1..episode

\* The session runs only while the loop waits for it, and only then asks an operator,
\* one question at a time and without a deadline; so no timer is armed twice.
TurnFits ==
    /\ turn.at # "idle" => pc = "run"
    /\ approvals # 0 => turn.at = "streaming" /\ approvals = 1 /\ timers.deadline = FALSE
    /\ timers.stray = 0
    /\ timers.deadline => InTurn
    /\ posts # 0 => Working
    /\ events.lost => runFailure
    /\ ~Working => events.lost = FALSE

\* A session that was disposed of is of an earlier episode.
SessionFits ==
    /\ session.state = "disposed" => session.episode < episode
    /\ session.state # "none" => session.episode \in 1..episode
    /\ InTurn => session.state # "none" /\ session.episode = job.episode
    /\ pc = "open" /\ session.state # "none" => session.episode <= job.episode

\* Only the oldest heartbeat is under way, and one is the main loop's while it waits.
ChainFits ==
    /\ beats # <<>> => Working
    /\ \A i \in DOMAIN beats : /\ i > 1 => beats[i].at = "waiting"
                               /\ beats[i].by = "main" => pc = "lastBeat"
    /\ \A i, k \in DOMAIN beats : beats[i].by = "main" /\ beats[k].by = "main" => i = k
    /\ pc = "lastBeat" => \E i \in DOMAIN beats : beats[i].by = "main"
    /\ Len(beats) <= MaxBeats + 1 /\ (pc # "lastBeat" => Len(beats) <= MaxBeats)

\* What the session was given, read or not yet.
Got == seen \o session.inbox

\* Of the job at hand the session has exactly what counts as delivered.
FeedbackFits ==
    /\ IsInjective(Got)
    /\ \A i \in DOMAIN Got : /\ Got[i].job <= claimed
                             /\ pc = "open" => Got[i].job # job.number
                             /\ Working /\ Got[i].job = job.number
                                  => Got[i].item \in fb.delivered
    /\ Working => \A f \in fb.delivered :
                      \E i \in DOMAIN Got : Got[i] = [job |-> job.number, item |-> f]
    /\ ~Working => fb = NoFeedback /\ broker.acked = {}
    /\ fb.pending \subseteq fb.delivered
    /\ broker.acked \subseteq fb.delivered /\ broker.acked \subseteq broker.offered
    /\ \A i \in DOMAIN beats : beats[i].at = "queueing" =>
           beats[i].item \in Feedback /\ beats[i].item \notin fb.delivered

IInv == Types /\ JobFits /\ TurnFits /\ SessionFits /\ ChainFits /\ FeedbackFits

-------------------------------------------------------------------------------
(* Sequences of messages. *)

\* Reading the first held message leaves what the session got as it is.
LEMMA ReadKeeps ==
    ASSUME NEW S, NEW s \in Seq(S), NEW t \in Seq(S), t # <<>>
    PROVE  Append(s, Head(t)) \o Tail(t) = s \o t
  <1>1. Len(t) > 0
    OBVIOUS
  <1>2. Append(s, Head(t)) \o Tail(t) \in Seq(S) /\ s \o t \in Seq(S)
    BY <1>1
  <1>3. Len(Append(s, Head(t)) \o Tail(t)) = Len(s \o t)
    BY <1>1
  <1>4. ASSUME NEW i \in 1..Len(s \o t)
        PROVE  (Append(s, Head(t)) \o Tail(t))[i] = (s \o t)[i]
    BY <1>1
  <1> QED  BY <1>2, <1>3, <1>4

\* A message that joins the held ones is the last one the session got.
LEMMA QueueAppends ==
    ASSUME NEW S, NEW s \in Seq(S), NEW t \in Seq(S), NEW x \in S
    PROVE  s \o Append(t, x) = Append(s \o t, x)
  <1>1. s \o Append(t, x) \in Seq(S) /\ Append(s \o t, x) \in Seq(S)
    OBVIOUS
  <1>2. Len(s \o Append(t, x)) = Len(Append(s \o t, x))
    OBVIOUS
  <1>3. ASSUME NEW i \in 1..Len(s \o t) + 1
        PROVE  (s \o Append(t, x))[i] = Append(s \o t, x)[i]
    OBVIOUS
  <1> QED  BY <1>1, <1>2, <1>3

\* A session that is replaced takes the messages along that nobody read.
LEMMA PrefixOf ==
    ASSUME NEW S, NEW s \in Seq(S), NEW t \in Seq(S)
    PROVE  /\ s \o <<>> = s
           /\ DOMAIN s \subseteq DOMAIN (s \o t)
           /\ \A i \in DOMAIN s : (s \o t)[i] = s[i]
  <1>1. s \o <<>> \in Seq(S) /\ Len(s \o <<>>) = Len(s)
    OBVIOUS
  <1>2. \A i \in 1..Len(s) : (s \o <<>>)[i] = s[i]
    OBVIOUS
  <1> QED  BY <1>1, <1>2

-------------------------------------------------------------------------------
(* The initial state. *)

LEMMA InitFits == Init => IInv
  <1> SUFFICES ASSUME Init  PROVE IInv
    OBVIOUS
  <1> USE WorkerAssumption
  <1>1. Types
    <2>1. /\ MaxJobs \in Nat /\ MaxEpisodes \in Nat /\ MaxEpisodes >= 1 /\ Prompts \in Nat
          /\ <<>> \in Seq(Given) /\ <<>> \in Seq(BeatType)
      OBVIOUS
    <2>2. /\ job \in JobNumbers /\ claimed \in 0..MaxJobs /\ episode \in 1..MaxEpisodes
          /\ turn \in TurnType
      BY <2>1 DEF Init, NoJob, NoTurn, JobNumbers, TurnType
    <2>3. session \in SessionType
      BY <2>1 DEF Init, SessionType
    <2>4. fb \in FeedbackType /\ broker \in OfferType
      BY DEF Init, NoFeedback, NoOffer, FeedbackType, OfferType
    <2>5. events \in EventType /\ timers \in TimerType
      BY DEF Init, NoEvents, NoTimer, EventType, TimerType
    <2> QED  BY <2>1, <2>2, <2>3, <2>4, <2>5 DEF Init, Types, Places
  <1>2. JobFits
    BY DEF Init, JobFits, NoJob
  <1>3. TurnFits
    BY DEF Init, TurnFits, NoTurn, NoEvents, NoTimer, Working, InTurn
  <1>4. SessionFits
    BY DEF Init, SessionFits, InTurn
  <1>5. ChainFits
    BY DEF Init, ChainFits, Working
  <1>6. FeedbackFits
    <2>1. Got = <<>> /\ DOMAIN Got = {}
      BY DEF Init, Got
    <2> QED  BY <2>1 DEF Init, FeedbackFits, NoFeedback, NoOffer, Working, IsInjective
  <1> QED  BY <1>1, <1>2, <1>3, <1>4, <1>5, <1>6 DEF IInv

-------------------------------------------------------------------------------
(* The types of the variables. *)

\* Aborting a run leaves it where it is, and one that does not stream as it was.
LEMMA AbortFits ==
    ASSUME NEW t \in TurnType
    PROVE  /\ Abort(t) \in TurnType
           /\ Abort(t).at = t.at /\ Abort(t).prompts = t.prompts
           /\ t.at # "streaming" => Abort(t) = t
           /\ t.aborted = TRUE => Abort(t).aborted = TRUE
  BY DEF TurnType, Abort

\* The oldest heartbeat leaves the chain and the others move up.
LEMMA OldestEnds ==
    ASSUME Types, beats # <<>>, EndBeat(1)
    PROVE  /\ beats' \in Seq(BeatType) /\ Len(beats') = Len(beats) - 1
           /\ DOMAIN beats' = 1..(Len(beats) - 1)
           /\ \A k \in DOMAIN beats' : k + 1 \in DOMAIN beats /\ beats'[k] = beats[k + 1]
           /\ pc' = IF beats[1].by = "main" THEN "events" ELSE pc
  <1> DEFINE n == Len(beats)
  <1>1. n \in Nat /\ n # 0 /\ DOMAIN beats = 1..n /\ \A k \in 1..n : beats[k] \in BeatType
    BY DEF Types
  <1>2. beats' = [k \in 1..(n - 1) |-> IF k < 1 THEN beats[k] ELSE beats[k + 1]]
    BY DEF EndBeat
  <1> HIDE DEF n
  <1>3. beats' = [k \in 1..(n - 1) |-> beats[k + 1]]
    BY <1>1, <1>2
  <1>4. n - 1 \in Nat /\ \A k \in 1..(n - 1) : k + 1 \in 1..n
    BY <1>1
  <1>5. beats' \in [1..(n - 1) -> BeatType]
    BY <1>1, <1>3, <1>4
  <1>6. beats' \in Seq(BeatType) /\ Len(beats') = n - 1 /\ DOMAIN beats' = 1..(n - 1)
    BY <1>4, <1>5
  <1>7. pc' = IF beats[1].by = "main" THEN "events" ELSE pc
    BY DEF EndBeat
  <1> QED  BY <1>1, <1>3, <1>4, <1>6, <1>7 DEF n

\* A rejected link fails the run of a job, and the job if its last heartbeat is lost.
LEMMA RejectFits ==
    ASSUME IInv, Reject
    PROVE  /\ beats' = <<>> /\ broken' = TRUE
           /\ runFailure' \in BOOLEAN /\ (runFailure => runFailure')
           /\ turn' \in TurnType /\ turn'.at = turn.at
           /\ pc' = IF pc = "lastBeat" THEN "cleanFailed" ELSE pc
           /\ timers' \in TimerType /\ timers'.stray = timers.stray
           /\ pc = "lastBeat" => timers'.deadline = FALSE
           /\ pc # "lastBeat" => timers' = timers
  <1> USE DEF IInv
  <1>1. beats' = <<>> /\ broken' = TRUE
    BY DEF Reject
  <1>2. \/ runFailure' = TRUE /\ turn' = Abort(turn)
        \/ runFailure' = runFailure /\ turn' = turn
    BY DEF Reject
  <1>3. turn \in TurnType /\ runFailure \in BOOLEAN /\ timers \in TimerType /\ pc \in Places
    BY DEF Types
  <1>4. /\ turn' \in TurnType /\ turn'.at = turn.at
        /\ runFailure' \in BOOLEAN /\ (runFailure => runFailure')
    BY <1>2, <1>3, AbortFits
  <1>5. (\E i \in DOMAIN beats : beats[i].by = "main") = (pc = "lastBeat")
    BY DEF ChainFits
  <1>6. pc' = IF pc = "lastBeat" THEN "cleanFailed" ELSE pc
    BY <1>5 DEF Reject
  <1>7. timers' = IF pc' = "cleanFailed" THEN [timers EXCEPT !.deadline = FALSE] ELSE timers
    BY DEF Reject
  <1>8. pc = "cleanFailed" => timers.deadline = FALSE
    BY <1>3 DEF TurnFits, InTurn, TimerType
  <1>9. /\ timers' \in TimerType /\ timers'.stray = timers.stray
        /\ pc = "lastBeat" => timers'.deadline = FALSE
    BY <1>3, <1>6, <1>7 DEF TimerType
  <1>10. ASSUME pc # "lastBeat"  PROVE timers' = timers
    <2>1. CASE pc = "cleanFailed"
      <3>1. timers' = [timers EXCEPT !.deadline = FALSE]
        BY <1>6, <1>7, <2>1
      <3> QED  BY <1>3, <1>8, <2>1, <3>1 DEF TimerType
    <2>2. CASE pc # "cleanFailed"
      BY <1>6, <1>7, <1>10, <2>2
    <2> QED  BY <2>1, <2>2
  <1> QED  BY <1>1, <1>4, <1>6, <1>9, <1>10

\* A link that moves ends the main loop's wait, or leaves the loop where it is.
LEMMA LinkEnds ==
    ASSUME IInv, NEW i \in DOMAIN beats, BeatAnswered(i) \/ PickItem(i)
    PROVE  pc' = pc \/ (pc = "lastBeat" /\ pc' = "events")
  <1>1. i = 1 /\ beats # <<>> /\ 1 \in DOMAIN beats
    BY DEF BeatAnswered, PickItem, MayMove
  <1>2. beats[1].by = "main" => pc = "lastBeat"
    BY <1>1 DEF IInv, ChainFits
  <1>3. CASE EndBeat(i)
    BY <1>1, <1>2, <1>3, OldestEnds DEF IInv
  <1>4. CASE ~EndBeat(i)
    BY <1>4 DEF BeatAnswered, PickItem
  <1> QED  BY <1>3, <1>4

\* The session that is made for a job, and one that is disposed of when that fails.
Opened(e) == [state |-> "open", episode |-> e, inbox |-> <<>>]
Dropped(s) == [s EXCEPT !.state = IF @ = "none" THEN @ ELSE "disposed"]

\* A job gets the session at hand or a new one, or is given up with the old one.
LEMMA OpenCases ==
    ASSUME Open
    PROVE  \E c \in {session, Renewed(session)} :
             \/ /\ c.state # "none" /\ c.episode = job.episode
                /\ session' = c /\ pc' = "run"
             \/ /\ c.state = "none" \/ c.episode # job.episode
                /\ session' = Opened(job.episode) /\ pc' = "run"
             \/ /\ c.state = "none" \/ c.episode # job.episode
                /\ session' = Dropped(c) /\ pc' = "report"
  <1> DEFINE Cached(b) == IF b THEN Renewed(session) ELSE session
             Uses(c) == \/ /\ c.state # "none" /\ c.episode = job.episode
                           /\ session' = c /\ pc' = "run"
                        \/ /\ c.state = "none" \/ c.episode # job.episode
                           /\ session' = Opened(job.episode) /\ pc' = "run"
                        \/ /\ c.state = "none" \/ c.episode # job.episode
                           /\ session' = Dropped(c) /\ pc' = "report"
  <1>1. PICK b \in BOOLEAN : Uses(Cached(b))
    BY DEF Open, Opened, Dropped
  <1>2. Cached(b) \in {session, Renewed(session)}
    OBVIOUS
  <1> HIDE DEF Cached
  <1> QED  BY <1>1, <1>2
LEMMA TypesStep ==
    ASSUME IInv, [Next]_vars
    PROVE  Types'
  <1> USE WorkerAssumption
  <1>0. /\ MaxJobs \in Nat /\ MaxEpisodes \in Nat /\ Prompts \in Nat /\ Prompts >= 1
        /\ EventBudget \in Nat /\ Types
    BY DEF IInv
  <1>1. CASE PollFails
    BY <1>1, <1>0 DEF Types, loop, world, agent, chain, clock, outbox, PollFails, Places
  <1>2. CASE Claim
    <2>1. PICK e \in 1..episode : job' = [number |-> claimed + 1, episode |-> e]
      <3>1. session.state # "none" => session.episode \in 1..episode
        BY DEF IInv, SessionFits
      <3>2. (IF session.state = "none" THEN 1 ELSE session.episode)..episode \subseteq 1..episode
        BY <1>0, <3>1 DEF Types
      <3> QED  BY <1>2, <3>2 DEF Claim
    <2>2. claimed \in 0..MaxJobs /\ episode \in 1..MaxEpisodes /\ claimed < MaxJobs
      BY <1>2, <1>0 DEF Claim, Types
    <2>3. job' \in JobNumbers /\ claimed' \in 0..MaxJobs
      BY <1>2, <1>0, <2>1, <2>2 DEF Claim, JobNumbers
    <2>4. beats' \in Seq(BeatType)
      BY <1>2 DEF Claim
    <2> QED
      BY <1>2, <1>0, <2>3, <2>4 DEF Types, loop, world, agent, chain, clock, outbox,
         Claim, Places
  <1>3. CASE Open
    <2>1. session \in SessionType /\ Renewed(session) \in SessionType /\ job \in JobNumbers
      BY <1>0 DEF Types, SessionType, Renewed
    <2>2. Opened(job.episode) \in SessionType
      BY <1>0, <2>1 DEF Opened, SessionType, JobNumbers
    <2>3. ASSUME NEW s \in SessionType  PROVE Dropped(s) \in SessionType
      BY DEF Dropped, SessionType
    <2>4. session' \in SessionType /\ pc' \in {"run", "report"}
      BY <1>3, <2>1, <2>2, <2>3, OpenCases
    <2>5. timers' \in TimerType
      <3>1. timers' = [timers EXCEPT !.deadline = TRUE] \/ timers' = timers
        BY <1>3 DEF Open
      <3> QED  BY <1>0, <3>1 DEF Types, TimerType
    <2>6. turn' \in TurnType
      <3>1. turn' = [NoTurn EXCEPT !.at = "prelude", !.prompts = 1] \/ turn' = turn
        BY <1>3 DEF Open
      <3>2. NoTurn \in TurnType /\ 1 \in 0..Prompts
        BY <1>0 DEF NoTurn, TurnType
      <3>3. [NoTurn EXCEPT !.at = "prelude", !.prompts = 1] \in TurnType
        BY <3>2 DEF TurnType
      <3> QED  BY <1>0, <3>1, <3>3 DEF Types
    <2> QED
      BY <1>3, <1>0, <2>4, <2>5, <2>6 DEF Types, loop, world, agent, chain, clock,
         outbox, Open, Places
  <1>4. CASE PromptFails
    BY <1>4, <1>0 DEF Types, loop, world, agent, chain, clock, outbox, PromptFails,
       Clean, TurnType, TimerType, Places
  <1>5. CASE PromptAgain
    <2>1. turn \in TurnType /\ turn.prompts < Prompts
      BY <1>5, <1>0 DEF Types, PromptAgain
    <2>2. turn.prompts + 1 \in 0..Prompts
      BY <1>0, <2>1 DEF TurnType
    <2>3. turn' = [at |-> "prelude", aborted |-> FALSE, prompts |-> turn.prompts + 1]
      BY <1>5, <2>1 DEF PromptAgain, TurnType
    <2>4. turn' \in TurnType
      BY <2>2, <2>3 DEF TurnType
    <2> QED
      BY <1>5, <1>0, <2>4 DEF Types, loop, world, agent, chain, clock, outbox,
         PromptAgain
  <1>6. CASE ReasonMissing
    BY <1>6, <1>0 DEF Types, loop, world, agent, chain, clock, outbox, ReasonMissing,
       Clean, TimerType, Places
  <1>7. CASE LastBeat
    <2>1. NewBeat("main") \in BeatType
      BY DEF NewBeat, BeatType
    <2> QED
      BY <1>7, <1>0, <2>1 DEF Types, loop, world, agent, chain, clock, outbox, LastBeat,
         Places
  <1>8. CASE Judge
    BY <1>8, <1>0 DEF Types, loop, world, agent, chain, clock, outbox, Judge, Clean,
       TimerType, Places
  <1>9. CASE Complete
    BY <1>9, <1>0 DEF Types, loop, world, agent, chain, clock, outbox, Complete,
       TimerType, Places
  <1>10. CASE Finally
    <2>1. turn' \in TurnType /\ events' \in EventType /\ fb' \in FeedbackType
          /\ broker' \in OfferType
      BY <1>10, <1>0 DEF Finally, NoTurn, NoEvents, NoFeedback, NoOffer, TurnType,
         EventType,
                      FeedbackType, OfferType
    <2>2. job' \in JobNumbers /\ pc' \in Places
      BY <1>10, <1>0 DEF Finally, NoJob, JobNumbers, Places, Types
    <2> QED
      BY <1>10, <1>0, <2>1, <2>2 DEF Types, loop, world, agent, chain, clock, outbox,
         Finally
  <1>11. CASE Report
    <2>1. job' \in JobNumbers /\ broker' \in OfferType
      BY <1>11, <1>0 DEF Report, NoJob, NoOffer, JobNumbers, OfferType
    <2> QED
      BY <1>11, <1>0, <2>1 DEF Types, loop, world, agent, chain, clock, outbox, Report,
         Places
  <1>12. CASE Backoff
    BY <1>12, <1>0 DEF Types, loop, world, agent, chain, clock, outbox, Backoff, Places
  <1>13. CASE Exit
    BY <1>13, <1>0 DEF Types, loop, world, agent, chain, clock, outbox, Exit, Places
  <1>14. CASE StartRun
    BY <1>14, <1>0 DEF Types, loop, world, agent, chain, clock, outbox, StartRun,
       TurnType, Places
  <1>15. CASE Read
    <2>1. session.inbox \in Seq(Given) /\ session.inbox # <<>> /\ session \in SessionType
      BY <1>15, <1>0 DEF Read, Types, SessionType
    <2>2. Head(session.inbox) \in Given /\ Tail(session.inbox) \in Seq(Given)
      BY <2>1
    <2>3. session' = [session EXCEPT !.inbox = Tail(session.inbox)]
      BY <1>15 DEF Read
    <2>4. session' \in SessionType
      BY <2>1, <2>2, <2>3 DEF SessionType
    <2>5. seen' \in Seq(Given)
      BY <1>15, <1>0, <2>2 DEF Read, Types
    <2> QED
      BY <1>15, <1>0, <2>4, <2>5 DEF Types, loop, world, agent, chain, clock, outbox,
         Read
  <1>16. CASE EndApproval
    BY <1>16, <1>0 DEF Types, loop, world, agent, chain, clock, outbox, EndApproval,
       TimerType, Places
  <1>17. CASE Settle
    BY <1>17, <1>0 DEF Types, loop, world, agent, chain, clock, outbox, Settle,
       TurnType, Places
  <1>18. CASE Post
    <2>1. turn' \in TurnType /\ runFailure' \in BOOLEAN
      BY <1>18, <1>0, AbortFits DEF Post, Types
    <2>2. events' \in EventType
      BY <1>18, <1>0 DEF Post, Types, EventType
    <2>3. posts' \in Nat
      BY <1>18, <1>0 DEF Post, Types
    <2> QED
      BY <1>18, <1>0, <2>1, <2>2, <2>3 DEF Types, loop, world, agent, chain, clock,
         outbox, Post
  <1>19. CASE Emit
    <2>1. turn' \in TurnType /\ runFailure' \in BOOLEAN
      BY <1>19, <1>0, AbortFits DEF Emit, Types
    <2>2. events' \in EventType
      <3>1. events \in EventType /\ events.count + 1 \in Nat
        BY <1>0 DEF Types, EventType
      <3>2. \/ events' = [events EXCEPT !.count = events.count + 1]
            \/ events' = [count |-> events.count + 1, lost |-> TRUE]
        BY <1>19 DEF Emit
      <3>3. [events EXCEPT !.count = events.count + 1] \in EventType
        BY <3>1 DEF EventType
      <3>4. [count |-> events.count + 1, lost |-> TRUE] \in EventType
        BY <3>1 DEF EventType
      <3> QED  BY <3>2, <3>3, <3>4
    <2>3. posts' \in Nat
      BY <1>19, <1>0 DEF Emit, Types
    <2> QED
      BY <1>19, <1>0, <2>1, <2>2, <2>3 DEF Types, loop, world, agent, chain, clock,
         outbox, Emit
  <1>20. CASE AskApproval
    <2>1. timers' \in TimerType
      BY <1>20, <1>0 DEF AskApproval, Types, TimerType
    <2> QED
      BY <1>20, <1>0, <2>1 DEF Types, loop, world, agent, chain, clock, outbox,
         AskApproval
  <1>21. CASE DeadlineFires
    <2>1. turn' \in TurnType /\ runFailure' \in BOOLEAN
      BY <1>21, <1>0, AbortFits DEF DeadlineFires, Types
    <2>2. timers' \in TimerType
      <3>1. timers \in TimerType /\ (timers.stray > 0 => timers.stray - 1 \in Nat)
        BY <1>0 DEF Types, TimerType
      <3>2. \/ timers' = [timers EXCEPT !.deadline = FALSE]
            \/ timers.stray > 0 /\ timers' = [timers EXCEPT !.stray = timers.stray - 1]
        BY <1>21 DEF DeadlineFires
      <3> QED  BY <3>1, <3>2 DEF TimerType
    <2> QED
      BY <1>21, <1>0, <2>1, <2>2 DEF Types, loop, world, agent, chain, clock, outbox,
         DeadlineFires
  <1>22. CASE Beat
    <2>1. NewBeat("timer") \in BeatType /\ NewBeat("tool") \in BeatType
      BY DEF NewBeat, BeatType
    <2> QED
      BY <1>22, <1>0, <2>1 DEF Types, loop, world, agent, chain, clock, outbox, Beat
  <1>23. CASE Offer
    <2>1. PICK f \in Feedback : broker' = [broker EXCEPT !.offered = broker.offered \cup {f}]
      BY <1>23 DEF Offer
    <2>2. broker' \in OfferType
      BY <1>0, <2>1 DEF Types, OfferType
    <2> QED
      BY <1>23, <1>0, <2>2 DEF Types, loop, world, agent, chain, clock, outbox, Offer
  <1>24. CASE NextEpisode
    BY <1>24, <1>0 DEF Types, loop, world, agent, chain, clock, outbox, NextEpisode,
       Places
  <1>25. CASE Terminate
    <2>1. turn' \in TurnType
      BY <1>25, <1>0, AbortFits DEF Terminate, Types
    <2> QED
      BY <1>25, <1>0, <2>1 DEF Types, loop, world, agent, chain, clock, outbox,
         Terminate
  <1>26. ASSUME NEW i \in DOMAIN beats, BeatAnswered(i)  PROVE Types'
    <2>1. i = 1 /\ beats # <<>> /\ 1 \in DOMAIN beats
      BY <1>26 DEF BeatAnswered, MayMove
    <2>2. broker' \in OfferType /\ fb' \in FeedbackType
      BY <1>26, <1>0 DEF BeatAnswered, Acked, Types, OfferType, FeedbackType
    <2>3. beats' \in Seq(BeatType) /\ pc' \in Places
      <3>1. CASE EndBeat(i)
        BY <1>0, <2>1, <3>1, OldestEnds DEF Types, Places
      <3>2. CASE ~EndBeat(i)
        <4> DEFINE list == broker.offered \ Acked
        <4>1. beats' = [beats EXCEPT ![1].at = "steering", ![1].list = list] /\ pc' = pc
          BY <1>26, <2>1, <3>2 DEF BeatAnswered
        <4>2. list \subseteq Feedback /\ beats \in Seq(BeatType) /\ beats[1] \in BeatType
          BY <1>0, <2>1 DEF Types, OfferType
        <4> HIDE DEF list
        <4>3. [beats[1] EXCEPT !.at = "steering", !.list = list] \in BeatType
          BY <4>2 DEF BeatType
        <4>4. beats' = [beats EXCEPT ![1] = [beats[1] EXCEPT !.at = "steering",
                                                             !.list = list]]
          BY <2>1, <4>1
        <4>5. beats' \in Seq(BeatType)
          BY <2>1, <4>2, <4>3, <4>4
        <4> QED  BY <1>0, <4>1, <4>5 DEF Types
      <3> QED  BY <3>1, <3>2
    <2> QED
      BY <1>26, <1>0, <2>2, <2>3 DEF Types, loop, world, agent, chain, clock, outbox,
         BeatAnswered
  <1>27. ASSUME NEW i \in DOMAIN beats, BeatFails(i)  PROVE Types'
    <2>1. broker' \in OfferType
      <3>1. Acked \subseteq Feedback
        BY <1>0 DEF Acked, Types, OfferType, FeedbackType
      <3>2. \/ broker' = broker
            \/ broker' = [broker EXCEPT !.acked = Acked]
        BY <1>27, <1>0 DEF BeatFails, Types, OfferType
      <3> QED  BY <1>0, <3>1, <3>2 DEF Types, OfferType
    <2>2. Reject
      BY <1>27 DEF BeatFails
    <2>3. /\ turn' \in TurnType /\ timers' \in TimerType /\ runFailure' \in BOOLEAN
          /\ beats' \in Seq(BeatType) /\ broken' \in BOOLEAN /\ pc' \in Places
      BY <1>0, <2>2, RejectFits DEF Types, Places
    <2> QED
      BY <1>27, <1>0, <2>1, <2>3 DEF Types, loop, world, agent, chain, clock, outbox,
         BeatFails
  <1>28. ASSUME NEW i \in DOMAIN beats, PickItem(i)  PROVE Types'
    <2>1. i = 1 /\ beats # <<>> /\ 1 \in DOMAIN beats
      BY <1>28 DEF PickItem, MayMove
    <2>2. beats' \in Seq(BeatType) /\ pc' \in Places
      <3>1. CASE EndBeat(i)
        BY <1>0, <2>1, <3>1, OldestEnds DEF Types, Places
      <3>2. CASE ~EndBeat(i)
        <4>1. beats \in Seq(BeatType) /\ beats[1] \in BeatType
          BY <1>0, <2>1 DEF Types
        <4>2. PICK f \in beats[1].list :
                beats' = [beats EXCEPT ![1].at = "queueing", ![1].item = f]
          BY <1>28, <2>1, <3>2 DEF PickItem
        <4>3. [beats[1] EXCEPT !.at = "queueing", !.item = f] \in BeatType
          BY <4>1, <4>2 DEF BeatType
        <4>4. beats' = [beats EXCEPT ![1] = [beats[1] EXCEPT !.at = "queueing", !.item = f]]
          BY <2>1, <4>2
        <4>5. beats' \in Seq(BeatType)
          BY <2>1, <4>1, <4>3, <4>4
        <4>6. pc' = pc
          BY <1>28, <3>2 DEF PickItem
        <4> QED  BY <1>0, <4>5, <4>6 DEF Types
      <3> QED  BY <3>1, <3>2
    <2> QED
      BY <1>28, <1>0, <2>2 DEF Types, loop, world, agent, chain, clock, outbox, PickItem
  <1>29. ASSUME NEW i \in DOMAIN beats, QueueItem(i)  PROVE Types'
    <2>1. i = 1 /\ beats # <<>> /\ 1 \in DOMAIN beats
      BY <1>29 DEF QueueItem, MayMove
    <2>2. beats \in Seq(BeatType) /\ beats[1] \in BeatType /\ job \in JobNumbers
          /\ session \in SessionType /\ fb \in FeedbackType
      BY <1>0, <2>1 DEF Types
    <2> DEFINE f == beats[1].item
    <2>3. f \in Feedback /\ job.number \in 1..MaxJobs
      <3>1. f \in Feedback
        BY <1>29, <2>1 DEF QueueItem, IInv, FeedbackFits
      <3>2. job.number # 0
        BY <2>1 DEF IInv, ChainFits, JobFits, Working
      <3> QED  BY <1>0, <2>2, <3>1, <3>2 DEF JobNumbers
    <2>4. /\ session' = [session EXCEPT !.inbox = Append(session.inbox,
                                            [job |-> job.number, item |-> f])]
          /\ fb' = [delivered |-> fb.delivered \cup {f}, pending |-> fb.pending \cup {f}]
          /\ beats' = [beats EXCEPT ![1] = [beats[1] EXCEPT !.at = "steering",
                                                            !.item = NoItem]]
      BY <1>29, <2>1 DEF QueueItem
    <2> HIDE DEF f
    <2>5. [job |-> job.number, item |-> f] \in Given
      BY <2>3 DEF Given
    <2>6. Append(session.inbox, [job |-> job.number, item |-> f]) \in Seq(Given)
      BY <2>2, <2>5 DEF SessionType
    <2>7. session' \in SessionType
      BY <2>2, <2>4, <2>6 DEF SessionType
    <2>8. fb' \in FeedbackType
      BY <2>2, <2>3, <2>4 DEF FeedbackType
    <2>9. [beats[1] EXCEPT !.at = "steering", !.item = NoItem] \in BeatType
      BY <2>2 DEF BeatType
    <2>10. beats' \in Seq(BeatType)
      BY <2>1, <2>2, <2>4, <2>9
    <2> QED
      BY <1>29, <1>0, <2>7, <2>8, <2>10 DEF Types, loop, world, agent, chain, clock,
         outbox, QueueItem
  <1>30. ASSUME NEW i \in DOMAIN beats, RefuseItem(i)  PROVE Types'
    <2>1. Reject
      BY <1>30 DEF RefuseItem
    <2>2. /\ turn' \in TurnType /\ timers' \in TimerType /\ runFailure' \in BOOLEAN
          /\ beats' \in Seq(BeatType) /\ broken' \in BOOLEAN /\ pc' \in Places
      BY <1>0, <2>1, RejectFits DEF Types, Places
    <2> QED
      BY <1>30, <1>0, <2>2 DEF Types, loop, world, agent, chain, clock, outbox,
         RefuseItem
  <1>31. CASE UNCHANGED vars
    BY <1>31, <1>0 DEF Types, loop, world, agent, chain, clock, outbox, vars
  <1> QED
    BY <1>1, <1>2, <1>3, <1>4, <1>5, <1>6, <1>7, <1>8, <1>9, <1>10, <1>11, <1>12,
       <1>13, <1>14, <1>15, <1>16, <1>17, <1>18, <1>19, <1>20, <1>21, <1>22, <1>23,
       <1>24, <1>25, <1>26, <1>27, <1>28, <1>29, <1>30, <1>31
       DEF Next, Main, Session, Chain

-------------------------------------------------------------------------------
(* The job and the session. *)

\* A job is at hand until it is reported, and it is the last one claimed.
LEMMA JobFitsStep ==
    ASSUME IInv, [Next]_vars
    PROVE  JobFits'
  <1>0. JobFits /\ TurnFits /\ Types /\ MaxJobs \in Nat /\ MaxEpisodes \in Nat
    BY WorkerAssumption DEF IInv
  <1>1. CASE PollFails
    BY <1>1, <1>0 DEF JobFits, loop, world, agent, chain, clock, outbox, PollFails
  <1>2. CASE Claim
    <2>1. PICK e \in 1..episode : job' = [number |-> claimed + 1, episode |-> e]
      <3>1. session.state # "none" => session.episode \in 1..episode
        BY DEF IInv, SessionFits
      <3>2. (IF session.state = "none" THEN 1 ELSE session.episode)..episode \subseteq 1..episode
        BY <1>0, <3>1 DEF Types
      <3> QED  BY <1>2, <3>2 DEF Claim
    <2>2. job'.number = claimed + 1 /\ job'.episode \in 1..episode /\ claimed \in Nat
      BY <1>0, <2>1 DEF Types
    <2> QED  BY <1>2, <2>2 DEF JobFits, Claim, world
  <1>3. CASE Open
    <2>1. pc' \in {"run", "report"}
      BY <1>3, OpenCases
    <2> QED  BY <1>3, <1>0, <2>1 DEF JobFits, Open, world
  <1>4. CASE PromptFails
    BY <1>4, <1>0 DEF JobFits, loop, world, agent, chain, clock, outbox, PromptFails,
       Clean, TurnFits
  <1>5. CASE PromptAgain
    BY <1>5, <1>0 DEF JobFits, loop, world, agent, chain, clock, outbox, PromptAgain,
       TurnOver
  <1>6. CASE ReasonMissing
    BY <1>6, <1>0 DEF JobFits, loop, world, agent, chain, clock, outbox, ReasonMissing,
       Clean, TurnOver
  <1>7. CASE LastBeat
    BY <1>7, <1>0 DEF JobFits, loop, world, agent, chain, clock, outbox, LastBeat,
       TurnOver
  <1>8. CASE Judge
    BY <1>8, <1>0 DEF JobFits, loop, world, agent, chain, clock, outbox, Judge, Clean
  <1>9. CASE Complete
    BY <1>9, <1>0 DEF JobFits, loop, world, agent, chain, clock, outbox, Complete
  <1>10. CASE Finally
    BY <1>10, <1>0 DEF JobFits, loop, world, agent, chain, clock, outbox, Finally, NoJob
  <1>11. CASE Report
    BY <1>11, <1>0 DEF JobFits, loop, world, agent, chain, clock, outbox, Report, NoJob
  <1>12. CASE Backoff
    BY <1>12, <1>0 DEF JobFits, loop, world, agent, chain, clock, outbox, Backoff
  <1>13. CASE Exit
    BY <1>13, <1>0 DEF JobFits, loop, world, agent, chain, clock, outbox, Exit
  <1>14. CASE StartRun
    BY <1>14, <1>0 DEF JobFits, loop, world, agent, chain, clock, outbox, StartRun
  <1>15. CASE Read
    BY <1>15, <1>0 DEF JobFits, loop, world, agent, chain, clock, outbox, Read
  <1>16. CASE EndApproval
    BY <1>16, <1>0 DEF JobFits, loop, world, agent, chain, clock, outbox, EndApproval
  <1>17. CASE Settle
    BY <1>17, <1>0 DEF JobFits, loop, world, agent, chain, clock, outbox, Settle
  <1>18. CASE Post
    BY <1>18, <1>0 DEF JobFits, loop, world, agent, chain, clock, outbox, Post
  <1>19. CASE Emit
    BY <1>19, <1>0 DEF JobFits, loop, world, agent, chain, clock, outbox, Emit
  <1>20. CASE AskApproval
    BY <1>20, <1>0 DEF JobFits, loop, world, agent, chain, clock, outbox, AskApproval
  <1>21. CASE DeadlineFires
    BY <1>21, <1>0 DEF JobFits, loop, world, agent, chain, clock, outbox, DeadlineFires
  <1>22. CASE Beat
    BY <1>22, <1>0 DEF JobFits, loop, world, agent, chain, clock, outbox, Beat
  <1>23. CASE Offer
    BY <1>23, <1>0 DEF JobFits, loop, world, agent, chain, clock, outbox, Offer
  <1>24. CASE NextEpisode
    <2>1. job.episode \in 1..episode => job.episode \in 1..episode + 1
      BY <1>0 DEF Types
    <2> QED  BY <1>24, <1>0, <2>1 DEF JobFits, NextEpisode, loop
  <1>25. CASE Terminate
    BY <1>25, <1>0 DEF JobFits, loop, world, agent, chain, clock, outbox, Terminate
  <1>26. ASSUME NEW i \in DOMAIN beats, BeatAnswered(i)  PROVE JobFits'
    <2>1. pc' = pc \/ (pc = "lastBeat" /\ pc' = "events")
      BY <1>26, LinkEnds
    <2> QED  BY <1>26, <1>0, <2>1 DEF JobFits, BeatAnswered
  <1>27. ASSUME NEW i \in DOMAIN beats, BeatFails(i)  PROVE JobFits'
    <2>1. pc' = IF pc = "lastBeat" THEN "cleanFailed" ELSE pc
      BY <1>27, RejectFits DEF BeatFails
    <2> QED  BY <1>27, <1>0, <2>1 DEF JobFits, BeatFails
  <1>28. ASSUME NEW i \in DOMAIN beats, PickItem(i)  PROVE JobFits'
    <2>1. pc' = pc \/ (pc = "lastBeat" /\ pc' = "events")
      BY <1>28, LinkEnds
    <2> QED  BY <1>28, <1>0, <2>1 DEF JobFits, PickItem, world
  <1>29. ASSUME NEW i \in DOMAIN beats, QueueItem(i)  PROVE JobFits'
    BY <1>29, <1>0 DEF JobFits, loop, world, agent, chain, clock, outbox, QueueItem
  <1>30. ASSUME NEW i \in DOMAIN beats, RefuseItem(i)  PROVE JobFits'
    <2>1. pc' = IF pc = "lastBeat" THEN "cleanFailed" ELSE pc
      BY <1>30, RejectFits DEF RefuseItem
    <2> QED  BY <1>30, <1>0, <2>1 DEF JobFits, RefuseItem, world
  <1>31. CASE UNCHANGED vars
    BY <1>31, <1>0 DEF JobFits, loop, world, agent, chain, clock, outbox, vars
  <1> QED
    BY <1>1, <1>2, <1>3, <1>4, <1>5, <1>6, <1>7, <1>8, <1>9, <1>10, <1>11, <1>12, <1>13,
       <1>14, <1>15, <1>16, <1>17, <1>18, <1>19, <1>20, <1>21, <1>22, <1>23, <1>24,
       <1>25, <1>26, <1>27, <1>28, <1>29, <1>30, <1>31
       DEF Next, Main, Session, Chain

\* A session is given up only for a job of a later episode.
LEMMA SessionFitsStep ==
    ASSUME IInv, [Next]_vars
    PROVE  SessionFits'
  <1>0. JobFits /\ SessionFits /\ TurnFits /\ Types
    BY DEF IInv
  <1>1. CASE PollFails
    BY <1>1, <1>0 DEF SessionFits, InTurn, loop, world, agent, chain, clock, outbox,
       PollFails
  <1>2. CASE Claim
    <2>1. PICK e \in (IF session.state = "none" THEN 1 ELSE session.episode)..episode :
            job' = [number |-> claimed + 1, episode |-> e]
      BY <1>2 DEF Claim
    <2>2. session.state # "none" => session.episode <= job'.episode
      BY <2>1, <1>0 DEF SessionFits, Types, SessionType
    <2>3. session' = session /\ episode' = episode /\ pc' = "open"
      BY <1>2 DEF Claim, agent, world
    <2> QED  BY <1>0, <2>2, <2>3 DEF SessionFits, InTurn
  <1>3. CASE Open
    <2>1. PICK c \in {session, Renewed(session)} :
            \/ /\ c.state # "none" /\ c.episode = job.episode
               /\ session' = c /\ pc' = "run"
            \/ /\ c.state = "none" \/ c.episode # job.episode
               /\ session' = Opened(job.episode) /\ pc' = "run"
            \/ /\ c.state = "none" \/ c.episode # job.episode
               /\ session' = Dropped(c) /\ pc' = "report"
      BY <1>3, OpenCases
    <2>2. /\ session \in SessionType /\ episode \in Nat /\ job.episode \in 1..episode
          /\ pc = "open" /\ job' = job /\ episode' = episode
      BY <1>3, <1>0 DEF Types, JobFits, Open, world
    <2>3. /\ c.episode = session.episode /\ c.state \in {"none", session.state}
          /\ c \in SessionType
      BY <2>2 DEF Renewed, SessionType
    <2>4. /\ session.state = "disposed" => session.episode < episode
          /\ session.state # "none" => session.episode \in 1..episode
          /\ session.state # "none" => session.episode <= job.episode
      BY <1>0, <2>2 DEF SessionFits
    <2>5. CASE session' = c /\ pc' = "run" /\ c.state # "none" /\ c.episode = job.episode
      BY <2>2, <2>3, <2>4, <2>5 DEF SessionFits, InTurn
    <2>6. CASE session' = Opened(job.episode) /\ pc' = "run"
      BY <2>2, <2>6 DEF SessionFits, InTurn, Opened
    <2>7. CASE /\ c.state = "none" \/ c.episode # job.episode
               /\ session' = Dropped(c) /\ pc' = "report"
      <3>1. /\ session'.episode = c.episode
            /\ session'.state = IF c.state = "none" THEN "none" ELSE "disposed"
        BY <2>3, <2>7 DEF Dropped, SessionType
      <3>2. c.state # "none" => c.episode < episode
        BY <2>2, <2>3, <2>4, <2>7 DEF SessionType
      <3> QED  BY <2>2, <2>3, <2>4, <2>7, <3>1, <3>2 DEF SessionFits, InTurn
    <2> QED  BY <2>1, <2>5, <2>6, <2>7
  <1>4. CASE PromptFails
    BY <1>4, <1>0 DEF SessionFits, InTurn, loop, world, agent, chain, clock, outbox,
       PromptFails, Clean, TurnFits
  <1>5. CASE PromptAgain
    BY <1>5, <1>0 DEF SessionFits, InTurn, loop, world, agent, chain, clock, outbox,
       PromptAgain, TurnOver
  <1>6. CASE ReasonMissing
    BY <1>6, <1>0 DEF SessionFits, InTurn, loop, world, agent, chain, clock, outbox,
       ReasonMissing, Clean, TurnOver
  <1>7. CASE LastBeat
    BY <1>7, <1>0 DEF SessionFits, InTurn, loop, world, agent, chain, clock, outbox,
       LastBeat, TurnOver
  <1>8. CASE Judge
    BY <1>8, <1>0 DEF SessionFits, InTurn, loop, world, agent, chain, clock, outbox,
       Judge, Clean
  <1>9. CASE Complete
    BY <1>9, <1>0 DEF SessionFits, InTurn, loop, world, agent, chain, clock, outbox,
       Complete
  <1>10. CASE Finally
    BY <1>10, <1>0 DEF SessionFits, InTurn, loop, world, agent, chain, clock, outbox,
       Finally, NoJob
  <1>11. CASE Report
    BY <1>11, <1>0 DEF SessionFits, InTurn, loop, world, agent, chain, clock, outbox,
       Report, NoJob
  <1>12. CASE Backoff
    BY <1>12, <1>0 DEF SessionFits, InTurn, loop, world, agent, chain, clock, outbox,
       Backoff
  <1>13. CASE Exit
    BY <1>13, <1>0 DEF SessionFits, InTurn, loop, world, agent, chain, clock, outbox,
       Exit
  <1>14. CASE StartRun
    BY <1>14, <1>0 DEF SessionFits, InTurn, loop, world, agent, chain, clock, outbox,
       StartRun
  <1>15. CASE Read
    <2>1. session'.state = session.state /\ session'.episode = session.episode
      BY <1>15, <1>0 DEF Read, Types, SessionType
    <2> QED  BY <1>15, <1>0, <2>1 DEF SessionFits, InTurn, Read, loop, world
  <1>16. CASE EndApproval
    BY <1>16, <1>0 DEF SessionFits, InTurn, loop, world, agent, chain, clock, outbox,
       EndApproval
  <1>17. CASE Settle
    BY <1>17, <1>0 DEF SessionFits, InTurn, loop, world, agent, chain, clock, outbox,
       Settle
  <1>18. CASE Post
    BY <1>18, <1>0 DEF SessionFits, InTurn, loop, world, agent, chain, clock, outbox,
       Post
  <1>19. CASE Emit
    BY <1>19, <1>0 DEF SessionFits, InTurn, loop, world, agent, chain, clock, outbox,
       Emit
  <1>20. CASE AskApproval
    BY <1>20, <1>0 DEF SessionFits, InTurn, loop, world, agent, chain, clock, outbox,
       AskApproval
  <1>21. CASE DeadlineFires
    BY <1>21, <1>0 DEF SessionFits, InTurn, loop, world, agent, chain, clock, outbox,
       DeadlineFires
  <1>22. CASE Beat
    BY <1>22, <1>0 DEF SessionFits, InTurn, loop, world, agent, chain, clock, outbox,
       Beat
  <1>23. CASE Offer
    BY <1>23, <1>0 DEF SessionFits, InTurn, loop, world, agent, chain, clock, outbox,
       Offer
  <1>24. CASE NextEpisode
    <2>1. /\ session.episode < episode => session.episode < episode + 1
          /\ session.episode \in 1..episode => session.episode \in 1..episode + 1
      BY <1>0 DEF Types, SessionType
    <2> QED  BY <1>24, <1>0, <2>1 DEF SessionFits, InTurn, NextEpisode, loop, agent
  <1>25. CASE Terminate
    BY <1>25, <1>0 DEF SessionFits, InTurn, loop, world, agent, chain, clock, outbox,
       Terminate
  <1>26. ASSUME NEW i \in DOMAIN beats, BeatAnswered(i)  PROVE SessionFits'
    <2>1. pc' = pc \/ (pc = "lastBeat" /\ pc' = "events")
      BY <1>26, LinkEnds
    <2> QED  BY <1>26, <1>0, <2>1 DEF SessionFits, BeatAnswered, agent, InTurn
  <1>27. ASSUME NEW i \in DOMAIN beats, BeatFails(i)  PROVE SessionFits'
    <2>1. pc' = IF pc = "lastBeat" THEN "cleanFailed" ELSE pc
      BY <1>27, RejectFits DEF BeatFails
    <2> QED  BY <1>27, <1>0, <2>1 DEF SessionFits, BeatFails, InTurn
  <1>28. ASSUME NEW i \in DOMAIN beats, PickItem(i)  PROVE SessionFits'
    <2>1. pc' = pc \/ (pc = "lastBeat" /\ pc' = "events")
      BY <1>28, LinkEnds
    <2> QED  BY <1>28, <1>0, <2>1 DEF SessionFits, PickItem, agent, world, InTurn
  <1>29. ASSUME NEW i \in DOMAIN beats, QueueItem(i)  PROVE SessionFits'
    <2>1. session'.state = session.state /\ session'.episode = session.episode
      BY <1>29, <1>0 DEF QueueItem, Types, SessionType
    <2> QED  BY <1>29, <1>0, <2>1 DEF SessionFits, InTurn, QueueItem, loop, world
  <1>30. ASSUME NEW i \in DOMAIN beats, RefuseItem(i)  PROVE SessionFits'
    <2>1. pc' = IF pc = "lastBeat" THEN "cleanFailed" ELSE pc
      BY <1>30, RejectFits DEF RefuseItem
    <2> QED  BY <1>30, <1>0, <2>1 DEF SessionFits, RefuseItem, world, InTurn
  <1>31. CASE UNCHANGED vars
    BY <1>31, <1>0 DEF SessionFits, InTurn, loop, world, agent, chain, clock, outbox,
       vars
  <1> QED
    BY <1>1, <1>2, <1>3, <1>4, <1>5, <1>6, <1>7, <1>8, <1>9, <1>10, <1>11, <1>12, <1>13,
       <1>14, <1>15, <1>16, <1>17, <1>18, <1>19, <1>20, <1>21, <1>22, <1>23, <1>24,
       <1>25, <1>26, <1>27, <1>28, <1>29, <1>30, <1>31
       DEF Next, Main, Session, Chain

-------------------------------------------------------------------------------
(* The session's run, approvals, timers and events. *)

\* Whatever the session, its approvals, its deadline and its events do, they do it
\* while the main loop is at the job.
LEMMA TurnFitsStep ==
    ASSUME IInv, [Next]_vars
    PROVE  TurnFits'
  <1>0. /\ TurnFits /\ turn \in TurnType /\ timers \in TimerType /\ events \in EventType
        /\ pc \in Places /\ approvals \in Nat /\ posts \in Nat /\ runFailure \in BOOLEAN
    BY DEF IInv, Types
  <1>1. CASE PollFails
    BY <1>1, <1>0 DEF TurnFits, Working, InTurn, TurnType, TimerType, EventType, loop,
       world, agent, chain, clock, outbox, PollFails
  <1>2. CASE Claim
    BY <1>2, <1>0 DEF TurnFits, Working, InTurn, TurnType, TimerType, EventType, loop,
       world, agent, chain, clock, outbox, Claim
  <1>3. CASE Open
    <2>1. pc' \in {"run", "report"} /\ pc = "open"
      BY <1>3, OpenCases DEF Open
    <2>2. turn.at = "idle" /\ timers.deadline = FALSE /\ approvals = 0 /\ posts = 0
      BY <1>0, <2>1 DEF TurnFits, Working, InTurn, TurnType, TimerType
    <2>3. \/ pc' = "run" /\ timers' = [timers EXCEPT !.deadline = TRUE]
          \/ pc' = "report" /\ timers' = timers /\ turn' = turn
      BY <1>3, <2>1 DEF Open
    <2>4. timers'.stray = timers.stray /\ (pc' = "report" => timers'.deadline = FALSE)
      BY <1>0, <2>2, <2>3 DEF TimerType
    <2> QED
      BY <1>3, <1>0, <2>1, <2>2, <2>3, <2>4
         DEF TurnFits, Working, InTurn, Open, outbox, loop
  <1>4. CASE PromptFails
    <2>1. pc = "run" /\ approvals = 0
      BY <1>4, <1>0 DEF PromptFails, TurnFits
    <2>2. turn'.at = "idle" /\ timers'.deadline = FALSE /\ timers'.stray = timers.stray
          /\ pc' = "cleanFailed"
      BY <1>4, <1>0 DEF PromptFails, Clean, TurnType, TimerType
    <2> QED
      BY <1>4, <1>0, <2>1, <2>2 DEF TurnFits, Working, InTurn, PromptFails, outbox,
         clock
  <1>5. CASE PromptAgain
    BY <1>5, <1>0 DEF TurnFits, Working, InTurn, TurnType, TimerType, EventType, loop,
       world, agent, chain, clock, outbox, PromptAgain, TurnOver
  <1>6. CASE ReasonMissing
    BY <1>6, <1>0 DEF TurnFits, Working, InTurn, TurnType, TimerType, EventType, loop,
       world, agent, chain, clock, outbox, ReasonMissing, Clean, TurnOver
  <1>7. CASE LastBeat
    BY <1>7, <1>0 DEF TurnFits, Working, InTurn, TurnType, TimerType, EventType, loop,
       world, agent, chain, clock, outbox, LastBeat, TurnOver
  <1>8. CASE Judge
    <2>1. turn.at = "idle" /\ approvals = 0
      BY <1>8, <1>0 DEF Judge, TurnFits
    <2>2. /\ timers'.stray = timers.stray
          /\ \/ timers'.deadline = FALSE /\ pc' = "cleanFailed"
             \/ timers' = timers /\ pc' = "completing"
      BY <1>8, <1>0 DEF Judge, Clean, TimerType
    <2> QED
      BY <1>8, <1>0, <2>1, <2>2 DEF TurnFits, Working, InTurn, Judge, outbox, agent
  <1>9. CASE Complete
    BY <1>9, <1>0 DEF TurnFits, Working, InTurn, TurnType, TimerType, EventType, loop,
       world, agent, chain, clock, outbox, Complete
  <1>10. CASE Finally
    <2>1. turn'.at = "idle" /\ events'.lost = FALSE
      BY <1>10 DEF Finally, NoTurn, NoEvents
    <2>2. pc' \in {"poll", "report"} /\ posts' = 0 /\ timers.deadline = FALSE
      BY <1>10, <1>0 DEF Finally, Settled, TurnFits, InTurn, TimerType
    <2> QED
      BY <1>10, <1>0, <2>1, <2>2 DEF TurnFits, Working, InTurn, Finally, clock
  <1>11. CASE Report
    BY <1>11, <1>0 DEF TurnFits, Working, InTurn, TurnType, TimerType, EventType, loop,
       world, agent, chain, clock, outbox, Report, NoJob
  <1>12. CASE Backoff
    BY <1>12, <1>0 DEF TurnFits, Working, InTurn, TurnType, TimerType, EventType, loop,
       world, agent, chain, clock, outbox, Backoff
  <1>13. CASE Exit
    BY <1>13, <1>0 DEF TurnFits, Working, InTurn, TurnType, TimerType, EventType, loop,
       world, agent, chain, clock, outbox, Exit
  <1>14. CASE StartRun
    BY <1>14, <1>0 DEF TurnFits, Working, InTurn, TurnType, TimerType, EventType, loop,
       world, agent, chain, clock, outbox, StartRun
  <1>15. CASE Read
    BY <1>15, <1>0 DEF TurnFits, Working, InTurn, TurnType, TimerType, EventType, loop,
       world, agent, chain, clock, outbox, Read
  <1>16. CASE EndApproval
    <2>1. timers.deadline = FALSE /\ approvals = 1 /\ turn.at = "streaming" /\ pc = "run"
      BY <1>16, <1>0 DEF EndApproval, TurnFits
    <2>2. timers'.stray = 0 /\ approvals' = 0
      BY <1>16, <1>0, <2>1 DEF EndApproval, TurnFits
    <2> QED
      BY <1>16, <1>0, <2>1, <2>2
         DEF TurnFits, Working, InTurn, EndApproval, loop, agent, outbox
  <1>17. CASE Settle
    BY <1>17, <1>0 DEF TurnFits, Working, InTurn, TurnType, TimerType, EventType, loop,
       world, agent, chain, clock, outbox, Settle
  <1>18. CASE Post
    <2>1. turn'.at = turn.at
      BY <1>18, <1>0, AbortFits DEF Post
    <2>2. pc \in Places /\ Working
      BY <1>18, <1>0 DEF Post, TurnFits
    <2>3. events'.lost => runFailure'
      BY <1>18, <1>0 DEF Post, TurnFits, EventType
    <2> QED
      BY <1>18, <1>0, <2>1, <2>2, <2>3 DEF TurnFits, Working, InTurn, Post, loop
  <1>19. CASE Emit
    <2>1. turn'.at = turn.at
      BY <1>19, <1>0, AbortFits DEF Emit
    <2>2. Working
      BY <1>19, <1>0 DEF Emit, TurnFits, Working
    <2>3. events'.lost => runFailure'
      BY <1>19, <1>0 DEF Emit, TurnFits, EventType
    <2> QED
      BY <1>19, <1>0, <2>1, <2>2, <2>3 DEF TurnFits, Working, InTurn, Emit, loop
  <1>20. CASE AskApproval
    <2>1. timers'.stray = timers.stray /\ timers'.deadline = FALSE
      BY <1>20, <1>0 DEF AskApproval, TimerType
    <2>2. approvals' = 1
      BY <1>20 DEF AskApproval, MayAsk
    <2> QED
      BY <1>20, <1>0, <2>1, <2>2
         DEF TurnFits, Working, InTurn, AskApproval, loop, agent, outbox
  <1>21. CASE DeadlineFires
    <2>1. turn'.at = turn.at
      BY <1>21, <1>0, AbortFits DEF DeadlineFires
    <2>2. timers'.stray = 0 /\ timers'.deadline = FALSE /\ runFailure' = TRUE
      <3>1. timers.stray = 0 /\ timers' = [timers EXCEPT !.deadline = FALSE]
        BY <1>21, <1>0 DEF DeadlineFires, TurnFits
      <3> QED  BY <1>21, <1>0, <3>1 DEF DeadlineFires, TimerType
    <2> QED
      BY <1>21, <1>0, <2>1, <2>2 DEF TurnFits, Working, InTurn, DeadlineFires, loop,
         outbox
  <1>22. CASE Beat
    BY <1>22, <1>0 DEF TurnFits, Working, InTurn, TurnType, TimerType, EventType, loop,
       world, agent, chain, clock, outbox, Beat
  <1>23. CASE Offer
    BY <1>23, <1>0 DEF TurnFits, Working, InTurn, TurnType, TimerType, EventType, loop,
       world, agent, chain, clock, outbox, Offer
  <1>24. CASE NextEpisode
    BY <1>24, <1>0 DEF TurnFits, Working, InTurn, TurnType, TimerType, EventType, loop,
       world, agent, chain, clock, outbox, NextEpisode
  <1>25. CASE Terminate
    <2>1. turn'.at = turn.at
      BY <1>25, <1>0, AbortFits DEF Terminate
    <2> QED
      BY <1>25, <1>0, <2>1 DEF TurnFits, Working, InTurn, Terminate, loop, clock, outbox
  <1>26. ASSUME NEW i \in DOMAIN beats, BeatAnswered(i)  PROVE TurnFits'
    <2>1. pc' = pc \/ (pc = "lastBeat" /\ pc' = "events")
      BY <1>26, LinkEnds
    <2> QED
      BY <1>26, <1>0, <2>1 DEF TurnFits, BeatAnswered, agent, clock, outbox, Working,
         InTurn
  <1>27. ASSUME NEW i \in DOMAIN beats, BeatFails(i)  PROVE TurnFits'
    <2>1. Reject /\ approvals' = approvals /\ posts' = posts /\ events' = events
      BY <1>27 DEF BeatFails, outbox
    <2> QED  BY <1>0, <2>1, RejectFits DEF TurnFits, Working, InTurn
  <1>28. ASSUME NEW i \in DOMAIN beats, PickItem(i)  PROVE TurnFits'
    <2>1. pc' = pc \/ (pc = "lastBeat" /\ pc' = "events")
      BY <1>28, LinkEnds
    <2> QED
      BY <1>28, <1>0, <2>1 DEF TurnFits, PickItem, agent, clock, outbox, Working, InTurn
  <1>29. ASSUME NEW i \in DOMAIN beats, QueueItem(i)  PROVE TurnFits'
    BY <1>29, <1>0 DEF TurnFits, Working, InTurn, TurnType, TimerType, EventType, loop,
       world, agent, chain, clock, outbox, QueueItem
  <1>30. ASSUME NEW i \in DOMAIN beats, RefuseItem(i)  PROVE TurnFits'
    <2>1. Reject /\ approvals' = approvals /\ posts' = posts /\ events' = events
      BY <1>30 DEF RefuseItem, outbox
    <2> QED  BY <1>0, <2>1, RejectFits DEF TurnFits, Working, InTurn
  <1>31. CASE UNCHANGED vars
    BY <1>31, <1>0 DEF TurnFits, Working, InTurn, TurnType, TimerType, EventType, loop,
       world, agent, chain, clock, outbox, vars
  <1> QED
    BY <1>1, <1>2, <1>3, <1>4, <1>5, <1>6, <1>7, <1>8, <1>9, <1>10, <1>11, <1>12, <1>13,
       <1>14, <1>15, <1>16, <1>17, <1>18, <1>19, <1>20, <1>21, <1>22, <1>23, <1>24,
       <1>25, <1>26, <1>27, <1>28, <1>29, <1>30, <1>31
       DEF Next, Main, Session, Chain

-------------------------------------------------------------------------------
(* The chain of heartbeats. *)

\* A heartbeat joins behind the others.
LEMMA AppendFits ==
    ASSUME NEW b \in Seq(BeatType), NEW x
    PROVE  /\ Len(Append(b, x)) = Len(b) + 1 /\ DOMAIN Append(b, x) = 1..(Len(b) + 1)
           /\ Append(b, x)[Len(b) + 1] = x /\ Append(b, x) # <<>>
           /\ \A i \in 1..Len(b) : Append(b, x)[i] = b[i]
           /\ DOMAIN b = 1..Len(b) /\ Len(b) \in Nat
  OBVIOUS

\* The oldest link changes what it does, not whose it is.
LEMMA OldestMoves ==
    ASSUME IInv, beats # <<>>, NEW b \in BeatType, b.by = beats[1].by,
           beats' = [beats EXCEPT ![1] = b], pc' = pc
    PROVE  ChainFits'
  <1>1. /\ beats \in Seq(BeatType) /\ DOMAIN beats' = DOMAIN beats /\ Len(beats') = Len(beats)
        /\ DOMAIN beats = 1..Len(beats) /\ Len(beats) \in Nat /\ Len(beats) > 0
    BY DEF IInv, Types
  <1>2. \A i \in DOMAIN beats : beats'[i].by = beats[i].by
    BY <1>1
  <1>3. \A i \in DOMAIN beats : i > 1 => beats'[i] = beats[i]
    BY <1>1
  <1>4. Working'
    BY DEF IInv, ChainFits, Working
  <1> QED  BY <1>1, <1>2, <1>3, <1>4 DEF IInv, ChainFits

\* The others move up, and the main loop goes on when its own link ended.
LEMMA OldestLeaves ==
    ASSUME IInv, beats # <<>>, EndBeat(1)
    PROVE  ChainFits'
  <1> DEFINE n == Len(beats)
  <1>1. /\ n \in Nat /\ n # 0 /\ DOMAIN beats = 1..n /\ ChainFits
    BY DEF IInv, Types
  <1>2. /\ Len(beats') = n - 1 /\ DOMAIN beats' = 1..(n - 1)
        /\ \A k \in DOMAIN beats' : k + 1 \in DOMAIN beats /\ beats'[k] = beats[k + 1]
        /\ pc' = IF beats[1].by = "main" THEN "events" ELSE pc
    BY OldestEnds DEF IInv
  <1> HIDE DEF n
  <1>3. \A i \in 1..n : beats[i].by = "main" => pc = "lastBeat"
    BY <1>1 DEF ChainFits
  <1>4. \A i, k \in 1..n : beats[i].by = "main" /\ beats[k].by = "main" => i = k
    BY <1>1 DEF ChainFits
  <1>5. Working'
    BY <1>1, <1>2 DEF ChainFits, Working
  <1>6. \A k \in DOMAIN beats' : beats'[k].at = "waiting"
    <2> SUFFICES ASSUME NEW k \in DOMAIN beats'  PROVE beats'[k].at = "waiting"
      OBVIOUS
    <2>1. k + 1 \in 1..n /\ k + 1 > 1 /\ beats'[k] = beats[k + 1]
      BY <1>1, <1>2
    <2> QED  BY <1>1, <2>1 DEF ChainFits
  <1>7. CASE beats[1].by = "main"
    <2>1. pc = "lastBeat" /\ pc' = "events" /\ n <= MaxBeats + 1
      BY <1>1, <1>2, <1>3, <1>7 DEF ChainFits
    <2>2. \A k \in DOMAIN beats' : beats'[k].by # "main"
      <3> SUFFICES ASSUME NEW k \in DOMAIN beats', beats'[k].by = "main"  PROVE FALSE
        OBVIOUS
      <3>1. k + 1 \in 1..n /\ beats[k + 1].by = "main" /\ k + 1 # 1 /\ 1 \in 1..n
        BY <1>1, <1>2
      <3> QED  BY <1>4, <1>7, <3>1
    <2>3. Len(beats') <= MaxBeats
      BY <1>1, <1>2, <2>1, WorkerAssumption
    <2> QED  BY <1>5, <1>6, <2>1, <2>2, <2>3, WorkerAssumption DEF ChainFits
  <1>8. CASE beats[1].by # "main"
    <2>1. pc' = pc
      BY <1>2, <1>8
    <2>2. \A k \in DOMAIN beats' : beats'[k].by = "main" => pc = "lastBeat"
      BY <1>1, <1>2, <1>3
    <2>3. \A i, k \in DOMAIN beats' : beats'[i].by = "main" /\ beats'[k].by = "main" => i = k
      <3> SUFFICES ASSUME NEW i \in DOMAIN beats', NEW k \in DOMAIN beats',
                          beats'[i].by = "main", beats'[k].by = "main"
                   PROVE  i = k
        OBVIOUS
      <3>1. /\ i + 1 \in 1..n /\ beats[i + 1].by = "main"
            /\ k + 1 \in 1..n /\ beats[k + 1].by = "main"
        BY <1>1, <1>2
      <3>2. i + 1 = k + 1
        BY <1>4, <3>1
      <3> QED  BY <1>1, <1>2, <3>2
    <2>4. pc = "lastBeat" => \E k \in DOMAIN beats' : beats'[k].by = "main"
      <3> SUFFICES ASSUME pc = "lastBeat"
                   PROVE  \E k \in DOMAIN beats' : beats'[k].by = "main"
        OBVIOUS
      <3>1. PICK i \in 1..n : beats[i].by = "main"
        BY <1>1 DEF ChainFits
      <3>2. i # 1 /\ i - 1 \in 1..(n - 1) /\ (i - 1) + 1 = i
        BY <1>1, <1>8, <3>1
      <3>3. beats'[i - 1] = beats[(i - 1) + 1]
        BY <1>2, <3>2
      <3> QED  BY <1>2, <3>1, <3>2, <3>3
    <2>5. Len(beats') <= MaxBeats + 1 /\ (pc # "lastBeat" => Len(beats') <= MaxBeats)
      BY <1>1, <1>2, WorkerAssumption DEF ChainFits
    <2> QED  BY <1>5, <1>6, <2>1, <2>2, <2>3, <2>4, <2>5 DEF ChainFits
  <1> QED  BY <1>7, <1>8

\* Heartbeats run one after the other, and the main loop waits for its own.
LEMMA ChainFitsStep ==
    ASSUME IInv, [Next]_vars
    PROVE  ChainFits'
  <1> USE DEF IInv
  <1>0. ChainFits /\ beats \in Seq(BeatType) /\ MaxBeats \in Nat /\ TurnFits
    BY WorkerAssumption DEF Types
  <1>1. CASE PollFails
    BY <1>1, <1>0 DEF ChainFits, Working, loop, world, agent, chain, clock, outbox,
       PollFails
  <1>2. CASE Claim
    <2>1. beats' = <<>> /\ pc' = "open"
      BY <1>2 DEF Claim
    <2>2. DOMAIN beats' = {} /\ Len(beats') = 0
      BY <2>1
    <2> QED  BY <1>0, <2>1, <2>2 DEF ChainFits
  <1>3. CASE Open
    <2>1. pc = "open" /\ pc' \in {"run", "report"} /\ beats' = beats
      BY <1>3, OpenCases DEF Open, chain
    <2>2. beats = <<>> /\ DOMAIN beats = {} /\ Len(beats) = 0
      BY <1>0, <2>1 DEF ChainFits, Working
    <2> QED  BY <1>0, <2>1, <2>2 DEF ChainFits
  <1>4. CASE PromptFails
    BY <1>4, <1>0 DEF ChainFits, Working, loop, world, agent, chain, clock, outbox,
       PromptFails, Clean, TurnFits
  <1>5. CASE PromptAgain
    BY <1>5, <1>0 DEF ChainFits, Working, loop, world, agent, chain, clock, outbox,
       PromptAgain, TurnOver
  <1>6. CASE ReasonMissing
    BY <1>6, <1>0 DEF ChainFits, Working, loop, world, agent, chain, clock, outbox,
       ReasonMissing, Clean, TurnOver
  <1>7. CASE LastBeat
    <2>1. /\ pc = "run" /\ pc' = "lastBeat" /\ beats' = Append(beats, NewBeat("main"))
      BY <1>7 DEF LastBeat, TurnOver
    <2> DEFINE x == NewBeat("main")
               n == Len(beats)
    <2>2. x.by = "main" /\ x.at = "waiting"
      BY DEF NewBeat
    <2> HIDE DEF x
    <2>3. \A i \in DOMAIN beats : beats[i].by # "main" /\ (i > 1 => beats[i].at = "waiting")
      BY <1>0, <2>1 DEF ChainFits
    <2>4. /\ Len(beats') = n + 1 /\ DOMAIN beats' = 1..(n + 1) /\ beats'[n + 1] = x
          /\ beats' # <<>> /\ \A i \in 1..n : beats'[i] = beats[i]
          /\ DOMAIN beats = 1..n /\ n \in Nat
      BY <1>0, <2>1, AppendFits DEF x
    <2>5. n <= MaxBeats
      BY <1>0, <2>1 DEF ChainFits
    <2> HIDE DEF n
    <2>6. \A i \in 1..(n + 1) : /\ beats'[i].by = "main" => i = n + 1
                                /\ i > 1 => beats'[i].at = "waiting"
      BY <2>2, <2>3, <2>4
    <2>7. Len(beats') <= MaxBeats + 1
      BY <1>0, <2>4, <2>5
    <2> QED  BY <1>0, <2>1, <2>2, <2>4, <2>6, <2>7 DEF ChainFits, Working
  <1>8. CASE Judge
    BY <1>8, <1>0 DEF ChainFits, Working, loop, world, agent, chain, clock, outbox,
       Judge, Clean
  <1>9. CASE Complete
    BY <1>9, <1>0 DEF ChainFits, Working, loop, world, agent, chain, clock, outbox,
       Complete
  <1>10. CASE Finally
    <2>1. beats' = beats /\ beats = <<>> /\ pc' \in {"poll", "report"}
      BY <1>10 DEF Finally, Settled
    <2>2. DOMAIN beats = {} /\ Len(beats) = 0
      BY <2>1
    <2> QED  BY <1>0, <2>1, <2>2 DEF ChainFits
  <1>11. CASE Report
    BY <1>11, <1>0 DEF ChainFits, Working, loop, world, agent, chain, clock, outbox,
       Report
  <1>12. CASE Backoff
    BY <1>12, <1>0 DEF ChainFits, Working, loop, world, agent, chain, clock, outbox,
       Backoff
  <1>13. CASE Exit
    BY <1>13, <1>0 DEF ChainFits, Working, loop, world, agent, chain, clock, outbox,
       Exit
  <1>14. CASE StartRun
    BY <1>14, <1>0 DEF ChainFits, Working, loop, world, agent, chain, clock, outbox,
       StartRun
  <1>15. CASE Read
    BY <1>15, <1>0 DEF ChainFits, Working, loop, world, agent, chain, clock, outbox,
       Read
  <1>16. CASE EndApproval
    BY <1>16, <1>0 DEF ChainFits, Working, loop, world, agent, chain, clock, outbox,
       EndApproval
  <1>17. CASE Settle
    BY <1>17, <1>0 DEF ChainFits, Working, loop, world, agent, chain, clock, outbox,
       Settle
  <1>18. CASE Post
    BY <1>18, <1>0 DEF ChainFits, Working, loop, world, agent, chain, clock, outbox,
       Post
  <1>19. CASE Emit
    BY <1>19, <1>0 DEF ChainFits, Working, loop, world, agent, chain, clock, outbox,
       Emit
  <1>20. CASE AskApproval
    BY <1>20, <1>0 DEF ChainFits, Working, loop, world, agent, chain, clock, outbox,
       AskApproval
  <1>21. CASE DeadlineFires
    BY <1>21, <1>0 DEF ChainFits, Working, loop, world, agent, chain, clock, outbox,
       DeadlineFires
  <1>22. CASE Beat
    <2>1. PICK by \in {"timer", "tool"} :
            /\ IF by = "timer" THEN InTurn ELSE turn.at = "streaming"
            /\ beats' = Append(beats, NewBeat(by))
      BY <1>22 DEF Beat
    <2> DEFINE x == NewBeat(by)
               n == Len(beats)
    <2>2. x.by # "main" /\ x.at = "waiting"
      BY DEF NewBeat
    <2>3. pc' = pc /\ Working /\ n < MaxBeats
      BY <1>22, <1>0, <2>1 DEF Beat, loop, TurnFits, Working, InTurn
    <2> HIDE DEF x
    <2>4. /\ Len(beats') = n + 1 /\ DOMAIN beats' = 1..(n + 1) /\ beats'[n + 1] = x
          /\ beats' # <<>> /\ \A i \in 1..n : beats'[i] = beats[i]
          /\ DOMAIN beats = 1..n /\ n \in Nat
      BY <1>0, <2>1, AppendFits DEF x
    <2> HIDE DEF n
    <2>5. \A i \in 1..(n + 1) : /\ beats'[i].by = "main" => i \in 1..n /\ pc = "lastBeat"
                                /\ i > 1 => beats'[i].at = "waiting"
      <3>1. \A i \in 1..n : /\ i > 1 => beats[i].at = "waiting"
                            /\ beats[i].by = "main" => pc = "lastBeat"
        BY <1>0, <2>4 DEF ChainFits
      <3> QED  BY <2>2, <2>4, <3>1
    <2>6. \A i, k \in 1..(n + 1) : beats'[i].by = "main" /\ beats'[k].by = "main" => i = k
      <3>1. \A i, k \in 1..n : beats[i].by = "main" /\ beats[k].by = "main" => i = k
        BY <1>0, <2>4 DEF ChainFits
      <3> QED  BY <2>4, <2>5, <3>1
    <2>7. pc = "lastBeat" => \E i \in 1..(n + 1) : beats'[i].by = "main"
      <3>1. pc = "lastBeat" => \E i \in 1..n : beats[i].by = "main"
        BY <1>0, <2>4 DEF ChainFits
      <3>2. 1..n \subseteq 1..(n + 1)
        BY <2>4
      <3> QED  BY <2>4, <3>1, <3>2
    <2>8. Len(beats') <= MaxBeats + 1 /\ (pc # "lastBeat" => Len(beats') <= MaxBeats)
      BY <1>0, <2>3, <2>4
    <2>9. Working'
      BY <2>3 DEF Working
    <2> QED  BY <2>3, <2>4, <2>5, <2>6, <2>7, <2>8, <2>9 DEF ChainFits
  <1>23. CASE Offer
    BY <1>23, <1>0 DEF ChainFits, Working, loop, world, agent, chain, clock, outbox,
       Offer
  <1>24. CASE NextEpisode
    BY <1>24, <1>0 DEF ChainFits, Working, loop, world, agent, chain, clock, outbox,
       NextEpisode
  <1>25. CASE Terminate
    BY <1>25, <1>0 DEF ChainFits, Working, loop, world, agent, chain, clock, outbox,
       Terminate
  <1>26. ASSUME NEW i \in DOMAIN beats, BeatAnswered(i)  PROVE ChainFits'
    <2>1. i = 1 /\ beats # <<>> /\ 1 \in DOMAIN beats
      BY <1>26 DEF BeatAnswered, MayMove
    <2>2. CASE EndBeat(i)
      BY <2>1, <2>2, OldestLeaves
    <2>3. CASE ~EndBeat(i)
      <3> DEFINE list == broker.offered \ Acked
                 b == [beats[1] EXCEPT !.at = "steering", !.list = list]
      <3>1. beats' = [beats EXCEPT ![1].at = "steering", ![1].list = list] /\ pc' = pc
        BY <1>26, <2>1, <2>3 DEF BeatAnswered
      <3>2. list \subseteq Feedback /\ beats[1] \in BeatType
        BY <1>0, <2>1 DEF Types, OfferType
      <3> HIDE DEF list
      <3>3. b \in BeatType /\ b.by = beats[1].by
        BY <3>2 DEF BeatType
      <3>4. beats' = [beats EXCEPT ![1] = b]
        BY <2>1, <3>1
      <3> HIDE DEF b
      <3> QED  BY <2>1, <3>1, <3>3, <3>4, OldestMoves
    <2> QED  BY <2>2, <2>3
  <1>27. ASSUME NEW i \in DOMAIN beats, BeatFails(i)  PROVE ChainFits'
    <2>1. Reject
      BY <1>27 DEF BeatFails
    <2>2. beats' = <<>> /\ pc' # "lastBeat" /\ DOMAIN beats' = {} /\ Len(beats') = 0
      BY <2>1, RejectFits
    <2> QED  BY <1>0, <2>2 DEF ChainFits
  <1>28. ASSUME NEW i \in DOMAIN beats, PickItem(i)  PROVE ChainFits'
    <2>1. i = 1 /\ beats # <<>> /\ 1 \in DOMAIN beats
      BY <1>28 DEF PickItem, MayMove
    <2>2. CASE EndBeat(i)
      BY <2>1, <2>2, OldestLeaves
    <2>3. CASE ~EndBeat(i)
      <3>1. PICK f \in beats[1].list :
              beats' = [beats EXCEPT ![1].at = "queueing", ![1].item = f]
        BY <1>28, <2>1, <2>3 DEF PickItem
      <3> DEFINE b == [beats[1] EXCEPT !.at = "queueing", !.item = f]
      <3>2. pc' = pc
        BY <1>28, <2>3 DEF PickItem
      <3>3. b \in BeatType /\ b.by = beats[1].by
        <4>1. beats[1] \in BeatType
          BY <1>0, <2>1
        <4> QED  BY <3>1, <4>1 DEF BeatType
      <3>4. beats' = [beats EXCEPT ![1] = b]
        BY <2>1, <3>1
      <3> HIDE DEF b
      <3> QED  BY <2>1, <3>2, <3>3, <3>4, OldestMoves
    <2> QED  BY <2>2, <2>3
  <1>29. ASSUME NEW i \in DOMAIN beats, QueueItem(i)  PROVE ChainFits'
    <2>1. i = 1 /\ beats # <<>> /\ 1 \in DOMAIN beats /\ pc' = pc
      BY <1>29 DEF QueueItem, MayMove, loop
    <2> DEFINE b == [beats[1] EXCEPT !.at = "steering", !.item = NoItem]
    <2>2. beats' = [beats EXCEPT ![1] = b]
      BY <1>29, <2>1 DEF QueueItem
    <2>3. b \in BeatType /\ b.by = beats[1].by
      <3>1. beats[1] \in BeatType
        BY <1>0, <2>1
      <3> QED  BY <3>1 DEF BeatType
    <2> HIDE DEF b
    <2> QED  BY <2>1, <2>2, <2>3, OldestMoves
  <1>30. ASSUME NEW i \in DOMAIN beats, RefuseItem(i)  PROVE ChainFits'
    <2>1. Reject
      BY <1>30 DEF RefuseItem
    <2>2. beats' = <<>> /\ pc' # "lastBeat" /\ DOMAIN beats' = {} /\ Len(beats') = 0
      BY <2>1, RejectFits
    <2> QED  BY <1>0, <2>2 DEF ChainFits
  <1>31. CASE UNCHANGED vars
    BY <1>31, <1>0 DEF ChainFits, Working, loop, world, agent, chain, clock, outbox,
       vars
  <1> QED
    BY <1>1, <1>2, <1>3, <1>4, <1>5, <1>6, <1>7, <1>8, <1>9, <1>10, <1>11, <1>12, <1>13,
       <1>14, <1>15, <1>16, <1>17, <1>18, <1>19, <1>20, <1>21, <1>22, <1>23, <1>24,
       <1>25, <1>26, <1>27, <1>28, <1>29, <1>30, <1>31
       DEF Next, Main, Session, Chain

-------------------------------------------------------------------------------
(* The operator's feedback. *)

\* The session holds what it held, and nothing is acknowledged that is not delivered.
LEMMA FeedbackStays ==
    ASSUME IInv, Got' = Got, claimed' = claimed, job' = job,
           Working' = Working, pc' = "open" => pc = "open",
           fb'.delivered = fb.delivered, fb'.pending \subseteq fb.delivered,
           broker'.acked \subseteq fb.delivered \cap broker'.offered,
           ~Working => fb' = NoFeedback /\ broker'.acked = {},
           \A i \in DOMAIN beats' : beats'[i].at = "queueing" =>
               beats'[i].item \in Feedback \ fb.delivered
    PROVE  FeedbackFits'
  <1>0. FeedbackFits
    BY DEF IInv
  <1>1. IsInjective(Got')
    BY <1>0 DEF FeedbackFits
  <1>2. \A i \in DOMAIN Got' : /\ Got'[i].job <= claimed'
                               /\ pc' = "open" => Got'[i].job # job'.number
                               /\ Working' /\ Got'[i].job = job'.number
                                    => Got'[i].item \in fb'.delivered
    BY <1>0 DEF FeedbackFits
  <1>3. Working' => \A f \in fb'.delivered :
                        \E i \in DOMAIN Got' : Got'[i] = [job |-> job'.number, item |-> f]
    BY <1>0 DEF FeedbackFits
  <1>4. /\ ~Working' => fb' = NoFeedback /\ broker'.acked = {}
        /\ fb'.pending \subseteq fb'.delivered
        /\ broker'.acked \subseteq fb'.delivered /\ broker'.acked \subseteq broker'.offered
    OBVIOUS
  <1>5. \A i \in DOMAIN beats' : beats'[i].at = "queueing" =>
            beats'[i].item \in Feedback /\ beats'[i].item \notin fb'.delivered
    OBVIOUS
  <1> QED  BY <1>1, <1>2, <1>3, <1>4, <1>5 DEF FeedbackFits

\* The invariant on feedback, without what the session got.
LEMMA FeedbackFacts ==
    ASSUME IInv
    PROVE  /\ fb.pending \subseteq fb.delivered
           /\ broker.acked \subseteq fb.delivered \cap broker.offered
           /\ ~Working => fb = NoFeedback /\ broker.acked = {}
           /\ \A i \in DOMAIN beats : beats[i].at = "queueing" =>
                  beats[i].item \in Feedback \ fb.delivered
  BY DEF IInv, FeedbackFits

\* A step that is not about feedback.
LEMMA FeedbackKept ==
    ASSUME IInv, UNCHANGED <<seen, session, job, claimed, fb, broker>>,
           Working' = Working, pc' = "open" => pc = "open",
           beats' = beats \/ beats' = <<>>
    PROVE  FeedbackFits'
  <1>1. Got' = Got
    BY DEF Got
  <1>2. \A i \in DOMAIN beats' : beats'[i].at = "queueing" =>
            beats'[i].item \in Feedback \ fb.delivered
    BY FeedbackFacts
  <1> QED  BY <1>1, <1>2, FeedbackFacts, FeedbackStays

LEMMA GotTyped ==
    ASSUME Types
    PROVE  Got \in Seq(Given) /\ \A i \in DOMAIN Got : Got[i] \in Given
  <1>1. seen \in Seq(Given) /\ session.inbox \in Seq(Given)
    BY DEF Types, SessionType
  <1>2. Got \in Seq(Given)
    BY <1>1 DEF Got
  <1> QED  BY <1>2

\* Feedback is queued once, and acknowledged when it was.
LEMMA FeedbackFitsStep ==
    ASSUME IInv, [Next]_vars
    PROVE  FeedbackFits'
  <1>0. IInv /\ FeedbackFits /\ Types /\ JobFits /\ ChainFits /\ TurnFits
    BY DEF IInv
  <1>1. CASE PollFails
    BY <1>1, <1>0, FeedbackKept DEF PollFails, Working, loop, world, agent, chain,
       clock,
       outbox
  <1>2. CASE Claim
    <2>1. PICK e \in Int : job' = [number |-> claimed + 1, episode |-> e]
      <3>1. episode \in Int /\ session.episode \in Int
        BY <1>0 DEF Types, SessionType
      <3> QED  BY <1>2, <3>1 DEF Claim
    <2>2. /\ pc = "poll" /\ pc' = "open" /\ job'.number = claimed + 1 /\ claimed' = claimed + 1
          /\ Got' = Got /\ fb' = fb /\ broker' = broker /\ beats' = <<>> /\ claimed \in Nat
      BY <1>2, <1>0, <2>1 DEF Claim, Got, agent, world, Types
    <2>3. ~Working /\ ~Working'
      BY <2>2 DEF Working
    <2>4. \A i \in DOMAIN Got : Got[i].job <= claimed /\ Got[i].job \in Nat
      <3>1. \A i \in DOMAIN Got : Got[i] \in Given
        BY <1>0, GotTyped
      <3> QED  BY <1>0, <3>1 DEF FeedbackFits, Given
    <2>5. \A i \in DOMAIN Got' : /\ Got'[i].job <= claimed'
                                 /\ Got'[i].job # job'.number
      BY <2>2, <2>4
    <2>6. IsInjective(Got')
      BY <1>0, <2>2 DEF FeedbackFits
    <2>7. DOMAIN beats' = {}
      BY <2>2
    <2> QED  BY <2>2, <2>3, <2>5, <2>6, <2>7, FeedbackFacts DEF FeedbackFits
  <1>3. CASE Open
    <2>1. PICK c \in {session, Renewed(session)} :
            /\ session' \in {c, Opened(job.episode), Dropped(c)}
            /\ pc' \in {"run", "report"}
      BY <1>3, OpenCases
    <2>2. /\ pc = "open" /\ UNCHANGED <<job, claimed, fb, broker, beats, seen>>
      BY <1>3 DEF Open, world, chain
    <2>3. session'.inbox \in {session.inbox, <<>>}
      <3>1. session \in SessionType
        BY <1>0 DEF Types
      <3>2. c \in SessionType /\ c.inbox = session.inbox
        BY <2>1, <3>1 DEF Renewed, SessionType
      <3>3. Dropped(c).inbox = c.inbox
        BY <3>2 DEF Dropped, SessionType
      <3>4. Opened(job.episode).inbox = <<>>
        BY DEF Opened
      <3> QED  BY <2>1, <3>2, <3>3, <3>4
    <2>4. /\ DOMAIN Got' \subseteq DOMAIN Got
          /\ \A i \in DOMAIN Got' : Got'[i] = Got[i]
      <3>1. CASE session'.inbox = session.inbox
        BY <2>2, <3>1 DEF Got
      <3>2. CASE session'.inbox = <<>>
        <4>1. seen \in Seq(Given) /\ session.inbox \in Seq(Given)
          BY <1>0 DEF Types, SessionType
        <4>2. Got' = seen \o <<>>
          BY <2>2, <3>2 DEF Got
        <4> QED  BY <4>1, <4>2, PrefixOf DEF Got
      <3> QED  BY <2>3, <3>1, <3>2
    <2>5. ~Working /\ fb = NoFeedback /\ broker.acked = {}
      BY <2>2, FeedbackFacts DEF Working
    <2>6. IsInjective(Got')
      <3>1. IsInjective(Got)
        BY <1>0 DEF FeedbackFits
      <3> QED  BY <2>4, <3>1 DEF IsInjective
    <2>7. \A i \in DOMAIN Got' : Got'[i].job <= claimed' /\ Got'[i].job # job'.number
      BY <1>0, <2>2, <2>4 DEF FeedbackFits
    <2>8. \A i \in DOMAIN beats' : beats'[i].at = "queueing" =>
              beats'[i].item \in Feedback /\ beats'[i].item \notin fb'.delivered
      BY <2>2, FeedbackFacts
    <2>9. fb'.delivered = {} /\ fb'.pending = {} /\ fb' = NoFeedback /\ broker'.acked = {}
      BY <2>2, <2>5 DEF NoFeedback
    <2> QED  BY <2>1, <2>6, <2>7, <2>8, <2>9 DEF FeedbackFits
  <1>4. CASE PromptFails
    BY <1>4, <1>0, FeedbackKept DEF PromptFails, Working, Clean, TurnFits, loop, world,
       agent, chain, clock, outbox
  <1>5. CASE PromptAgain
    BY <1>5, <1>0, FeedbackKept DEF PromptAgain, Working, TurnOver, loop, world, agent,
       chain, clock, outbox
  <1>6. CASE ReasonMissing
    BY <1>6, <1>0, FeedbackKept DEF ReasonMissing, Working, Clean, TurnOver, loop,
       world,
       agent, chain, clock, outbox
  <1>7. CASE LastBeat
    <2>1. PICK by \in {"timer", "tool", "main"} : beats' = Append(beats, NewBeat(by))
      BY <1>7 DEF LastBeat
    <2>2. \A i \in DOMAIN beats' : beats'[i].at = "queueing" =>
              beats'[i].item \in Feedback \ fb.delivered
      <3>1. NewBeat(by).at = "waiting"
        BY DEF NewBeat
      <3>2. /\ DOMAIN beats' = 1..(Len(beats) + 1) /\ beats'[Len(beats) + 1] = NewBeat(by)
            /\ \A i \in 1..Len(beats) : beats'[i] = beats[i]
            /\ DOMAIN beats = 1..Len(beats) /\ Len(beats) \in Nat
        BY <1>0, <2>1, AppendFits DEF Types
      <3>3. \A i \in 1..(Len(beats) + 1) : i \in 1..Len(beats) \/ i = Len(beats) + 1
        BY <3>2
      <3> QED  BY <3>1, <3>2, <3>3, FeedbackFacts
    <2>3. Got' = Got /\ UNCHANGED <<job, claimed, fb, broker>>
      BY <1>7 DEF LastBeat, Got, agent, loop, world
    <2>4. Working' = Working /\ (pc' = "open" => pc = "open")
      BY <1>7 DEF LastBeat, Working, loop, TurnOver
    <2> QED  BY <2>2, <2>3, <2>4, FeedbackFacts, FeedbackStays
  <1>8. CASE Judge
    BY <1>8, <1>0, FeedbackKept DEF Judge, Working, Clean, loop, world, agent, chain,
       clock, outbox
  <1>9. CASE Complete
    BY <1>9, <1>0, FeedbackKept DEF Complete, Working, loop, world, agent, chain, clock,
       outbox
  <1>10. CASE Finally
    <2>1. pc' \in {"poll", "report", "backoff"} /\ Got' = Got /\ claimed' = claimed
      BY <1>10 DEF Finally, Got, agent, loop
    <2>2. fb' = NoFeedback /\ broker'.acked = {} /\ beats' = <<>> /\ DOMAIN beats' = {}
      <3>1. broker' = NoOffer
        BY <1>10 DEF Finally
      <3>2. beats' = <<>> /\ fb' = NoFeedback
        BY <1>10, <1>0, FeedbackFacts DEF Finally, Settled, ChainFits, Working, chain
      <3> QED  BY <3>1, <3>2 DEF NoOffer
    <2>3. fb'.delivered = {} /\ fb'.pending = {} /\ ~Working'
      BY <2>1, <2>2 DEF NoFeedback, Working
    <2>4. IsInjective(Got') /\ \A i \in DOMAIN Got' : Got'[i].job <= claimed'
      BY <1>0, <2>1 DEF FeedbackFits
    <2> QED  BY <2>1, <2>2, <2>3, <2>4 DEF FeedbackFits
  <1>11. CASE Report
    <2>1. pc' \in {"poll", "report", "backoff"} /\ Got' = Got /\ claimed' = claimed
      BY <1>11 DEF Report, Got, agent, loop
    <2>2. fb' = NoFeedback /\ broker'.acked = {} /\ beats' = <<>> /\ DOMAIN beats' = {}
      <3>1. broker' = NoOffer
        BY <1>11 DEF Report
      <3>2. beats' = <<>> /\ fb' = NoFeedback
        BY <1>11, <1>0, FeedbackFacts DEF Report, Settled, ChainFits, Working, chain
      <3> QED  BY <3>1, <3>2 DEF NoOffer
    <2>3. fb'.delivered = {} /\ fb'.pending = {} /\ ~Working'
      BY <2>1, <2>2 DEF NoFeedback, Working
    <2>4. IsInjective(Got') /\ \A i \in DOMAIN Got' : Got'[i].job <= claimed'
      BY <1>0, <2>1 DEF FeedbackFits
    <2> QED  BY <2>1, <2>2, <2>3, <2>4 DEF FeedbackFits
  <1>12. CASE Backoff
    BY <1>12, <1>0, FeedbackKept DEF Backoff, Working, loop, world, agent, chain, clock,
       outbox
  <1>13. CASE Exit
    BY <1>13, <1>0, FeedbackKept DEF Exit, Working, loop, world, agent, chain, clock,
       outbox
  <1>14. CASE StartRun
    BY <1>14, <1>0, FeedbackKept DEF StartRun, Working, loop, world, agent, chain,
       clock,
       outbox
  <1>15. CASE Read
    <2>1. /\ session.inbox \in Seq(Given) /\ session.inbox # <<>> /\ seen \in Seq(Given)
          /\ session \in SessionType
      BY <1>15, <1>0 DEF Read, Types, SessionType
    <2>2. seen' = Append(seen, Head(session.inbox)) /\ session'.inbox = Tail(session.inbox)
      BY <1>15, <2>1 DEF Read, SessionType
    <2>3. Got' = Got
      BY <2>1, <2>2, ReadKeeps DEF Got
    <2>4. UNCHANGED <<job, claimed, fb, broker, beats, pc>>
      BY <1>15 DEF Read, loop, world, chain
    <2>5. Working' = Working
      BY <2>4 DEF Working
    <2> QED  BY <2>3, <2>4, <2>5, FeedbackFacts, FeedbackStays
  <1>16. CASE EndApproval
    BY <1>16, <1>0, FeedbackKept DEF EndApproval, Working, loop, world, agent, chain,
       clock,
       outbox
  <1>17. CASE Settle
    BY <1>17, <1>0, FeedbackKept DEF Settle, Working, loop, world, agent, chain, clock,
       outbox
  <1>18. CASE Post
    BY <1>18, <1>0, FeedbackKept DEF Post, Working, loop, world, agent, chain, clock,
       outbox
  <1>19. CASE Emit
    BY <1>19, <1>0, FeedbackKept DEF Emit, Working, loop, world, agent, chain, clock,
       outbox
  <1>20. CASE AskApproval
    BY <1>20, <1>0, FeedbackKept DEF AskApproval, Working, loop, world, agent, chain,
       clock,
       outbox
  <1>21. CASE DeadlineFires
    BY <1>21, <1>0, FeedbackKept DEF DeadlineFires, Working, loop, world, agent, chain,
       clock, outbox
  <1>22. CASE Beat
    <2>1. PICK by \in {"timer", "tool", "main"} : beats' = Append(beats, NewBeat(by))
      BY <1>22 DEF Beat
    <2>2. \A i \in DOMAIN beats' : beats'[i].at = "queueing" =>
              beats'[i].item \in Feedback \ fb.delivered
      <3>1. NewBeat(by).at = "waiting"
        BY DEF NewBeat
      <3>2. /\ DOMAIN beats' = 1..(Len(beats) + 1) /\ beats'[Len(beats) + 1] = NewBeat(by)
            /\ \A i \in 1..Len(beats) : beats'[i] = beats[i]
            /\ DOMAIN beats = 1..Len(beats) /\ Len(beats) \in Nat
        BY <1>0, <2>1, AppendFits DEF Types
      <3>3. \A i \in 1..(Len(beats) + 1) : i \in 1..Len(beats) \/ i = Len(beats) + 1
        BY <3>2
      <3> QED  BY <3>1, <3>2, <3>3, FeedbackFacts
    <2>3. Got' = Got /\ UNCHANGED <<job, claimed, fb, broker>>
      BY <1>22 DEF Beat, Got, agent, loop, world
    <2>4. Working' = Working /\ (pc' = "open" => pc = "open")
      BY <1>22 DEF Beat, Working, loop, TurnOver
    <2> QED  BY <2>2, <2>3, <2>4, FeedbackFacts, FeedbackStays
  <1>23. CASE Offer
    <2>1. UNCHANGED <<pc, job, claimed, fb, beats>> /\ Got' = Got
      BY <1>23 DEF Offer, Got, loop, agent, chain
    <2>2. Working' = Working
      BY <2>1 DEF Working
    <2>3. broker'.acked = broker.acked /\ broker.offered \subseteq broker'.offered
      BY <1>23, <1>0 DEF Offer, Types, OfferType
    <2>4. broker'.acked \subseteq fb.delivered \cap broker'.offered
      BY <2>3, FeedbackFacts
    <2> QED  BY <2>1, <2>2, <2>3, <2>4, FeedbackFacts, FeedbackStays
  <1>24. CASE NextEpisode
    BY <1>24, <1>0, FeedbackKept DEF NextEpisode, Working, loop, world, agent, chain,
       clock,
       outbox
  <1>25. CASE Terminate
    BY <1>25, <1>0, FeedbackKept DEF Terminate, Working, loop, world, agent, chain,
       clock,
       outbox
  <1>26. ASSUME NEW i \in DOMAIN beats, BeatAnswered(i)  PROVE FeedbackFits'
    <2>1. i = 1 /\ beats # <<>> /\ 1 \in DOMAIN beats /\ beats \in Seq(BeatType)
      BY <1>26, <1>0 DEF BeatAnswered, MayMove, Types
    <2>2. UNCHANGED <<job, claimed>> /\ Got' = Got
      BY <1>26 DEF BeatAnswered, Got, agent
    <2>3. Working /\ Working' /\ pc' # "open"
      <3>1. Working
        BY <1>0 DEF ChainFits
      <3>2. pc' = pc \/ pc' = "events"
        BY <1>26, LinkEnds
      <3> QED  BY <3>1, <3>2 DEF Working
    <2>4. \A k \in DOMAIN beats' : beats'[k].at = "queueing" =>
              beats'[k].item \in Feedback \ fb.delivered
      <3>1. CASE EndBeat(i)
        <4>1. /\ \A k \in DOMAIN beats' : k + 1 \in DOMAIN beats /\ beats'[k] = beats[k + 1]
          BY <1>0, <2>1, <3>1, OldestEnds
        <4> QED  BY <4>1, FeedbackFacts
      <3>2. CASE ~EndBeat(i)
        <4> DEFINE list == broker.offered \ Acked
                   b == [beats[1] EXCEPT !.at = "steering", !.list = list]
        <4>1. beats' = [beats EXCEPT ![1].at = "steering", ![1].list = list]
          BY <1>26, <2>1, <3>2 DEF BeatAnswered
        <4>2. beats[1] \in BeatType
          BY <2>1
        <4> HIDE DEF list
        <4>3. b.at = "steering"
          BY <4>2 DEF BeatType
        <4>4. beats' = [beats EXCEPT ![1] = b]
          BY <2>1, <4>1
        <4> HIDE DEF b
        <4>5. /\ DOMAIN beats' = DOMAIN beats /\ beats'[1] = b
              /\ \A k \in DOMAIN beats : k # 1 => beats'[k] = beats[k]
          BY <2>1, <4>4
        <4> QED  BY <4>3, <4>5, FeedbackFacts
      <3> QED  BY <3>1, <3>2
    <2>5. fb'.delivered = fb.delivered /\ fb'.pending = {}
      BY <1>26, <1>0 DEF BeatAnswered, Types, FeedbackType
    <2>6. broker'.acked \subseteq fb.delivered \cap broker'.offered
      <3>1. broker'.acked = Acked /\ broker'.offered = broker.offered
        BY <1>26, <1>0 DEF BeatAnswered, Types, OfferType
      <3>2. Acked \subseteq fb.delivered \cap broker.offered
        BY FeedbackFacts DEF Acked
      <3> QED  BY <3>1, <3>2
    <2> QED  BY <2>2, <2>3, <2>4, <2>5, <2>6, FeedbackStays
  <1>27. ASSUME NEW i \in DOMAIN beats, BeatFails(i)  PROVE FeedbackFits'
    <2>1. Reject /\ UNCHANGED <<job, claimed, fb>> /\ Got' = Got
      <3>1. Reject /\ UNCHANGED <<job, claimed, fb, seen, session>>
        BY <1>27 DEF BeatFails
      <3> QED  BY <3>1 DEF Got
    <2>2. beats' = <<>> /\ DOMAIN beats' = {} /\ Working' /\ Working /\ pc' # "open"
      <3>1. Working
        BY <1>0 DEF ChainFits
      <3> QED  BY <2>1, <3>1, RejectFits DEF Working
    <2>3. broker'.acked \subseteq fb.delivered \cap broker'.offered
      <3>1. broker \in OfferType
        BY <1>0 DEF Types
      <3>2. \/ broker' = broker
            \/ broker' = [broker EXCEPT !.acked = Acked]
        BY <1>27, <3>1 DEF BeatFails, OfferType
      <3>3. Acked \subseteq fb.delivered \cap broker.offered
        BY FeedbackFacts DEF Acked
      <3>4. CASE broker' = broker
        BY <3>4, FeedbackFacts
      <3>5. CASE broker' = [broker EXCEPT !.acked = Acked]
        <4>1. broker'.acked = Acked /\ broker'.offered = broker.offered
          BY <3>1, <3>5 DEF OfferType
        <4> QED  BY <3>3, <4>1
      <3> QED  BY <3>2, <3>4, <3>5
    <2> QED  BY <2>1, <2>2, <2>3, FeedbackFacts, FeedbackStays
  <1>28. ASSUME NEW i \in DOMAIN beats, PickItem(i)  PROVE FeedbackFits'
    <2>1. i = 1 /\ beats # <<>> /\ 1 \in DOMAIN beats /\ beats \in Seq(BeatType)
      BY <1>28, <1>0 DEF PickItem, MayMove, Types
    <2>2. UNCHANGED <<job, claimed, fb, broker>> /\ Got' = Got
      BY <1>28 DEF PickItem, Got, agent, world
    <2>3. Working /\ Working' /\ pc' # "open"
      <3>1. Working
        BY <1>0 DEF ChainFits
      <3>2. pc' = pc \/ pc' = "events"
        BY <1>28, LinkEnds
      <3> QED  BY <3>1, <3>2 DEF Working
    <2>4. \A k \in DOMAIN beats' : beats'[k].at = "queueing" =>
              beats'[k].item \in Feedback \ fb.delivered
      <3>1. CASE EndBeat(i)
        <4>1. /\ \A k \in DOMAIN beats' : k + 1 \in DOMAIN beats /\ beats'[k] = beats[k + 1]
          BY <1>0, <2>1, <3>1, OldestEnds
        <4> QED  BY <4>1, FeedbackFacts
      <3>2. CASE ~EndBeat(i)
        <4>1. PICK f \in beats[1].list \ fb.delivered :
                beats' = [beats EXCEPT ![1].at = "queueing", ![1].item = f]
          BY <1>28, <2>1, <3>2 DEF PickItem
        <4> DEFINE b == [beats[1] EXCEPT !.at = "queueing", !.item = f]
        <4>2. beats[1] \in BeatType
          BY <2>1
        <4>3. b.item = f /\ f \in Feedback
          BY <4>1, <4>2 DEF BeatType
        <4>4. beats' = [beats EXCEPT ![1] = b]
          BY <2>1, <4>1
        <4> HIDE DEF b
        <4>5. /\ DOMAIN beats' = DOMAIN beats /\ beats'[1] = b
              /\ \A k \in DOMAIN beats : k # 1 => beats'[k] = beats[k]
          BY <2>1, <4>4
        <4> QED  BY <4>1, <4>3, <4>5, FeedbackFacts
      <3> QED  BY <3>1, <3>2
    <2> QED  BY <2>2, <2>3, <2>4, FeedbackFacts, FeedbackStays
  <1>29. ASSUME NEW i \in DOMAIN beats, QueueItem(i)  PROVE FeedbackFits'
    <2>1. i = 1 /\ beats # <<>> /\ 1 \in DOMAIN beats /\ beats \in Seq(BeatType)
      BY <1>29, <1>0 DEF QueueItem, MayMove, Types
    <2> DEFINE f == beats[1].item
               x == [job |-> job.number, item |-> f]
    <2>2. /\ session' = [session EXCEPT !.inbox = Append(session.inbox, x)]
          /\ fb' = [delivered |-> fb.delivered \cup {f}, pending |-> fb.pending \cup {f}]
          /\ beats' = [beats EXCEPT ![1].at = "steering", ![1].item = NoItem]
          /\ UNCHANGED <<pc, job, claimed, broker, seen>> /\ beats[1].at = "queueing"
      BY <1>29, <2>1 DEF QueueItem, loop, world
    <2>3. Working /\ Working' /\ pc' # "open"
      BY <1>0, <2>1, <2>2 DEF ChainFits, Working
    <2>4. f \in Feedback /\ f \notin fb.delivered
      BY <2>1, <2>2, FeedbackFacts
    <2>5. job.number \in 1..MaxJobs /\ job.number <= claimed
      BY <1>0, <2>3 DEF JobFits, Working, Types, JobNumbers
    <2>6. x \in Given /\ x.job = job.number /\ x.item = f
      BY <2>4, <2>5 DEF Given
    <2>7. Got' = Append(Got, x)
      <3>1. session.inbox \in Seq(Given) /\ seen \in Seq(Given) /\ session \in SessionType
        BY <1>0 DEF Types, SessionType
      <3>2. session'.inbox = Append(session.inbox, x)
        BY <2>2, <3>1 DEF SessionType
      <3> HIDE DEF x
      <3> QED  BY <2>2, <2>6, <3>1, <3>2, QueueAppends DEF Got
    <2> DEFINE n == Len(Got)
    <2>8. /\ DOMAIN Got = 1..n /\ n \in Nat /\ DOMAIN Got' = 1..(n + 1)
          /\ Got'[n + 1] = x /\ \A k \in 1..n : Got'[k] = Got[k]
      <3>1. Got \in Seq(Given)
        BY <1>0, GotTyped
      <3> HIDE DEF x
      <3> QED  BY <2>7, <3>1
    <2> HIDE DEF n, x
    <2>9. \A k \in 1..n : Got[k] # x
      BY <1>0, <2>3, <2>4, <2>6, <2>8 DEF FeedbackFits
    <2>10. IsInjective(Got')
      <3>1. \A k, m \in 1..n : Got[k] = Got[m] => k = m
        BY <1>0, <2>8 DEF FeedbackFits, IsInjective
      <3>2. \A k \in 1..(n + 1) : k \in 1..n \/ k = n + 1
        BY <2>8
      <3> QED  BY <2>8, <2>9, <3>1, <3>2 DEF IsInjective
    <2>11. fb'.delivered = fb.delivered \cup {f} /\ fb'.pending = fb.pending \cup {f}
      BY <2>2
    <2> HIDE DEF f
    <2>12. \A k \in DOMAIN Got' : /\ Got'[k].job <= claimed'
                                  /\ Got'[k].job = job'.number => Got'[k].item \in fb'.delivered
      <3>1. \A k \in 1..n : /\ Got[k].job <= claimed
                            /\ Got[k].job = job.number => Got[k].item \in fb.delivered
        BY <1>0, <2>3, <2>8 DEF FeedbackFits
      <3>2. \A k \in 1..(n + 1) : k \in 1..n \/ k = n + 1
        BY <2>8
      <3> QED  BY <2>2, <2>5, <2>6, <2>8, <2>11, <3>1, <3>2
    <2>13. \A g \in fb'.delivered :
             \E k \in DOMAIN Got' : Got'[k] = [job |-> job'.number, item |-> g]
      <3>1. \A g \in fb.delivered :
              \E k \in 1..n : Got[k] = [job |-> job.number, item |-> g]
        BY <1>0, <2>3, <2>8 DEF FeedbackFits
      <3>2. 1..n \subseteq 1..(n + 1) /\ n + 1 \in 1..(n + 1)
        BY <2>8
      <3>3. x = [job |-> job.number, item |-> f]
        BY DEF x
      <3> QED  BY <2>2, <2>8, <2>11, <3>1, <3>2, <3>3
    <2>14. /\ fb'.pending \subseteq fb'.delivered
           /\ broker'.acked \subseteq fb'.delivered /\ broker'.acked \subseteq broker'.offered
      BY <2>2, <2>11, FeedbackFacts
    <2>15. \A k \in DOMAIN beats' : beats'[k].at # "queueing"
      <3> DEFINE b == [beats[1] EXCEPT !.at = "steering", !.item = NoItem]
      <3>1. beats' = [beats EXCEPT ![1] = b]
        BY <2>1, <2>2
      <3>2. b.at = "steering"
        <4>1. beats[1] \in BeatType
          BY <2>1
        <4> QED  BY <4>1 DEF BeatType
      <3> HIDE DEF b
      <3>3. \A k \in DOMAIN beats : k > 1 => beats[k].at = "waiting"
        BY <1>0 DEF ChainFits
      <3>4. DOMAIN beats = 1..Len(beats) /\ Len(beats) \in Nat
        BY <2>1
      <3> QED  BY <2>1, <3>1, <3>2, <3>3, <3>4
    <2> QED  BY <2>3, <2>10, <2>12, <2>13, <2>14, <2>15 DEF FeedbackFits
  <1>30. ASSUME NEW i \in DOMAIN beats, RefuseItem(i)  PROVE FeedbackFits'
    <2>1. Reject /\ UNCHANGED <<job, claimed, fb, broker, seen, session>>
      BY <1>30 DEF RefuseItem, world
    <2>2. beats' = <<>> /\ Working' = Working /\ pc' # "open"
      <3>1. Working
        BY <1>0 DEF ChainFits
      <3> QED  BY <2>1, <3>1, RejectFits DEF Working
    <2> QED  BY <2>1, <2>2, FeedbackKept
  <1>31. CASE UNCHANGED vars
    BY <1>31, <1>0, FeedbackKept DEF vars, Working, loop, world, agent, chain, clock,
       outbox
  <1> QED
    BY <1>1, <1>2, <1>3, <1>4, <1>5, <1>6, <1>7, <1>8, <1>9, <1>10, <1>11, <1>12, <1>13,
       <1>14, <1>15, <1>16, <1>17, <1>18, <1>19, <1>20, <1>21, <1>22, <1>23, <1>24,
       <1>25, <1>26, <1>27, <1>28, <1>29, <1>30, <1>31
       DEF Next, Main, Session, Chain

-------------------------------------------------------------------------------
(* A refused heartbeat. *)

\* After a refusal no heartbeat is sent any more; what joins the chain behind the main
\* loop's last heartbeat is the timer's, so a refusal there is a failure of the run.
Refusals ==
    /\ broken => \A i \in DOMAIN beats : beats[i].at = "waiting"
    /\ \A i, k \in DOMAIN beats : beats[k].by = "main" /\ i > k => beats[i].by = "timer"
    /\ pc = "events" => \A i \in DOMAIN beats : beats[i].by = "timer"
    /\ pc = "events" /\ broken => runFailure

\* A heartbeat joins the chain.
LEMMA RefusalsJoin ==
    ASSUME IInv, Refusals, Beat \/ LastBeat
    PROVE  Refusals'
  <1>1. PICK by \in {"timer", "tool", "main"} :
          /\ beats' = Append(beats, NewBeat(by))
          /\ by = "tool" => pc = "run"
          /\ by = "main" => pc = "run" /\ pc' = "lastBeat"
          /\ by # "main" => pc' = pc
    <2>1. CASE Beat
      BY <2>1 DEF Beat, IInv, TurnFits, loop
    <2>2. CASE LastBeat
      BY <2>2 DEF LastBeat, TurnOver
    <2> QED  BY <2>1, <2>2
  <1>2. broken' = broken /\ runFailure' = runFailure
    BY DEF Beat, LastBeat, clock
  <1>3. PICK x : x = NewBeat(by)
    OBVIOUS
  <1>4. x.by = by /\ x.at = "waiting"
    BY <1>3 DEF NewBeat
  <1>5. PICK n \in Nat : n = Len(beats)
    BY DEF IInv, Types
  <1>6. /\ DOMAIN beats = 1..n /\ DOMAIN beats' = 1..(n + 1) /\ beats'[n + 1] = x
        /\ \A i \in 1..n : beats'[i] = beats[i]
    BY <1>1, <1>3, <1>5, AppendFits DEF IInv, Types
  <1>7. \A i \in 1..(n + 1) : i \in 1..n \/ i = n + 1
    BY <1>5
  <1>8. ~(pc = "lastBeat" /\ by # "timer")
    BY <1>1
  <1>9. ASSUME NEW i \in 1..(n + 1), NEW k \in 1..(n + 1), beats'[k].by = "main", i > k
        PROVE  beats'[i].by = "timer"
    <2>1. k \in 1..n /\ beats[k].by = "main" /\ pc = "lastBeat"
      BY <1>5, <1>6, <1>7, <1>9 DEF IInv, ChainFits
    <2>2. CASE i = n + 1
      BY <1>4, <1>6, <1>8, <2>1, <2>2
    <2>3. CASE i \in 1..n
      BY <1>6, <1>9, <2>1, <2>3 DEF Refusals
    <2> QED  BY <1>7, <2>2, <2>3
  <1>10. broken' => \A i \in DOMAIN beats' : beats'[i].at = "waiting"
    BY <1>2, <1>4, <1>6, <1>7 DEF Refusals
  <1>11. pc' = "events" => \A i \in DOMAIN beats' : beats'[i].by = "timer"
    BY <1>1, <1>4, <1>6, <1>7 DEF Refusals
  <1>12. pc' = "events" /\ broken' => runFailure'
    BY <1>1, <1>2 DEF Refusals
  <1> QED  BY <1>6, <1>9, <1>10, <1>11, <1>12 DEF Refusals

\* The oldest heartbeat is answered or handles its list: none was refused before.
LEMMA RefusalsMove ==
    ASSUME IInv, Refusals, NEW i \in DOMAIN beats, BeatAnswered(i) \/ PickItem(i) \/ QueueItem(i)
    PROVE  Refusals'
  <1>1. i = 1 /\ beats # <<>> /\ 1 \in DOMAIN beats
    BY DEF BeatAnswered, PickItem, QueueItem, MayMove
  <1>2. broken = FALSE /\ broken' = FALSE
    <2>1. broken \in BOOLEAN
      BY DEF IInv, Types
    <2>2. ~broken
      BY <1>1 DEF BeatAnswered, PickItem, QueueItem, Refusals
    <2> QED  BY <2>1, <2>2 DEF BeatAnswered, PickItem, QueueItem
  <1>3. PICK n \in Nat : n = Len(beats) /\ n # 0 /\ DOMAIN beats = 1..n
    BY <1>1 DEF IInv, Types
  <1>4. CASE EndBeat(1)
    <2>1. /\ DOMAIN beats' = 1..(n - 1)
          /\ \A k \in 1..(n - 1) : beats'[k] = beats[k + 1]
          /\ pc' = IF beats[1].by = "main" THEN "events" ELSE pc
      BY <1>1, <1>3, <1>4, OldestEnds DEF IInv
    <2>2. \A k \in 1..(n - 1) : k + 1 \in 1..n /\ k + 1 > 1 /\ 1 \in 1..n
      BY <1>3
    <2>3. pc' = "events" => \A k \in DOMAIN beats' : beats'[k].by = "timer"
      <3>1. CASE beats[1].by = "main"
        BY <1>3, <2>1, <2>2, <3>1 DEF Refusals
      <3>2. CASE beats[1].by # "main"
        BY <1>3, <2>1, <2>2, <3>2 DEF Refusals
      <3> QED  BY <3>1, <3>2
    <2>4. ASSUME NEW j \in 1..(n - 1), NEW k \in 1..(n - 1), beats'[k].by = "main", j > k
          PROVE  beats'[j].by = "timer"
      <3>1. j + 1 \in 1..n /\ k + 1 \in 1..n /\ j + 1 > k + 1
        BY <1>3, <2>4
      <3>2. beats[k + 1].by = "main" /\ beats'[j] = beats[j + 1]
        BY <2>1, <2>4
      <3> QED  BY <1>3, <3>1, <3>2 DEF Refusals
    <2> QED  BY <1>2, <2>1, <2>3, <2>4 DEF Refusals
  <1>5. CASE ~EndBeat(1)
    <2>1. pc' = pc /\ DOMAIN beats' = DOMAIN beats
      BY <1>1, <1>5 DEF BeatAnswered, PickItem, QueueItem, loop
    <2>2. \A k \in DOMAIN beats : beats'[k].by = beats[k].by
      <3>1. \A k \in DOMAIN beats : beats[k] \in BeatType
        BY DEF IInv, Types
      <3>2. CASE BeatAnswered(i)
        <4>1. PICK list : beats' = [beats EXCEPT ![1].at = "steering", ![1].list = list]
          BY <1>1, <1>5, <3>2 DEF BeatAnswered
        <4> QED  BY <3>1, <4>1 DEF BeatType
      <3>3. CASE PickItem(i)
        <4>1. PICK f : beats' = [beats EXCEPT ![1].at = "queueing", ![1].item = f]
          BY <1>1, <1>5, <3>3 DEF PickItem
        <4> QED  BY <3>1, <4>1 DEF BeatType
      <3>4. CASE QueueItem(i)
        <4>1. beats' = [beats EXCEPT ![1].at = "steering", ![1].item = NoItem]
          BY <1>1, <3>4 DEF QueueItem
        <4> QED  BY <3>1, <4>1 DEF BeatType
      <3> QED  BY <3>2, <3>3, <3>4
    <2> QED  BY <1>2, <2>1, <2>2 DEF Refusals
  <1> QED  BY <1>4, <1>5

\* A heartbeat is refused: if the loop waits for the events, it was the timer's.
LEMMA RefusalsReject ==
    ASSUME IInv, Refusals, NEW i \in DOMAIN beats, BeatFails(i) \/ RefuseItem(i)
    PROVE  Refusals'
  <1>1. Reject
    BY DEF BeatFails, RefuseItem
  <1>2. /\ beats' = <<>> /\ DOMAIN beats' = {}
        /\ pc' = IF pc = "lastBeat" THEN "cleanFailed" ELSE pc
    BY <1>1, RejectFits
  <1>3. pc = "events" => runFailure' = TRUE
    <2>1. pc = "events" => \E k \in DOMAIN beats : beats[k].by = "timer"
      BY DEF Refusals
    <2> QED  BY <1>1, <2>1 DEF Reject
  <1> QED  BY <1>2, <1>3 DEF Refusals

LEMMA RefusalsStep ==
    ASSUME IInv, Refusals, [Next]_vars
    PROVE  Refusals'
  <1>1. ASSUME UNCHANGED <<beats, broken>>, pc' = "events" => pc = "events",
               runFailure => runFailure'
        PROVE  Refusals'
    BY <1>1 DEF Refusals
  <1>2. CASE PollFails \/ Report \/ Backoff \/ Exit
    BY <1>1, <1>2 DEF PollFails, Report, Backoff, Exit, chain, clock
  <1>3. CASE Claim
    BY <1>3 DEF Claim, Refusals
  <1>4. CASE Open
    <2>1. pc' # "events"
      BY <1>4, OpenCases
    <2> QED  BY <1>1, <1>4, <2>1 DEF Open, chain
  <1>5. CASE PromptFails \/ ReasonMissing \/ Complete \/ Judge \/ Finally
    BY <1>1, <1>5 DEF PromptFails, ReasonMissing, Complete, Judge, Finally, Clean, chain, clock
  <1>6. CASE PromptAgain \/ StartRun \/ Read \/ Settle \/ Emit \/ Post
    BY <1>1, <1>6 DEF PromptAgain, StartRun, Read, Settle, Emit, Post, chain, clock, loop
  <1>7. CASE AskApproval \/ EndApproval \/ DeadlineFires
    BY <1>1, <1>7 DEF AskApproval, EndApproval, DeadlineFires, chain, loop
  <1>8. CASE Offer \/ NextEpisode \/ Terminate
    BY <1>1, <1>8 DEF Offer, NextEpisode, Terminate, chain, clock, loop
  <1>9. CASE UNCHANGED vars
    BY <1>1, <1>9 DEF vars, chain, clock, loop
  <1>10. CASE Beat \/ LastBeat
    BY <1>10, RefusalsJoin
  <1>11. CASE Chain
    BY <1>11, RefusalsMove, RefusalsReject DEF Chain
  <1> QED
    BY <1>2, <1>3, <1>4, <1>5, <1>6, <1>7, <1>8, <1>9, <1>10, <1>11
       DEF Next, Main, Session

-------------------------------------------------------------------------------
(* The theorems. *)

\* Whatever fails, is aborted, hangs on an approval or comes late, in any number of
\* jobs: the loop is at one job, all that acts beside the loop acts for that job, and
\* the session holds exactly what counts as delivered.
THEOREM Invariant == Spec => []IInv
  <1>1. Init => IInv
    BY InitFits
  <1>2. IInv /\ [Next]_vars => IInv'
    BY TypesStep, JobFitsStep, TurnFitsStep, SessionFitsStep, ChainFitsStep,
       FeedbackFitsStep DEF IInv
  <1> QED  BY <1>1, <1>2, PTL DEF Spec

\* worker.ts: the variables keep their types, a job is at hand from its claim to its
\* report, and the session runs only while the loop waits for it.
THEOREM TypeCorrect == Spec => []TypeOK
  <1>1. IInv => TypeOK
    <2> SUFFICES ASSUME IInv  PROVE TypeOK
      OBVIOUS
    <2> USE DEF IInv, Types
    <2>1. /\ pc \in Places /\ job.number \in 0..MaxJobs /\ job.episode \in 0..MaxEpisodes
          /\ job.number # 0 <=> pc \notin {"poll", "backoff", "exited"}
      BY DEF JobFits, JobNumbers
    <2>2. /\ session.state \in {"none", "open", "disposed"}
          /\ turn.at \in {"idle", "prelude", "streaming"} /\ turn.prompts \in 0..Prompts
          /\ turn.at # "idle" => pc = "run"
      BY DEF SessionType, TurnType, TurnFits
    <2>3. Len(beats) <= MaxBeats + 1
      BY DEF ChainFits
    <2>4. /\ fb.pending \cup fb.delivered \subseteq Feedback
          /\ broker.acked \subseteq broker.offered /\ broker.offered \subseteq Feedback
      BY FeedbackFacts DEF FeedbackType, OfferType
    <2> QED  BY <2>1, <2>2, <2>3, <2>4 DEF TypeOK, Places
  <1> QED  BY <1>1, Invariant, PTL

\* worker.ts, the finally block: when the loop claims the next job, no heartbeat, no
\* event, no timer, no approval and no run of the session is left of the last one.
THEOREM NothingOutlivesItsJob == Spec => []QuietBetweenJobs
  <1>1. IInv => QuietBetweenJobs
    <2> SUFFICES ASSUME IInv, pc \in {"poll", "open", "report", "backoff", "exited"}
                 PROVE  /\ beats = <<>> /\ posts = 0
                        /\ timers = NoTimer
                        /\ turn.at = "idle" /\ approvals = 0
      BY DEF QuietBetweenJobs
    <2>1. ~Working /\ ~InTurn /\ pc # "run"
      BY DEF Working, InTurn
    <2>2. beats = <<>> /\ posts = 0 /\ turn.at = "idle" /\ approvals = 0
      BY <2>1 DEF IInv, ChainFits, TurnFits
    <2>3. timers \in TimerType /\ timers.deadline = FALSE /\ timers.stray = 0
      BY <2>1 DEF IInv, Types, TurnFits, TimerType
    <2>4. timers = NoTimer
      BY <2>3 DEF TimerType, NoTimer
    <2> QED  BY <2>2, <2>4
  <1> QED  BY <1>1, Invariant, PTL

\* bridge.ts, FeedbackDelivery: a message the broker lists again and again reaches the
\* session once, and is acknowledged only when the session holds it or it was read.
THEOREM FeedbackReachesTheSession == Spec => []FeedbackIsDelivered
  <1>1. IInv => FeedbackIsDelivered
    <2> SUFFICES ASSUME IInv  PROVE FeedbackIsDelivered
      OBVIOUS
    <2>1. IsInjective(Got)
      BY DEF IInv, FeedbackFits
    <2>2. ASSUME NEW f \in broker.acked
          PROVE  [job |-> job.number, item |-> f] \in ToSet(Got)
      <3>1. Working /\ f \in fb.delivered
        BY <2>2, FeedbackFacts
      <3>2. PICK i \in DOMAIN Got : Got[i] = [job |-> job.number, item |-> f]
        BY <3>1 DEF IInv, FeedbackFits
      <3> QED  BY <3>2 DEF ToSet
    <2> QED  BY <2>1, <2>2 DEF FeedbackIsDelivered, Got
  <1> QED  BY <1>1, Invariant, PTL

\* worker.ts, makeSession: no job of the current episode is prompted on a session
\* that was disposed of.
THEOREM NoDeadSessionIsPrompted == Spec => []DisposedSessionsAreStale
  <1>1. IInv => DisposedSessionsAreStale
    BY DEF IInv, SessionFits, DisposedSessionsAreStale
  <1> QED  BY <1>1, Invariant, PTL

\* worker.ts:95-105, 189-213: a job is reported as completed only when all its events
\* arrived and none of its heartbeats was refused, over any number of heartbeats of
\* tools, timer and loop in any order (CompletedIsWhole).
THEOREM CompletionIsWhole == Spec => CompletedIsWhole
  <1>1. ASSUME IInv, Refusals, [Next]_vars, pc # "completing", pc' = "completing"
        PROVE  ~events.lost /\ posts = 0 /\ ~broken
    <2>1. Judge
      <3>1. ASSUME NEW i \in DOMAIN beats, BeatAnswered(i) \/ PickItem(i)
            PROVE  FALSE
        BY <1>1, <3>1, LinkEnds
      <3>2. ASSUME NEW i \in DOMAIN beats, BeatFails(i) \/ RefuseItem(i)
            PROVE  FALSE
        BY <1>1, <3>2, RejectFits DEF BeatFails, RefuseItem
      <3>3. ~Open
        BY <1>1, OpenCases
      <3> QED
        BY <1>1, <3>1, <3>2, <3>3
           DEF Next, Main, Session, Chain, vars, loop, PollFails, Claim, PromptFails,
               PromptAgain, ReasonMissing, LastBeat, Complete, Finally, Report, Backoff,
               Exit, StartRun, Read, EndApproval, Settle, QueueItem, Post, Emit,
               AskApproval, DeadlineFires, Beat, Offer, NextEpisode, Terminate, Clean
    <2>2. pc = "events" /\ ~runFailure /\ posts = 0
      BY <1>1, <2>1 DEF Judge, Clean, AllPosted
    <2>3. ~events.lost
      BY <1>1, <2>2 DEF IInv, TurnFits
    <2>4. ~broken
      BY <1>1, <2>2 DEF Refusals
    <2> QED  BY <2>2, <2>3, <2>4
  <1>2. Init => Refusals
    BY DEF Init, Refusals
  <1>3. Spec => []Refusals
    BY <1>2, RefusalsStep, Invariant, PTL DEF Spec
  <1> QED  BY <1>1, <1>3, Invariant, PTL DEF Spec, CompletedIsWhole
===============================================================================
