---------------------------- MODULE AgentLoopProofs ----------------------------
(*****************************************************************************)
(* Proofs about AgentLoop, for every number of messages, tool calls and      *)
(* turns and either mode of each queue: its types, that a queue in           *)
(* one-at-a-time mode hands one message over before each answer of a run,    *)
(* that tool results stand behind their answer in the order of its calls,    *)
(* and that a request is made only when none is missing.                     *)
(*****************************************************************************)
EXTENDS AgentLoop, TLAPS

-------------------------------------------------------------------------------
(* Types. *)

Answers == [role : {"assistant"}, ok : BOOLEAN, calls : Nat]
Results == [role : {"toolResult"}, call : Nat \ {0}]
Entries == UserMessage \cup Answers \cup Results

States == {"waiting", "started", "prepared", "running", "ended", "answered"}
CallRecord == [state : States, stops : BOOLEAN]
Kinds == {"none", "truncated", "sequential", "parallel"}
Places == {"idle", "start", "inject", "request", "tools", "launched", "finish",
           "prepare", "followUp", "ending", "failed"}

\* The queues hold messages of their own.
QueueShape ==
    /\ queue \in [Queues -> Seq(UserMessage)]
    /\ \A q \in Queues : \A i \in DOMAIN queue[q] : queue[q][i].via = q

\* Messages of one sender on their way.
OneSender(s) == s \in Seq(UserMessage) /\ \A i, j \in DOMAIN s : s[i].via = s[j].via

\* The shape of the loop's variables.
Shape ==
    /\ QueueShape
    /\ sent \in 0..MaxMessages
    /\ run \in [active : BOOLEAN, aborted : BOOLEAN, skipPoll : BOOLEAN, base : Nat]
    /\ at \in Places
    /\ OneSender(inject)
    /\ more \in BOOLEAN /\ goOn \in BOOLEAN
    /\ batch \in [kind : Kinds, calls : Seq(CallRecord)]
    /\ transcript \in Seq(Entries)
    /\ turns \in 0..MaxTurns

\* The parts of TypeOK that relate the variables.
Whereabouts ==
    /\ run.active <=> at # "idle"
    /\ batch.kind # "none" <=> at \in {"tools", "launched"}

\* The calls of the batch.
LEMMA CallTypes ==
    ASSUME Shape
    PROVE  /\ Len(batch.calls) \in Nat /\ Calls = 1..Len(batch.calls)
           /\ \A i \in Calls : /\ batch.calls[i] \in CallRecord
                               /\ StateOf(i) \in States /\ batch.calls[i].stops \in BOOLEAN
<1>1. batch.calls \in Seq(CallRecord)
  BY DEF Shape
<1>2. Len(batch.calls) \in Nat /\ Calls = 1..Len(batch.calls)
      /\ \A i \in Calls : batch.calls[i] \in CallRecord
  BY <1>1 DEF Calls
<1>. QED  BY <1>2 DEF CallRecord, StateOf

\* A call of the batch gets another state, the others keep theirs.
LEMMA WithCall ==
    ASSUME Shape, NEW i \in Calls, NEW state \in States, NEW stops \in BOOLEAN,
           With(i, state, stops)
    PROVE  /\ batch' \in [kind : Kinds, calls : Seq(CallRecord)]
           /\ batch'.kind = batch.kind
           /\ Len(batch'.calls) = Len(batch.calls) /\ Calls' = Calls
           /\ \A j \in Calls : batch'.calls[j] =
                IF j = i THEN [state |-> state, stops |-> stops] ELSE batch.calls[j]
<1>. DEFINE call == [state |-> state, stops |-> stops]
            new == [batch.calls EXCEPT ![i] = call]
<1>1. batch.calls \in Seq(CallRecord) /\ batch.kind \in Kinds /\ call \in CallRecord
  BY DEF Shape, CallRecord
<1>2. i \in 1..Len(batch.calls) /\ Calls = 1..Len(batch.calls)
  BY <1>1 DEF Calls
<1>3. new \in Seq(CallRecord) /\ Len(new) = Len(batch.calls) /\ DOMAIN new = DOMAIN batch.calls
      /\ \A j \in 1..Len(batch.calls) : new[j] = IF j = i THEN call ELSE batch.calls[j]
  BY <1>1, <1>2
<1>4. batch' = [batch EXCEPT !.calls = new]
  BY DEF With
<1>5. batch' = [kind |-> batch.kind, calls |-> new]
  BY <1>4 DEF Shape
<1>. QED  BY <1>1, <1>2, <1>3, <1>5 DEF Calls

\* Messages of one queue on their way.
Of(s, q) == s \in Seq(UserMessage) /\ \A i \in DOMAIN s : s[i].via = q

\* A queue gets other messages of its own.
LEMMA QueueSet ==
    ASSUME Shape, NEW q \in Queues, NEW s, Of(s, q), queue' = [queue EXCEPT ![q] = s]
    PROVE  QueueShape'
<1>1. queue' \in [Queues -> Seq(UserMessage)]
  BY DEF Shape, QueueShape, Of
<1>. SUFFICES ASSUME NEW p \in Queues
              PROVE  \A i \in DOMAIN queue'[p] : queue'[p][i].via = p
  BY <1>1 DEF QueueShape
<1>2. CASE p = q
  BY <1>2 DEF Shape, QueueShape, Of
<1>3. CASE p # q
  <2>1. queue'[p] = queue[p]
    BY <1>3 DEF Shape, QueueShape
  <2>. QED  BY <2>1 DEF Shape, QueueShape
<1>. QED  BY <1>2, <1>3

\* What a drain takes and leaves are messages of its queue; a queue in one-at-a-time
\* mode gives at most one.
LEMMA DrainedType ==
    ASSUME Shape, NEW q \in Queues
    PROVE  /\ Of(Drained(q), q)
           /\ Len(Drained(q)) > 1 => Mode[q] = "all"
           /\ Drain(q) => QueueShape'
<1>. DEFINE s == queue[q]
            n == Len(Drained(q))
            rest == SubSeq(s, n + 1, Len(s))
<1>1. s \in Seq(UserMessage) /\ Len(s) \in Nat /\ \A i \in 1..Len(s) : s[i].via = q
  BY DEF Shape, QueueShape
<1>2. Of(<<>>, q)
  BY DEF Of
<1>3. CASE Drained(q) = s
  <2>1. rest = <<>>
    BY <1>1, <1>3
  <2>2. Drain(q) => queue' = [queue EXCEPT ![q] = <<>>]
    BY <2>1 DEF Drain
  <2>3. Len(Drained(q)) > 1 => Mode[q] = "all"
    <3>1. CASE Mode[q] = "all"  BY <3>1
    <3>2. CASE Mode[q] # "all" /\ s = <<>>  BY <1>3, <3>2
    <3>3. CASE Mode[q] # "all" /\ s # <<>>
      BY <3>3 DEF Drained
    <3>. QED  BY <3>1, <3>2, <3>3
  <2>4. Of(Drained(q), q)
    BY <1>1, <1>3 DEF Of
  <2>. QED  BY <1>2, <2>2, <2>3, <2>4, QueueSet
<1>4. CASE Drained(q) # s
  <2>1. s # <<>> /\ Drained(q) = <<Head(s)>>
    BY <1>4 DEF Drained
  <2>2. n = 1 /\ Head(s) = s[1] /\ s[1] \in UserMessage /\ s[1].via = q
    BY <1>1, <2>1
  <2>3. rest \in Seq(UserMessage) /\ DOMAIN rest = 1..(Len(s) - 1)
        /\ \A i \in 1..(Len(s) - 1) : rest[i] = s[i + 1]
    BY <1>1, <2>1, <2>2
  <2>4. Of(rest, q)
    BY <1>1, <2>3 DEF Of
  <2>5. Drain(q) => queue' = [queue EXCEPT ![q] = rest]
    BY DEF Drain
  <2>6. Of(Drained(q), q)
    BY <2>1, <2>2 DEF Of
  <2>7. ASSUME Drain(q)
        PROVE  QueueShape'
    <3>. HIDE DEF rest
    <3>. QED  BY <2>4, <2>5, <2>7, QueueSet
  <2>. QED  BY <2>2, <2>6, <2>7
<1>. QED  BY <1>3, <1>4

\* The messages the actions make are entries.
LEMMA EntryTypes ==
    /\ \A via \in Senders, n \in 1..MaxMessages : Message(via, n) \in UserMessage
    /\ \A ok \in BOOLEAN, n \in Nat : AnswerMessage(ok, n) \in Entries
    /\ \A i \in Nat \ {0} : ResultMessage(i) \in Entries
    /\ UserMessage \subseteq Entries
<1>1. \A via \in Senders, n \in 1..MaxMessages : Message(via, n) \in UserMessage
  BY DEF Message, UserMessage
<1>2. \A ok \in BOOLEAN, n \in Nat : AnswerMessage(ok, n) \in Answers
  BY DEF AnswerMessage, Answers
<1>3. \A i \in Nat \ {0} : ResultMessage(i) \in Results
  BY DEF ResultMessage, Results
<1>. QED  BY <1>1, <1>2, <1>3 DEF Entries

\* One step of a sequence.
LEMMA AppendAt ==
    ASSUME NEW S, NEW s \in Seq(S), NEW e \in S
    PROVE  /\ Append(s, e) \in Seq(S) /\ Len(s) \in Nat
           /\ Len(Append(s, e)) = Len(s) + 1
           /\ DOMAIN s = 1..Len(s) /\ DOMAIN Append(s, e) = 1..(Len(s) + 1)
           /\ \A i \in 1..Len(s) : Append(s, e)[i] = s[i]
           /\ Append(s, e)[Len(s) + 1] = e
OBVIOUS

\* The entries before a place of a sequence.
LEMMA PrefixAt ==
    ASSUME NEW S, NEW s \in Seq(S), NEW k \in DOMAIN s
    PROVE  /\ Len(s) \in Nat /\ DOMAIN s = 1..Len(s) /\ k \in 1..Len(s)
           /\ SubSeq(s, 1, k - 1) \in Seq(S) /\ DOMAIN SubSeq(s, 1, k - 1) = 1..(k - 1)
           /\ Len(SubSeq(s, 1, k - 1)) = k - 1
           /\ \A i \in 1..(k - 1) : SubSeq(s, 1, k - 1)[i] = s[i]
OBVIOUS

\* Nothing is on its way.
LEMMA NoMessages == OneSender(<<>>)
BY DEF OneSender

LEMMA InitShape == Init => Shape /\ Whereabouts
<1>. SUFFICES ASSUME Init PROVE Shape /\ Whereabouts
  OBVIOUS
<1>1. QueueShape /\ OneSender(inject)
  BY DEF Init, QueueShape, OneSender
<1>2. batch \in [kind : Kinds, calls : Seq(CallRecord)] /\ transcript \in Seq(Entries)
  BY DEF Init, NoBatch, Kinds
<1>3. Whereabouts
  BY DEF Init, Whereabouts, NoRun, NoBatch
<1>4. run \in [active : BOOLEAN, aborted : BOOLEAN, skipPoll : BOOLEAN, base : Nat]
  BY DEF Init, NoRun
<1>5. sent \in 0..MaxMessages /\ turns \in 0..MaxTurns
  BY LoopAssumption DEF Init
<1>6. at \in Places /\ more \in BOOLEAN /\ goOn \in BOOLEAN
  BY DEF Init, Places
<1>. QED  BY <1>1, <1>2, <1>3, <1>4, <1>5, <1>6 DEF Shape

\* A run starts with messages of one sender.
LEMMA StartKeepsShape ==
    ASSUME Shape, Whereabouts, NEW messages, NEW skip \in BOOLEAN, OneSender(messages),
           Starts(messages, skip), ~run.active, sent' \in 0..MaxMessages, QueueShape'
    PROVE  Shape' /\ Whereabouts'
<1>1. Len(transcript) \in Nat
  BY DEF Shape
<1>2. run' = [active |-> TRUE, aborted |-> FALSE, skipPoll |-> skip, base |-> Len(transcript)]
  BY DEF Starts, NewRun
<1>3. at' = "start" /\ at = "idle" /\ inject' = messages /\ batch' = batch
  BY DEF Starts, Whereabouts
<1>4. run' \in [active : BOOLEAN, aborted : BOOLEAN, skipPoll : BOOLEAN, base : Nat]
  BY <1>1, <1>2
<1>5. OneSender(inject)'
  BY <1>3 DEF OneSender
<1>6. Shape'
  BY <1>3, <1>4, <1>5 DEF Starts, Shape, Places
<1>. QED  BY <1>2, <1>3, <1>6 DEF Whereabouts

\* Callers keep the shape.
LEMMA CallersKeepShape ==
    ASSUME Shape, Whereabouts,
           \/ Prompt \/ ContinueQueued \/ ContinueTranscript \/ OmitAnswer \/ Reset \/ Abort
           \/ \E q \in Queues : Queue(q) \/ Clear(q)
    PROVE  Shape' /\ Whereabouts'
<1>. USE LoopAssumption
<1>1. ASSUME NEW q \in Queues, Queue(q)  PROVE Shape' /\ Whereabouts'
  <2>. DEFINE s == Append(queue[q], Message(q, sent + 1))
  <2>1. sent + 1 \in 1..MaxMessages
    BY <1>1 DEF Queue, Shape
  <2>2. Message(q, sent + 1) \in UserMessage /\ Message(q, sent + 1).via = q
    BY <2>1, EntryTypes DEF Senders, Message
  <2>3. Of(s, q)
    BY <2>2 DEF Shape, QueueShape, Of
  <2>4. queue' = [queue EXCEPT ![q] = s]
    BY <1>1 DEF Queue
  <2>. HIDE DEF s
  <2>5. QueueShape'
    BY <2>3, <2>4, QueueSet
  <2>. QED  BY <1>1, <2>1, <2>5 DEF Queue, Shape, OneSender, Whereabouts
<1>2. ASSUME NEW q \in Queues, Clear(q)  PROVE Shape' /\ Whereabouts'
  <2>1. Of(<<>>, q)
    BY DEF Of
  <2>2. QueueShape'
    BY <1>2, <2>1, QueueSet DEF Clear
  <2>. QED  BY <1>2, <2>2 DEF Clear, Shape, OneSender, Whereabouts
<1>3. CASE Abort
  BY <1>3 DEF Abort, Shape, QueueShape, OneSender, Whereabouts
<1>4. CASE Reset
  <2>1. QueueShape'
    BY <1>4 DEF Reset, QueueShape
  <2>. QED  BY <1>4, <2>1 DEF Reset, Shape, OneSender, Whereabouts
<1>5. CASE Prompt
  <2>1. sent + 1 \in 1..MaxMessages
    BY <1>5 DEF Prompt, Shape
  <2>2. Message("prompt", sent + 1) \in UserMessage
    BY <2>1, EntryTypes DEF Senders
  <2>3. OneSender(<<Message("prompt", sent + 1)>>)
    BY <2>2 DEF OneSender
  <2>4. QueueShape'
    BY <1>5 DEF Prompt, Shape, QueueShape
  <2>5. sent' \in 0..MaxMessages
    BY <1>5, <2>1 DEF Prompt
  <2>. QED  BY <1>5, <2>3, <2>4, <2>5, StartKeepsShape DEF Prompt
<1>6. CASE ContinueQueued
  <2>1. PICK q \in Queues : Drain(q) /\ Starts(Drained(q), q = "steer")
    BY <1>6 DEF ContinueQueued, Queues
  <2>2. Of(Drained(q), q) /\ QueueShape'
    BY <2>1, DrainedType
  <2>3. OneSender(Drained(q))
    BY <2>2 DEF Of, OneSender
  <2>4. sent' \in 0..MaxMessages /\ ~run.active
    BY <1>6 DEF ContinueQueued, Shape
  <2>5. (q = "steer") \in BOOLEAN
    OBVIOUS
  <2>. QED  BY <2>1, <2>2, <2>3, <2>4, <2>5, StartKeepsShape
<1>7. CASE ContinueTranscript
  <2>1. Starts(<<>>, FALSE) /\ ~run.active /\ sent' \in 0..MaxMessages
    BY <1>7 DEF ContinueTranscript, Shape
  <2>2. QueueShape'
    BY <1>7 DEF ContinueTranscript, Shape, QueueShape
  <2>. QED  BY <2>1, <2>2, NoMessages, StartKeepsShape
<1>8. CASE OmitAnswer
  <2>1. /\ transcript' \in Seq(Entries)
        /\ UNCHANGED <<queue, sent, run, at, inject, more, goOn, batch, turns>>
    BY <1>8, PrefixAt DEF OmitAnswer, Shape
  <2>. QED  BY <2>1 DEF Shape, QueueShape, OneSender, Whereabouts
<1>. QED  BY <1>1, <1>2, <1>3, <1>4, <1>5, <1>6, <1>7, <1>8

\* A step of the loop that touches neither the queues nor the batch and leaves one
\* sender's messages on their way.
LEMMA QuietStep ==
    ASSUME Shape, Whereabouts, UNCHANGED <<queue, sent>>, OneSender(inject)',
           turns' = turns \/ turns' \in 0..MaxTurns,
           transcript' \in Seq(Entries), more' \in BOOLEAN, goOn' \in BOOLEAN,
           run' = run, at # "idle", at' \in Places \ {"idle"},
           batch' \in [kind : Kinds, calls : Seq(CallRecord)],
           batch'.kind # "none" <=> at' \in {"tools", "launched"}
    PROVE  Shape' /\ Whereabouts'
<1>1. QueueShape'
  BY DEF Shape, QueueShape
<1>2. Shape'
  BY <1>1 DEF Shape
<1>3. Whereabouts'
  BY DEF Whereabouts
<1>. QED  BY <1>2, <1>3

\* The steps of the tool calls.
LEMMA CallsKeepShape ==
    ASSUME Shape, Whereabouts, NEW i \in Calls,
           \/ RefuseCall(i) \/ BeginCall(i) \/ PrepareCall(i)
           \/ FinishCall(i) \/ AnswerCall(i)
    PROVE  Shape' /\ Whereabouts'
<1>1. at \in {"tools", "launched"}
  BY DEF RefuseCall, BeginCall, PrepareCall, FinishCall, AnswerCall, MayAnswer
<1>2. PICK state \in States, stops \in BOOLEAN : With(i, state, stops)
  <2>1. CASE RefuseCall(i)
    BY <2>1 DEF RefuseCall, States
  <2>2. CASE BeginCall(i)
    BY <2>2 DEF BeginCall, States
  <2>3. CASE PrepareCall(i)
    BY <2>3 DEF PrepareCall, States
  <2>4. CASE FinishCall(i)
    BY <2>4 DEF FinishCall, States
  <2>5. CASE AnswerCall(i)
    <3>1. batch.calls[i].stops \in BOOLEAN
      BY CallTypes
    <3>. QED  BY <2>5, <3>1 DEF AnswerCall, States
  <2>. QED  BY <2>1, <2>2, <2>3, <2>4, <2>5
<1>3. batch' \in [kind : Kinds, calls : Seq(CallRecord)] /\ batch'.kind = batch.kind
  BY <1>2, WithCall
<1>4. i \in Nat \ {0}
  BY DEF Shape, Calls
<1>5. ResultMessage(i) \in Entries
  BY <1>4, EntryTypes
<1>6. transcript' \in {transcript, Append(transcript, ResultMessage(i))}
      /\ UNCHANGED <<queue, sent, run, at, inject, more, goOn, turns>>
  BY DEF RefuseCall, BeginCall, PrepareCall, FinishCall, AnswerCall
<1>7. transcript' \in Seq(Entries)
  BY <1>5, <1>6, AppendAt DEF Shape
<1>8. OneSender(inject)'
  BY <1>6 DEF Shape, OneSender
<1>9. at # "idle" /\ at' \in Places \ {"idle"} /\ more' \in BOOLEAN /\ goOn' \in BOOLEAN
  BY <1>1, <1>6 DEF Shape, Places
<1>10. batch'.kind # "none" <=> at' \in {"tools", "launched"}
  BY <1>3, <1>6 DEF Whereabouts
<1>. QED  BY <1>3, <1>6, <1>7, <1>8, <1>9, <1>10, QuietStep

\* What one step of the loop drains is one sender's, and the queues keep theirs.
LEMMA DrainStep ==
    ASSUME Shape, NEW q \in Queues, Drain(q)
    PROVE  OneSender(Drained(q)) /\ QueueShape'
<1>1. Of(Drained(q), q) /\ QueueShape'
  BY DrainedType
<1>. QED  BY <1>1 DEF Of, OneSender

\* An answer of the model is one entry more.
LEMMA AnswerAppends ==
    ASSUME Answer
    PROVE  \E ok \in BOOLEAN, n \in Nat : transcript' = Append(transcript, AnswerMessage(ok, n))
<1>1. CASE transcript' = Append(transcript, AnswerMessage(FALSE, 0))
  BY <1>1
<1>2. CASE transcript' # Append(transcript, AnswerMessage(FALSE, 0))
  <2>1. PICK n \in 0..(IF turns < MaxTurns THEN MaxCalls ELSE 0) :
          transcript' = Append(transcript, AnswerMessage(TRUE, n))
    BY <1>2 DEF Answer
  <2>2. n \in Nat
    BY LoopAssumption
  <2>. QED  BY <2>1, <2>2
<1>. QED  BY <1>1, <1>2

\* The steps of the loop outside the tool calls.
LEMMA LoopKeepsShape ==
    ASSUME Shape, Whereabouts,
           \/ EmitMessage \/ FirstPoll \/ RequestModel \/ Answer \/ Launch \/ BatchDone
           \/ Finish \/ FollowUp \/ Prepare \/ EndRun \/ Fail
    PROVE  Shape' /\ Whereabouts'
<1>. USE LoopAssumption
<1>1. CASE EmitMessage
  <2>1. inject \in Seq(UserMessage) /\ inject # <<>>
    BY <1>1 DEF EmitMessage, Shape, OneSender
  <2>2. /\ Head(inject) \in Entries /\ Tail(inject) \in Seq(UserMessage)
        /\ DOMAIN Tail(inject) = 1..(Len(inject) - 1) /\ Len(inject) \in Nat
        /\ \A i \in 1..(Len(inject) - 1) : Tail(inject)[i] = inject[i + 1]
    BY <2>1, EntryTypes
  <2>3. OneSender(Tail(inject))
    BY <2>2 DEF Shape, OneSender
  <2>4. OneSender(inject)' /\ transcript' \in Seq(Entries)
    BY <1>1, <2>2, <2>3 DEF EmitMessage, Shape, OneSender
  <2>5. /\ at # "idle" /\ at' \in Places \ {"idle"} /\ UNCHANGED <<queue, sent, turns, run, batch>>
        /\ more' \in BOOLEAN /\ goOn' \in BOOLEAN
    BY <1>1 DEF EmitMessage, Shape, Places
  <2>6. /\ batch' \in [kind : Kinds, calls : Seq(CallRecord)]
        /\ batch'.kind # "none" <=> at' \in {"tools", "launched"}
    BY <1>1, <2>5 DEF EmitMessage, Shape, Whereabouts
  <2>. QED  BY <2>4, <2>5, <2>6, QuietStep
<1>2. CASE FirstPoll
  <2>1. QueueShape' /\ OneSender(inject)'
    <3>1. CASE run.skipPoll
      BY <1>2, <3>1 DEF FirstPoll, Shape, QueueShape, OneSender
    <3>2. CASE ~run.skipPoll
      <4>1. Drain("steer") /\ inject' = Drained("steer")
        BY <1>2, <3>2 DEF FirstPoll
      <4>. QED  BY <4>1, DrainStep DEF Queues, OneSender
    <3>. QED  BY <3>1, <3>2
  <2>2. Shape'
    BY <1>2, <2>1 DEF FirstPoll, Shape, Places
  <2>. QED  BY <1>2, <2>2 DEF FirstPoll, Whereabouts
<1>3. CASE RequestModel
  <2>1. /\ at # "idle" /\ at' \in Places \ {"idle"} /\ UNCHANGED <<queue, sent, turns, run, batch>>
        /\ more' \in BOOLEAN /\ goOn' \in BOOLEAN /\ transcript' \in Seq(Entries)
        /\ OneSender(inject)'
    BY <1>3 DEF RequestModel, Shape, Places, OneSender
  <2>2. /\ batch' \in [kind : Kinds, calls : Seq(CallRecord)]
        /\ batch'.kind # "none" <=> at' \in {"tools", "launched"}
    BY <1>3, <2>1 DEF RequestModel, Shape, Whereabouts
  <2>. QED  BY <2>1, <2>2, QuietStep
<1>4. CASE Answer
  <2>1. PICK ok \in BOOLEAN, n \in Nat : transcript' = Append(transcript, AnswerMessage(ok, n))
    BY <1>4, AnswerAppends
  <2>2. transcript' \in Seq(Entries)
    BY <2>1, EntryTypes, AppendAt DEF Shape
  <2>3. batch.kind = "none"
    BY <1>4 DEF Answer, Whereabouts
  <2>4. /\ batch' \in [kind : Kinds, calls : Seq(CallRecord)]
        /\ batch'.kind # "none" <=> at' \in {"tools", "launched"}
        /\ at' \in Places \ {"idle"} /\ more' \in BOOLEAN
    <3>1. CASE at' = "ending" /\ UNCHANGED <<more, batch>>
      BY <2>3, <3>1 DEF Shape, Places
    <3>2. CASE ~(at' = "ending" /\ UNCHANGED <<more, batch>>)
      <4>1. PICK k \in 0..(IF turns < MaxTurns THEN MaxCalls ELSE 0) :
              /\ at' = IF k = 0 THEN "finish" ELSE "tools"
              /\ \E kind \in IF k = 0 THEN {"none"} ELSE {"truncated", "sequential", "parallel"} :
                   batch' = [kind |-> kind, calls |-> [i \in 1..k |-> Waiting]]
              /\ more' = FALSE
        BY <1>4, <3>2 DEF Answer
      <4>2. PICK kind \in IF k = 0 THEN {"none"} ELSE {"truncated", "sequential", "parallel"} :
              batch' = [kind |-> kind, calls |-> [i \in 1..k |-> Waiting]]
        BY <4>1
      <4>3. k \in Nat /\ Waiting \in CallRecord
        BY DEF Waiting, CallRecord, States
      <4>4. [i \in 1..k |-> Waiting] \in Seq(CallRecord)
        BY <4>3
      <4>5. kind \in Kinds /\ (kind = "none" <=> k = 0)
        BY <4>2 DEF Kinds
      <4>. QED  BY <4>1, <4>2, <4>4, <4>5 DEF Places
    <3>. QED  BY <3>1, <3>2
  <2>5. turns' \in 0..MaxTurns
    BY <1>4 DEF Answer, Shape
  <2>6. UNCHANGED <<queue, sent, run, inject, goOn>> /\ at = "request"
    BY <1>4 DEF Answer
  <2>7. QueueShape' /\ OneSender(inject)'
    BY <2>6 DEF Shape, QueueShape, OneSender
  <2>8. Shape'
    BY <2>2, <2>4, <2>5, <2>6, <2>7 DEF Shape
  <2>. QED  BY <2>4, <2>6, <2>8 DEF Whereabouts
<1>5. CASE Launch
  <2>1. batch' \in [kind : Kinds, calls : Seq(CallRecord)] /\ batch'.kind = batch.kind
    <3>. DEFINE new == [i \in Calls |->
                 IF StateOf(i) = "prepared"
                   THEN [state |-> IF run.aborted THEN "ended" ELSE "running", stops |-> FALSE]
                   ELSE batch.calls[i]]
    <3>1. \A i \in Calls : new[i] \in CallRecord
      BY CallTypes DEF CallRecord, States
    <3>2. new \in Seq(CallRecord)
      <4>1. PICK n \in Nat : n = Len(batch.calls) /\ Calls = 1..n
        BY CallTypes
      <4>2. new = [i \in 1..n |-> new[i]]
        BY <4>1
      <4>. HIDE DEF new
      <4>3. \A i \in 1..n : new[i] \in CallRecord
        BY <3>1, <4>1
      <4>. QED  BY <4>2, <4>3
    <3>3. batch' = [batch EXCEPT !.calls = new]
      BY <1>5 DEF Launch
    <3>. HIDE DEF new
    <3>. QED  BY <3>2, <3>3 DEF Shape
  <2>2. /\ at # "idle" /\ at' \in Places \ {"idle"} /\ UNCHANGED <<queue, sent, turns, run>>
        /\ more' \in BOOLEAN /\ goOn' \in BOOLEAN /\ transcript' \in Seq(Entries)
        /\ OneSender(inject)'
    BY <1>5 DEF Launch, Shape, Places, OneSender
  <2>3. batch'.kind # "none" <=> at' \in {"tools", "launched"}
    BY <1>5, <2>1 DEF Launch
  <2>. QED  BY <2>1, <2>2, <2>3, QuietStep
<1>6. CASE BatchDone
  <2>1. /\ at # "idle" /\ at' \in Places \ {"idle"} /\ UNCHANGED <<queue, sent, turns, run>>
        /\ more' \in BOOLEAN /\ goOn' \in BOOLEAN /\ transcript' \in Seq(Entries)
        /\ OneSender(inject)'
    BY <1>6 DEF BatchDone, Shape, Places, OneSender
  <2>2. /\ batch' \in [kind : Kinds, calls : Seq(CallRecord)]
        /\ batch'.kind # "none" <=> at' \in {"tools", "launched"}
    BY <1>6 DEF BatchDone, NoBatch, Kinds
  <2>. QED  BY <2>1, <2>2, QuietStep
<1>7. CASE Finish
  <2>1. QueueShape' /\ OneSender(inject)' /\ at' \in {"ending", "prepare", "followUp"}
        /\ goOn' \in BOOLEAN
    <3>1. CASE at' = "ending" /\ UNCHANGED <<queue, inject, goOn>>
      BY <3>1 DEF Shape, QueueShape, OneSender
    <3>2. CASE ~(at' = "ending" /\ UNCHANGED <<queue, inject, goOn>>)
      <4>1. Drain("steer") /\ inject' = Drained("steer")
        BY <1>7, <3>2 DEF Finish
      <4>2. QueueShape' /\ OneSender(inject)'
        BY <4>1, DrainStep DEF Queues, OneSender
      <4>3. at' \in {"prepare", "followUp"} /\ goOn' \in BOOLEAN
        BY <1>7, <3>2 DEF Finish
      <4>. QED  BY <4>2, <4>3
    <3>. QED  BY <3>1, <3>2
  <2>2. UNCHANGED <<sent, run, more, batch, transcript, turns>> /\ at = "finish"
    BY <1>7 DEF Finish
  <2>3. Shape'
    BY <2>1, <2>2 DEF Shape, Places
  <2>. QED  BY <2>1, <2>2, <2>3 DEF Whereabouts
<1>8. CASE FollowUp
  <2>1. QueueShape' /\ OneSender(inject)'
    BY <1>8, DrainStep DEF FollowUp, Queues, OneSender
  <2>2. at' \in {"prepare", "ending"} /\ more' \in BOOLEAN /\ goOn' \in BOOLEAN
    BY <1>8 DEF FollowUp
  <2>3. UNCHANGED <<sent, run, batch, transcript, turns>> /\ at = "followUp"
    BY <1>8 DEF FollowUp
  <2>4. Shape'
    BY <2>1, <2>2, <2>3 DEF Shape, Places
  <2>. QED  BY <2>2, <2>3, <2>4 DEF Whereabouts
<1>9. CASE Prepare
  <2>1. QueueShape' /\ OneSender(inject)'
    <3>1. CASE inject = <<>>
      <4>1. Drain("steer") /\ inject' = <<>> \o Drained("steer")
        BY <1>9, <3>1 DEF Prepare, PollsAgain
      <4>2. OneSender(Drained("steer")) /\ QueueShape'
        BY <4>1, DrainStep DEF Queues
      <4>3. <<>> \o Drained("steer") = Drained("steer")
        BY <4>2 DEF OneSender
      <4>. QED  BY <4>1, <4>2, <4>3 DEF OneSender
    <3>2. CASE inject # <<>>
      BY <1>9, <3>2 DEF Prepare, PollsAgain, Shape, QueueShape, OneSender
    <3>. QED  BY <3>1, <3>2
  <2>2. at = "prepare" /\ at' = "inject" /\ UNCHANGED <<sent, run, more, goOn, batch, transcript, turns>>
    BY <1>9 DEF Prepare
  <2>3. Shape'
    BY <2>1, <2>2 DEF Shape, Places
  <2>. QED  BY <2>2, <2>3 DEF Whereabouts
<1>10. CASE EndRun
  <2>1. QueueShape' /\ OneSender(inject)'
    BY <1>10 DEF EndRun, Shape, QueueShape, OneSender
  <2>2. run' \in [active : BOOLEAN, aborted : BOOLEAN, skipPoll : BOOLEAN, base : Nat]
        /\ ~run'.active
    BY <1>10 DEF EndRun, NoRun
  <2>3. more' \in BOOLEAN /\ goOn' \in BOOLEAN
    BY <1>10 DEF EndRun
  <2>4. /\ at \in {"ending", "failed"} /\ at' = "idle"
        /\ UNCHANGED <<queue, sent, inject, batch, transcript, turns>>
    BY <1>10 DEF EndRun
  <2>5. Shape'
    BY <2>1, <2>2, <2>3, <2>4 DEF Shape, Places
  <2>. QED  BY <2>2, <2>4, <2>5 DEF Whereabouts
<1>11. CASE Fail
  <2>1. transcript' \in Seq(Entries)
    <3>1. PICK e \in Entries : e = AnswerMessage(FALSE, 0)
      BY EntryTypes
    <3>2. transcript \in Seq(Entries) /\ transcript' \in {transcript, Append(transcript, e)}
      BY <1>11, <3>1 DEF Fail, Shape
    <3>3. Append(transcript, e) \in Seq(Entries)
      BY <3>2, AppendAt
    <3>. QED  BY <3>2, <3>3
  <2>2. /\ at # "idle" /\ at' \in Places \ {"idle"} /\ UNCHANGED <<queue, sent, run>>
        /\ more' \in BOOLEAN /\ goOn' \in BOOLEAN
    BY <1>11 DEF Fail, Shape, Places
  <2>5. turns' \in 0..MaxTurns
    BY <1>11, LoopAssumption DEF Fail, Shape
  <2>3. /\ batch' \in [kind : Kinds, calls : Seq(CallRecord)]
        /\ batch'.kind # "none" <=> at' \in {"tools", "launched"}
    BY <1>11 DEF Fail, NoBatch, Kinds
  <2>4. OneSender(inject)'
    BY <1>11, NoMessages DEF Fail, OneSender
  <2>. QED  BY <2>1, <2>2, <2>3, <2>4, <2>5, QuietStep
<1>. QED  BY <1>1, <1>2, <1>3, <1>4, <1>5, <1>6, <1>7, <1>8, <1>9, <1>10, <1>11

\* The types and whereabouts of the loop are as declared.
LEMMA ShapeImpliesTypes == Shape /\ Whereabouts => TypeOK
<1>. SUFFICES ASSUME Shape, Whereabouts PROVE TypeOK
  OBVIOUS
<1>1. \A q \in Queues : \A m \in ToSet(queue[q]) : m \in UserMessage /\ m.via = q
  BY DEF Shape, QueueShape, ToSet
<1>2. ToSet(inject) \subseteq UserMessage /\ \A m, n \in ToSet(inject) : m.via = n.via
  BY DEF Shape, OneSender, ToSet
<1>3. \A i \in Calls :
        StateOf(i) \in {"waiting", "started", "prepared", "running", "ended", "answered"}
  BY CallTypes DEF States
<1>4. batch.kind \in {"none", "truncated", "sequential", "parallel"}
  BY DEF Shape, Kinds
<1>5. sent \in 0..MaxMessages /\ turns \in 0..MaxTurns
      /\ run \in [active : BOOLEAN, aborted : BOOLEAN, skipPoll : BOOLEAN, base : Nat]
  BY DEF Shape
<1>6. at \in {"idle", "start", "inject", "request", "tools", "launched", "finish",
               "prepare", "followUp", "ending", "failed"} /\ more \in BOOLEAN /\ goOn \in BOOLEAN
  BY DEF Shape, Places
<1>7. (run.active <=> at # "idle") /\ (batch.kind # "none" <=> at \in {"tools", "launched"})
  BY DEF Whereabouts
<1>. QED  BY <1>1, <1>2, <1>3, <1>4, <1>5, <1>6, <1>7 DEF TypeOK

\* A step is one of the loop, of a tool call or of a caller.
LEMMA StepKinds ==
    ASSUME Next
    PROVE  \/ EmitMessage \/ FirstPoll \/ RequestModel \/ Answer \/ Launch \/ BatchDone
           \/ Finish \/ FollowUp \/ Prepare \/ EndRun \/ Fail
           \/ \E i \in Calls : \/ RefuseCall(i) \/ BeginCall(i) \/ PrepareCall(i)
                               \/ FinishCall(i) \/ AnswerCall(i)
           \/ Prompt \/ ContinueQueued \/ ContinueTranscript \/ OmitAnswer \/ Reset \/ Abort
           \/ \E q \in Queues : Queue(q) \/ Clear(q)
BY DEF Next, Proceed

LEMMA ShapeStep == Shape /\ Whereabouts /\ [Next]_vars => Shape' /\ Whereabouts'
<1>. SUFFICES ASSUME Shape, Whereabouts, [Next]_vars PROVE Shape' /\ Whereabouts'
  OBVIOUS
<1>1. CASE UNCHANGED vars
  BY <1>1 DEF vars, Shape, QueueShape, OneSender, Whereabouts
<1>2. CASE Next
  <2>1. CASE \/ EmitMessage \/ FirstPoll \/ RequestModel \/ Answer \/ Launch \/ BatchDone
             \/ Finish \/ FollowUp \/ Prepare \/ EndRun \/ Fail
    BY <2>1, LoopKeepsShape
  <2>2. CASE \E i \in Calls : \/ RefuseCall(i) \/ BeginCall(i) \/ PrepareCall(i)
                              \/ FinishCall(i) \/ AnswerCall(i)
    BY <2>2, CallsKeepShape
  <2>3. CASE \/ Prompt \/ ContinueQueued \/ ContinueTranscript \/ OmitAnswer \/ Reset \/ Abort
             \/ \E q \in Queues : Queue(q) \/ Clear(q)
    BY <2>3, CallersKeepShape
  <2>. QED  BY <1>2, <2>1, <2>2, <2>3, StepKinds
<1>. QED  BY <1>1, <1>2

\* The loop's variables have their types (TypeOK), for every bound.
THEOREM TypeCorrect == Spec => []TypeOK
<1>1. Spec => [](Shape /\ Whereabouts)
  BY InitShape, ShapeStep, PTL DEF Spec
<1>. QED  BY <1>1, ShapeImpliesTypes, PTL

-------------------------------------------------------------------------------
(* One message for each answer. *)

\* The active run put an entry of this role at the end of the conversation.
LastIs(role) ==
    Len(transcript) > run.base /\ transcript[Len(transcript)].role = role

\* Messages of this queue may follow one another.
MayFollow(via) == via \in Queues /\ Mode[via] = "all"

\* A message of the run is last only until the model is asked; drained messages wait
\* only while they are stored or a turn is prepared.
Placed ==
    /\ at \in {"tools", "launched", "finish", "prepare", "followUp"} => ~LastIs("user")
    /\ at \notin {"start", "inject", "prepare"} => inject = <<>>

\* A message drained from a one-at-a-time queue is alone, and the message that the run
\* stored before it is of another sender; before the first poll there is none of the
\* steering queue, unless that poll is skipped.
Handover ==
    /\ Len(inject) > 1 => MayFollow(inject[1].via)
    /\ (/\ at \in {"start", "inject"} /\ inject # <<>> /\ LastIs("user")
        /\ transcript[Len(transcript)].via = inject[1].via) => MayFollow(inject[1].via)
    /\ (at = "start" /\ ~run.skipPoll) =>
         /\ \A i \in DOMAIN inject : inject[i].via # "steer"
         /\ LastIs("user") => transcript[Len(transcript)].via # "steer"

\* An entry that is no message, or one that may follow, does no harm.
LEMMA AppendKeepsOne ==
    ASSUME Shape, OneMessagePerTurn, NEW e \in Entries, transcript' = Append(transcript, e),
           run' = run,
           e.role # "user" \/ ~LastIs("user")
             \/ (transcript[Len(transcript)].via = e.via => MayFollow(e.via))
    PROVE  OneMessagePerTurn'
<1>1. /\ Len(transcript) \in Nat /\ DOMAIN transcript = 1..Len(transcript)
      /\ Len(transcript') = Len(transcript) + 1
      /\ \A i \in 1..Len(transcript) : transcript'[i] = transcript[i]
      /\ transcript'[Len(transcript) + 1] = e
  BY AppendAt DEF Shape
<1>2. run.base \in Nat
  BY DEF Shape
<1>. SUFFICES ASSUME run.active, NEW k \in (run.base + 2)..(Len(transcript) + 1),
                     transcript'[k].role = "user", transcript'[k - 1].role = "user",
                     transcript'[k].via = transcript'[k - 1].via
              PROVE  MayFollow(transcript'[k].via)
  BY <1>1 DEF OneMessagePerTurn, CrowdsAt, MayFollow
<1>3. CASE k # Len(transcript) + 1
  <2>1. k \in (run.base + 2)..Len(transcript) /\ k \in 1..Len(transcript) /\ k - 1 \in 1..Len(transcript)
    BY <1>1, <1>2, <1>3
  <2>2. transcript'[k] = transcript[k] /\ transcript'[k - 1] = transcript[k - 1]
    BY <1>1, <2>1
  <2>3. ~CrowdsAt(k)
    BY <2>1 DEF OneMessagePerTurn
  <2>. QED  BY <2>2, <2>3 DEF CrowdsAt, MayFollow
<1>4. CASE k = Len(transcript) + 1
  <2>1. PICK n \in Nat : n = Len(transcript)
    BY <1>1
  <2>2. k - 1 = n /\ n \in 1..n /\ n > run.base
    BY <1>2, <1>4, <2>1
  <2>3. transcript'[k] = e /\ transcript'[k - 1] = transcript[n]
    BY <1>1, <1>4, <2>1, <2>2
  <2>4. LastIs("user")
    BY <2>1, <2>2, <2>3 DEF LastIs
  <2>. QED  BY <2>1, <2>3, <2>4
<1>. QED  BY <1>3, <1>4

\* What the conversation ends with after one more entry.
LEMMA LastAfter ==
    ASSUME Shape, NEW e \in Entries, transcript' = Append(transcript, e)
    PROVE  /\ transcript'[Len(transcript')] = e
           /\ \A role : LastIs(role)' => e.role = role
<1>1. Len(transcript') = Len(transcript) + 1 /\ transcript'[Len(transcript) + 1] = e
  BY AppendAt DEF Shape
<1>. QED  BY <1>1 DEF LastIs

\* Nothing changes for a run that stores nothing, nor without a run.
LEMMA OneStays ==
    ASSUME OneMessagePerTurn, UNCHANGED transcript,
           run'.base = run.base /\ run'.active = run.active
    PROVE  OneMessagePerTurn' /\ \A role : LastIs(role)' <=> LastIs(role)
BY DEF OneMessagePerTurn, CrowdsAt, LastIs

LEMMA OneWithoutRun == ~run.active => OneMessagePerTurn
BY DEF OneMessagePerTurn

\* The entry of a failed, an ordinary or an ended turn is no message.
LEMMA NoUserEntry ==
    /\ \A ok, n : AnswerMessage(ok, n).role = "assistant"
    /\ \A i : ResultMessage(i).role = "toolResult"
BY DEF AnswerMessage, ResultMessage

\* Steps that store no message.
LEMMA PlacedAppends ==
    ASSUME Shape, Whereabouts, Placed, Handover, OneMessagePerTurn,
           NEW e \in Entries, e.role # "user", transcript' = Append(transcript, e),
           inject' = <<>>, at' # "start", run' = run
    PROVE  Placed' /\ Handover' /\ OneMessagePerTurn'
<1>1. ~LastIs("user")'
  BY LastAfter
<1>2. OneMessagePerTurn'
  BY AppendKeepsOne
<1>. QED  BY <1>1, <1>2 DEF Placed, Handover

\* Steps that leave the conversation alone and move nothing but the queues.
LEMMA PlacedStays ==
    ASSUME Placed, Handover, OneMessagePerTurn, UNCHANGED <<transcript, inject, at>>,
           run'.skipPoll = run.skipPoll, run'.base = run.base /\ run'.active = run.active
    PROVE  Placed' /\ Handover' /\ OneMessagePerTurn'
<1>1. OneMessagePerTurn' /\ \A role : LastIs(role)' <=> LastIs(role)
  BY OneStays
<1>. QED  BY <1>1 DEF Placed, Handover, MayFollow

\* Every drain of the loop obeys its queue's mode.
LEMMA DrainedFollow ==
    ASSUME Shape, NEW q \in Queues
    PROVE  /\ OneSender(Drained(q))
           /\ Len(Drained(q)) > 1 => MayFollow(Drained(q)[1].via)
           /\ \A i \in DOMAIN Drained(q) : Drained(q)[i].via = q
<1>1. Of(Drained(q), q) /\ (Len(Drained(q)) > 1 => Mode[q] = "all")
  BY DrainedType
<1>2. Len(Drained(q)) > 1 => 1 \in DOMAIN Drained(q)
  BY <1>1 DEF Of
<1>. QED  BY <1>1, <1>2 DEF Of, OneSender, MayFollow

\* A run starts with messages that may follow one another.
LEMMA StartHands ==
    ASSUME Shape, NEW messages, NEW skip \in BOOLEAN,
           Starts(messages, skip), at = "idle",
           Len(messages) > 1 => MayFollow(messages[1].via),
           ~skip => \A i \in DOMAIN messages : messages[i].via # "steer"
    PROVE  Placed' /\ Handover' /\ OneMessagePerTurn'
<1>1. /\ at' = "start" /\ inject' = messages /\ UNCHANGED transcript /\ run'.skipPoll = skip
      /\ run'.base = Len(transcript) /\ Len(transcript) \in Nat
  BY DEF Starts, NewRun, Shape
<1>2. ~LastIs("user")' /\ OneMessagePerTurn'
  BY <1>1 DEF LastIs, OneMessagePerTurn
<1>. QED  BY <1>1, <1>2 DEF Placed, Handover, MayFollow

LEMMA HandoverStep ==
    ASSUME Shape, Whereabouts, Placed, Handover, OneMessagePerTurn, [Next]_vars
    PROVE  Placed' /\ Handover' /\ OneMessagePerTurn'
<1>1. CASE UNCHANGED vars
  BY <1>1, PlacedStays DEF vars
<1>2. CASE EmitMessage
  <2>. DEFINE e == Head(inject)
  <2>1. inject \in Seq(UserMessage) /\ inject # <<>> /\ Len(inject) \in Nat
    BY <1>2 DEF EmitMessage, Shape, OneSender
  <2>2. /\ e = inject[1] /\ e \in UserMessage /\ 1 \in DOMAIN inject
        /\ Tail(inject) \in Seq(UserMessage) /\ Len(Tail(inject)) = Len(inject) - 1
        /\ DOMAIN Tail(inject) = 1..(Len(inject) - 1)
        /\ \A i \in 1..(Len(inject) - 1) : Tail(inject)[i] = inject[i + 1] /\ i + 1 \in DOMAIN inject
    BY <2>1
  <2>3. e \in Entries /\ transcript' = Append(transcript, e) /\ inject' = Tail(inject)
        /\ at' = at /\ at \in {"start", "inject"} /\ run' = run
    BY <1>2, <2>2, EntryTypes DEF EmitMessage
  <2>. HIDE DEF e
  <2>4. OneMessagePerTurn'
    <3>1. LastIs("user") /\ transcript[Len(transcript)].via = e.via => MayFollow(e.via)
      BY <2>1, <2>2, <2>3 DEF Handover
    <3>. QED  BY <2>3, <3>1, AppendKeepsOne
  <2>5. \A i \in DOMAIN inject' : inject'[i].via = e.via
    BY <2>2, <2>3 DEF Shape, OneSender
  <2>6. inject' # <<>> => Len(inject) > 1 /\ 1 \in DOMAIN inject'
    BY <2>1, <2>2, <2>3
  <2>7. inject' # <<>> => MayFollow(inject'[1].via)
    BY <2>2, <2>5, <2>6 DEF Handover
  <2>8. Len(inject') > 1 => inject' # <<>>
    BY <2>2, <2>3
  <2>9. transcript'[Len(transcript')] = e
    BY <2>3, LastAfter
  <2>10. (at' = "start" /\ ~run'.skipPoll) => e.via # "steer"
    BY <2>2, <2>3 DEF Handover
  <2>11. Handover'
    BY <2>5, <2>7, <2>8, <2>9, <2>10 DEF Handover, MayFollow
  <2>. QED  BY <2>3, <2>4, <2>11 DEF Placed
<1>3. CASE FirstPoll
  <2>1. at = "start" /\ at' = "inject" /\ inject = <<>> /\ UNCHANGED <<transcript, run>>
    BY <1>3 DEF FirstPoll
  <2>2. OneMessagePerTurn' /\ (LastIs("user")' <=> LastIs("user"))
    BY <2>1, OneStays
  <2>3. CASE run.skipPoll
    <3>1. inject' = <<>>
      BY <1>3, <2>1, <2>3 DEF FirstPoll
    <3>. QED  BY <2>1, <2>2, <3>1 DEF Placed, Handover
  <2>4. CASE ~run.skipPoll
    <3>1. inject' = Drained("steer")
      BY <1>3, <2>4 DEF FirstPoll
    <3>2. /\ OneSender(inject')
          /\ Len(inject') > 1 => MayFollow(inject'[1].via)
          /\ \A i \in DOMAIN inject' : inject'[i].via = "steer"
      BY <3>1, DrainedFollow DEF Queues
    <3>3. inject' # <<>> => 1 \in DOMAIN inject'
      BY <3>2 DEF OneSender
    <3>4. LastIs("user")' => transcript'[Len(transcript')].via # "steer"
      BY <2>1, <2>2, <2>4 DEF Handover
    <3>. QED  BY <2>1, <2>2, <3>2, <3>3, <3>4 DEF Placed, Handover, MayFollow
  <2>. QED  BY <2>3, <2>4
<1>4. CASE RequestModel
  <2>1. at' = "request" /\ inject = <<>> /\ UNCHANGED <<transcript, inject, run>>
    BY <1>4 DEF RequestModel
  <2>. QED  BY <2>1, OneStays DEF Placed, Handover
<1>5. CASE Answer
  <2>1. PICK ok \in BOOLEAN, n \in Nat : transcript' = Append(transcript, AnswerMessage(ok, n))
    BY <1>5, AnswerAppends
  <2>2. inject' = <<>> /\ at' # "start" /\ run' = run
    <3>1. inject' = inject /\ at = "request" /\ run' = run
      BY <1>5 DEF Answer
    <3>2. at' \in {"finish", "tools", "ending"}
      BY <1>5 DEF Answer
    <3>. QED  BY <3>1, <3>2 DEF Placed
  <2>. QED  BY <2>1, <2>2, EntryTypes, NoUserEntry, PlacedAppends
<1>6. CASE Launch \/ BatchDone
  <2>1. /\ at \in {"tools", "launched"} /\ at' \in {"launched", "finish"}
        /\ UNCHANGED <<transcript, inject, run>>
    BY <1>6 DEF Launch, BatchDone
  <2>. QED  BY <2>1, OneStays DEF Placed, Handover
<1>7. CASE Finish
  <2>1. at = "finish" /\ UNCHANGED <<transcript, run>>
    BY <1>7 DEF Finish
  <2>2. ~LastIs("user")' /\ OneMessagePerTurn'
    BY <2>1, OneStays DEF Placed
  <2>3. CASE at' = "ending" /\ UNCHANGED inject
    BY <2>1, <2>2, <2>3 DEF Placed, Handover
  <2>4. CASE ~(at' = "ending" /\ UNCHANGED inject)
    <3>1. /\ inject' = Drained("steer")
          /\ at' = IF more \/ Drained("steer") # <<>> THEN "prepare" ELSE "followUp"
      BY <1>7, <2>4 DEF Finish
    <3>2. /\ Len(inject') > 1 => MayFollow(inject'[1].via)
      BY <3>1, DrainedFollow DEF Queues
    <3>. QED  BY <2>2, <3>1, <3>2 DEF Placed, Handover, MayFollow
  <2>. QED  BY <2>3, <2>4
<1>8. CASE FollowUp
  <2>1. /\ at = "followUp" /\ UNCHANGED <<transcript, run>> /\ inject' = Drained("followUp")
        /\ at' = IF Drained("followUp") # <<>> \/ goOn THEN "prepare" ELSE "ending"
    BY <1>8 DEF FollowUp
  <2>2. ~LastIs("user")' /\ OneMessagePerTurn'
    BY <2>1, OneStays DEF Placed
  <2>3. Len(inject') > 1 => MayFollow(inject'[1].via)
    BY <2>1, DrainedFollow DEF Queues
  <2>. QED  BY <2>1, <2>2, <2>3 DEF Placed, Handover, MayFollow
<1>9. CASE Prepare
  <2>1. at = "prepare" /\ at' = "inject" /\ UNCHANGED <<transcript, run>>
    BY <1>9 DEF Prepare
  <2>2. ~LastIs("user")' /\ OneMessagePerTurn'
    BY <2>1, OneStays DEF Placed
  <2>3. Len(inject') > 1 => MayFollow(inject'[1].via)
    <3>1. CASE inject = <<>>
      <4>1. inject' = <<>> \o Drained("steer")
        BY <1>9, <3>1 DEF Prepare, PollsAgain
      <4>2. OneSender(Drained("steer"))
            /\ (Len(Drained("steer")) > 1 => MayFollow(Drained("steer")[1].via))
        BY DrainedFollow DEF Queues
      <4>3. inject' = Drained("steer")
        BY <4>1, <4>2 DEF OneSender
      <4>. QED  BY <4>2, <4>3
    <3>2. CASE inject # <<>>
      BY <1>9, <3>2 DEF Prepare, PollsAgain, Handover
    <3>. QED  BY <3>1, <3>2
  <2>. QED  BY <2>1, <2>2, <2>3 DEF Placed, Handover, MayFollow
<1>10. CASE EndRun
  <2>1. /\ at \in {"ending", "failed"} /\ at' = "idle" /\ UNCHANGED inject
        /\ ~run'.active
    BY <1>10 DEF EndRun, NoRun
  <2>2. inject' = <<>>
    BY <2>1 DEF Placed
  <2>. QED  BY <2>1, <2>2 DEF Placed, Handover, OneMessagePerTurn
<1>11. CASE Fail
  <2>1. /\ transcript' \in {transcript, Append(transcript, AnswerMessage(FALSE, 0))}
        /\ inject' = <<>> /\ at' = "failed" /\ run' = run
    BY <1>11 DEF Fail
  <2>2. CASE UNCHANGED transcript
    BY <2>1, <2>2, OneStays DEF Placed, Handover
  <2>3. CASE transcript' = Append(transcript, AnswerMessage(FALSE, 0))
    BY <2>1, <2>3, EntryTypes, NoUserEntry, PlacedAppends
  <2>. QED  BY <2>1, <2>2, <2>3
<1>12. ASSUME NEW i \in Calls, \/ RefuseCall(i) \/ BeginCall(i) \/ PrepareCall(i)
                               \/ FinishCall(i) \/ AnswerCall(i)
       PROVE  Placed' /\ Handover' /\ OneMessagePerTurn'
  <2>1. /\ at \in {"tools", "launched"} /\ UNCHANGED <<run, at, inject>>
        /\ transcript' \in {transcript, Append(transcript, ResultMessage(i))}
    BY <1>12 DEF RefuseCall, BeginCall, PrepareCall, FinishCall, AnswerCall, MayAnswer
  <2>2. CASE UNCHANGED transcript
    BY <2>1, <2>2, PlacedStays
  <2>3. CASE transcript' = Append(transcript, ResultMessage(i))
    <3>1. i \in Nat \ {0} /\ inject' = <<>> /\ at' # "start"
      BY <2>1, CallTypes DEF Placed
    <3>. QED  BY <2>1, <2>3, <3>1, EntryTypes, NoUserEntry, PlacedAppends
  <2>. QED  BY <2>1, <2>2, <2>3
<1>14. CASE Prompt
  <2>1. Starts(<<Message("prompt", sent + 1)>>, FALSE) /\ at = "idle"
    BY <1>14 DEF Prompt, Whereabouts
  <2>. DEFINE messages == <<Message("prompt", sent + 1)>>
  <2>2. Len(messages) = 1 /\ \A i \in DOMAIN messages : messages[i].via # "steer"
    BY DEF Message
  <2>3. Starts(messages, FALSE) /\ at = "idle"
    BY <2>1
  <2>. HIDE DEF messages
  <2>4. Len(messages) > 1 => MayFollow(messages[1].via)
    BY <2>2
  <2>. QED  BY StartHands, <2>2, <2>3, <2>4
<1>15. CASE ContinueQueued
  <2>1. PICK q \in Queues : Starts(Drained(q), q = "steer")
    BY <1>15 DEF ContinueQueued, Queues
  <2>2. at = "idle"
    BY <1>15 DEF ContinueQueued, Whereabouts
  <2>3. /\ Len(Drained(q)) > 1 => MayFollow(Drained(q)[1].via)
        /\ \A i \in DOMAIN Drained(q) : Drained(q)[i].via = q
    BY DrainedFollow
  <2>4. (q = "steer") \in BOOLEAN
    OBVIOUS
  <2>5. ~(q = "steer") => \A i \in DOMAIN Drained(q) : Drained(q)[i].via # "steer"
    BY <2>3
  <2>. QED  BY StartHands, <2>1, <2>2, <2>3, <2>4, <2>5
<1>16. CASE ContinueTranscript
  <2>1. Starts(<<>>, FALSE) /\ at = "idle"
    BY <1>16 DEF ContinueTranscript, Whereabouts
  <2>. DEFINE messages == <<>>
  <2>2. (Len(messages) > 1 => MayFollow(messages[1].via))
        /\ \A i \in DOMAIN messages : messages[i].via # "steer"
    OBVIOUS
  <2>3. Starts(messages, FALSE) /\ at = "idle"
    BY <2>1
  <2>. HIDE DEF messages
  <2>. QED  BY StartHands, <2>2, <2>3
<1>17. CASE Reset \/ OmitAnswer
  <2>1. UNCHANGED <<inject, at, run>> /\ at = "idle" /\ ~run.active
    BY <1>17 DEF Reset, OmitAnswer, Whereabouts
  <2>2. inject' = <<>>
    BY <2>1 DEF Placed
  <2>. QED  BY <2>1, <2>2 DEF Placed, Handover, OneMessagePerTurn
<1>18. CASE Abort
  <2>1. /\ run'.skipPoll = run.skipPoll /\ run'.base = run.base /\ run'.active = run.active
        /\ UNCHANGED <<transcript, inject, at>>
    BY <1>18 DEF Abort, Shape
  <2>. QED  BY <2>1, PlacedStays
<1>19. ASSUME NEW q \in Queues, Queue(q) \/ Clear(q)
       PROVE  Placed' /\ Handover' /\ OneMessagePerTurn'
  <2>1. run' = run /\ UNCHANGED <<transcript, inject, at>>
    BY <1>19 DEF Queue, Clear
  <2>. QED  BY <2>1, PlacedStays
<1>. QED
  BY <1>1, <1>2, <1>3, <1>4, <1>5, <1>6, <1>7, <1>8, <1>9, <1>10, <1>11, <1>12, <1>14,
     <1>15, <1>16, <1>17, <1>18, <1>19, StepKinds

LEMMA InitHandover == Init => Placed /\ Handover /\ OneMessagePerTurn
BY DEF Init, Placed, Handover, OneMessagePerTurn, LastIs, NoRun

\* In one run a queue in one-at-a-time mode hands the model one message, then the model
\* answers (OneMessagePerTurn, agent-loop.ts:183-207), for every number of messages,
\* either mode of each queue and whatever conversation the run starts from, one that
\* already ends with a message of the queue included.
THEOREM OneMessageEachTurn == Spec => []OneMessagePerTurn
<1>. DEFINE I == Shape /\ Whereabouts /\ Placed /\ Handover /\ OneMessagePerTurn
<1>1. Init => I
  BY InitShape, InitHandover
<1>2. I /\ [Next]_vars => I'
  BY ShapeStep, HandoverStep
<1>3. I => OneMessagePerTurn
  OBVIOUS
<1>. QED  BY <1>1, <1>2, <1>3, PTL DEF Spec

-------------------------------------------------------------------------------
(* Tool results. *)

\* The result at k stands behind its answer, behind those of the calls before it.
OrderedFrom(s, k, first) ==
    /\ first >= 1 /\ s[first].role = "assistant" /\ s[first].calls >= s[k].call
    /\ \A j \in (first + 1)..k : s[j] = ResultMessage(j - first)

OrderedAt(s, k) == OrderedFrom(s, k, k - s[k].call)

Ordered(s) == \A k \in DOMAIN s : s[k].role = "toolResult" => OrderedAt(s, k)

\* s ends with an answer of n calls and the results of the first m.
EndsWith(s, n, m) ==
    /\ m <= n /\ Len(s) - m >= 1
    /\ s[Len(s) - m].role = "assistant" /\ s[Len(s) - m].calls = n
    /\ \A j \in 1..m : s[Len(s) - m + j] = ResultMessage(j)

\* Entries of a role are those of its kind.
LEMMA EntryRoles ==
    ASSUME NEW e \in Entries
    PROVE  /\ e.role = "toolResult" => e.call \in Nat \ {0}
           /\ e.role = "assistant" => e.calls \in Nat
BY DEF Entries, UserMessage, Answers, Results

\* What follows does not disturb an ordered result.
LEMMA OrderedStays ==
    ASSUME NEW s \in Seq(Entries), NEW e \in Entries, NEW k \in 1..Len(s),
           s[k].role = "toolResult", OrderedAt(s, k)
    PROVE  OrderedAt(Append(s, e), k)
<1>. DEFINE t == Append(s, e)
            first == k - s[k].call
<1>1. Len(s) \in Nat /\ \A i \in 1..Len(s) : t[i] = s[i]
  BY AppendAt
<1>2. s[k].call \in Nat \ {0}
  BY EntryRoles
<1>3. /\ first >= 1 /\ s[first].role = "assistant" /\ s[first].calls >= s[k].call
      /\ \A j \in (first + 1)..k : s[j] = ResultMessage(j - first)
  BY DEF OrderedAt, OrderedFrom
<1>4. first \in 1..Len(s) /\ k - t[k].call = first
  BY <1>1, <1>2, <1>3
<1>5. \A j \in (first + 1)..k : j \in 1..Len(s)
  BY <1>1, <1>4
<1>. HIDE DEF first, t
<1>6. \A j \in (first + 1)..k : t[j] = ResultMessage(j - first)
  BY <1>1, <1>3, <1>5
<1>7. t[first].role = "assistant" /\ t[first].calls >= t[k].call
  BY <1>1, <1>3, <1>4
<1>8. OrderedFrom(t, k, first)
  BY <1>3, <1>6, <1>7 DEF OrderedFrom
<1>9. OrderedAt(t, k)
  BY <1>4, <1>8 DEF OrderedAt
<1>. QED  BY <1>9 DEF t

\* Results stay in order when something else than a result follows.
LEMMA OtherKeepsOrder ==
    ASSUME NEW s \in Seq(Entries), NEW e \in Entries, Ordered(s), e.role # "toolResult"
    PROVE  Ordered(Append(s, e))
<1>. SUFFICES ASSUME NEW k \in DOMAIN Append(s, e), Append(s, e)[k].role = "toolResult"
              PROVE  OrderedAt(Append(s, e), k)
  BY DEF Ordered
<1>1. k \in 1..Len(s) /\ k \in DOMAIN s /\ s[k].role = "toolResult"
  BY AppendAt
<1>. QED  BY <1>1, OrderedStays DEF Ordered

\* The next result of a batch stands where it belongs.
LEMMA ResultKeepsOrder ==
    ASSUME NEW s \in Seq(Entries), Ordered(s), NEW n \in Nat, NEW m \in Nat,
           EndsWith(s, n, m), m + 1 <= n
    PROVE  /\ Ordered(Append(s, ResultMessage(m + 1)))
           /\ EndsWith(Append(s, ResultMessage(m + 1)), n, m + 1)
<1>. DEFINE e == ResultMessage(m + 1)
            t == Append(s, e)
            l == Len(s)
<1>1. e \in Entries /\ e.call = m + 1
  BY EntryTypes DEF ResultMessage
<1>2. /\ l \in Nat /\ DOMAIN s = 1..l /\ DOMAIN t = 1..(l + 1) /\ Len(t) = l + 1
      /\ \A i \in 1..l : t[i] = s[i]
      /\ t[l + 1] = e
  BY <1>1, AppendAt
<1>3. PICK f \in 1..l : f = l - m
  <2>1. l - m \in 1..l
    BY <1>2 DEF EndsWith
  <2>. QED  BY <2>1
<1>4. t[f].role = "assistant" /\ t[f].calls = n
  BY <1>2, <1>3 DEF EndsWith
<1>5. ASSUME NEW i \in 1..(m + 1) PROVE t[f + i] = ResultMessage(i)
  <2>1. CASE i = m + 1
    <3>1. f + i = l + 1
      BY <1>2, <1>3, <2>1
    <3>. QED  BY <1>2, <2>1, <3>1
  <2>2. CASE i # m + 1
    <3>1. i \in 1..m /\ l - m + i = f + i /\ f + i \in 1..l
      BY <1>2, <1>3, <2>2
    <3>2. s[l - m + i] = ResultMessage(i)
      BY <3>1 DEF EndsWith
    <3>. QED  BY <1>2, <3>1, <3>2
  <2>. QED  BY <2>1, <2>2
<1>6. Len(t) - (m + 1) = f /\ m + 1 \in Nat
  BY <1>2, <1>3
<1>. HIDE DEF t, l, e
<1>7. EndsWith(t, n, m + 1)
  <2>1. f >= 1
    BY <1>2, <1>3
  <2>2. \A j \in 1..(m + 1) : t[Len(t) - (m + 1) + j] = ResultMessage(j)
    BY <1>5, <1>6
  <2>. QED  BY <1>4, <1>6, <2>1, <2>2 DEF EndsWith
<1>8. OrderedAt(t, l + 1)
  <2>1. l + 1 - t[l + 1].call = f
    BY <1>1, <1>2, <1>3
  <2>2. ASSUME NEW j \in (f + 1)..(l + 1) PROVE t[j] = ResultMessage(j - f)
    <3>1. j - f \in 1..(m + 1) /\ f + (j - f) = j
      BY <1>2, <1>3
    <3>. QED  BY <1>5, <3>1
  <2>3. t[f].calls >= t[l + 1].call
    BY <1>1, <1>2, <1>4
  <2>4. f >= 1
    BY <1>2, <1>3
  <2>5. \A j \in (f + 1)..(l + 1) : t[j] = ResultMessage(j - f)
    BY <2>2
  <2>6. OrderedFrom(t, l + 1, f)
    BY <1>4, <2>3, <2>4, <2>5 DEF OrderedFrom
  <2>7. PICK k \in Nat : k = l + 1
    BY <1>2
  <2>8. k - t[k].call = f /\ OrderedFrom(t, k, f)
    BY <1>1, <1>2, <1>3, <2>1, <2>6, <2>7
  <2>9. OrderedAt(t, k)
    BY <2>8 DEF OrderedAt
  <2>. QED  BY <2>7, <2>9
<1>9. Ordered(t)
  <2>. SUFFICES ASSUME NEW k \in 1..(l + 1), t[k].role = "toolResult", k # l + 1
                PROVE  OrderedAt(t, k)
    BY <1>2, <1>8 DEF Ordered
  <2>1. k \in 1..l /\ s[k].role = "toolResult"
    BY <1>2
  <2>2. OrderedAt(s, k)
    BY <1>2, <2>1 DEF Ordered
  <2>. QED  BY <1>1, <2>1, <2>2, OrderedStays DEF t, l
<1>. QED  BY <1>7, <1>9 DEF t, e

\* Results stay in order when the end of the conversation is taken out.
LEMMA PrefixKeepsOrder ==
    ASSUME NEW s \in Seq(Entries), Ordered(s), NEW k \in DOMAIN s
    PROVE  Ordered(SubSeq(s, 1, k - 1))
<1>1. PICK t \in Seq(Entries) : t = SubSeq(s, 1, k - 1)
  BY PrefixAt
<1>2. /\ Len(s) \in Nat /\ DOMAIN s = 1..Len(s) /\ k \in 1..Len(s)
      /\ DOMAIN t = 1..(k - 1) /\ \A i \in 1..(k - 1) : t[i] = s[i]
  BY <1>1, PrefixAt
<1>3. SUFFICES ASSUME NEW i \in 1..(k - 1), t[i].role = "toolResult"
               PROVE  OrderedAt(t, i)
  BY <1>1, <1>2 DEF Ordered
<1>4. i \in DOMAIN s /\ t[i] = s[i] /\ s[i] \in Entries
  BY <1>2
<1>5. OrderedAt(s, i) /\ s[i].call \in Nat \ {0}
  BY <1>3, <1>4, EntryRoles DEF Ordered
<1>6. PICK f \in 1..(i - 1) : f = i - s[i].call
  <2>1. i - s[i].call >= 1
    BY <1>5 DEF OrderedAt, OrderedFrom
  <2>2. i - s[i].call \in 1..(i - 1)
    BY <1>2, <1>5, <2>1
  <2>. QED  BY <2>2
<1>7. OrderedFrom(s, i, f)
  BY <1>5, <1>6 DEF OrderedAt
<1>8. f \in 1..(k - 1) /\ \A j \in (f + 1)..i : j \in 1..(k - 1)
  BY <1>2, <1>6
<1>9. OrderedFrom(t, i, f)
  BY <1>2, <1>4, <1>7, <1>8 DEF OrderedFrom
<1>. QED  BY <1>4, <1>6, <1>9 DEF OrderedAt

\* Calls are begun in their order.
BegunInOrder == \A i, j \in Calls : j < i /\ StateOf(i) # "waiting" => StateOf(j) # "waiting"

\* The conversation ends with the answer whose calls the batch holds and the results of
\* the first m, the calls that are answered.
BatchAt(m) ==
    /\ EndsWith(transcript, Len(batch.calls), m)
    /\ \A i \in Calls : StateOf(i) = "answered" <=> i <= m

Batching == at \in {"tools", "launched"} => BegunInOrder /\ \E m \in Nat : BatchAt(m)

\* A call moves on after all calls before it were begun.
LEMMA CallMoves ==
    ASSUME Shape, BegunInOrder, NEW i \in Calls, NEW state \in States, NEW stops \in BOOLEAN,
           With(i, state, stops), state # "waiting",
           \A j \in Calls : j < i => StateOf(j) # "waiting"
    PROVE  /\ BegunInOrder' /\ Calls' = Calls /\ Len(batch'.calls) = Len(batch.calls)
           /\ \A j \in Calls : batch'.calls[j].state = IF j = i THEN state ELSE StateOf(j)
<1>1. /\ Calls' = Calls /\ Len(batch'.calls) = Len(batch.calls)
      /\ \A j \in Calls : batch'.calls[j] =
           IF j = i THEN [state |-> state, stops |-> stops] ELSE batch.calls[j]
  BY WithCall
<1>2. \A j \in Calls : batch'.calls[j].state = IF j = i THEN state ELSE StateOf(j)
  BY <1>1 DEF StateOf
<1>3. BegunInOrder'
  <2>. SUFFICES ASSUME NEW k \in Calls, NEW j \in Calls, j < k,
                       batch'.calls[k].state # "waiting"
                PROVE  batch'.calls[j].state # "waiting"
    BY <1>1 DEF BegunInOrder, StateOf
  <2>1. CASE j = i  BY <1>2, <2>1
  <2>2. CASE j # i
    <3>1. StateOf(j) # "waiting"
      BY <1>2, <2>2 DEF BegunInOrder
    <3>. QED  BY <1>2, <2>2, <3>1
  <2>. QED  BY <2>1, <2>2
<1>. QED  BY <1>1, <1>2, <1>3

\* The calls keep the order of their results.
LEMMA CallsKeepOrder ==
    ASSUME Shape, Batching, Ordered(transcript), NEW i \in Calls,
           \/ RefuseCall(i) \/ BeginCall(i) \/ PrepareCall(i)
           \/ FinishCall(i) \/ AnswerCall(i)
    PROVE  Batching' /\ Ordered(transcript')
<1>1. at \in {"tools", "launched"} /\ at' = at
  BY DEF RefuseCall, BeginCall, PrepareCall, FinishCall, AnswerCall, MayAnswer
<1>2. BegunInOrder
  BY <1>1 DEF Batching
<1>3. PICK m \in Nat : BatchAt(m)
  BY <1>1 DEF Batching
<1>4. Len(batch.calls) \in Nat /\ Calls = 1..Len(batch.calls)
  BY CallTypes
<1>5. ASSUME NEW state \in States \ {"waiting", "answered"}, NEW stops \in BOOLEAN,
             With(i, state, stops), StateOf(i) # "answered", UNCHANGED transcript,
             \A j \in Calls : j < i => StateOf(j) # "waiting"
      PROVE  Batching' /\ Ordered(transcript')
  <2>1. /\ BegunInOrder' /\ Calls' = Calls /\ Len(batch'.calls) = Len(batch.calls)
        /\ \A j \in Calls : batch'.calls[j].state = IF j = i THEN state ELSE StateOf(j)
    BY <1>2, <1>5, CallMoves
  <2>2. \A j \in Calls : batch'.calls[j].state = "answered" <=> j <= m
    BY <1>3, <1>5, <2>1 DEF BatchAt
  <2>3. BatchAt(m)'
    BY <1>3, <1>5, <2>1, <2>2 DEF BatchAt, StateOf
  <2>. QED  BY <1>5, <2>1, <2>3 DEF Batching
<1>6. ASSUME NEW stops \in BOOLEAN, With(i, "answered", stops), StateOf(i) # "answered",
             transcript' = Append(transcript, ResultMessage(i)),
             \A j \in Calls : j < i /\ StateOf(j) # "waiting" => StateOf(j) = "answered",
             \A j \in Calls : j < i => StateOf(j) # "waiting"
      PROVE  Batching' /\ Ordered(transcript')
  <2>1. \A j \in Calls : j < i => j <= m
    BY <1>3, <1>6 DEF BatchAt
  <2>2. i = m + 1
    <3>1. i > m
      BY <1>3, <1>4, <1>6 DEF BatchAt
    <3>2. CASE i > m + 1
      <4>1. m + 1 \in Calls /\ m + 1 < i
        BY <1>4, <3>2
      <4>2. m + 1 <= m
        BY <2>1, <4>1
      <4>. QED  BY <4>2
    <3>. QED  BY <1>4, <3>1, <3>2
  <2>3. "answered" \in States
    BY DEF States
  <2>4. /\ BegunInOrder' /\ Calls' = Calls /\ Len(batch'.calls) = Len(batch.calls)
        /\ \A j \in Calls : batch'.calls[j].state = IF j = i THEN "answered" ELSE StateOf(j)
    BY <1>2, <1>6, <2>3, CallMoves
  <2>5. Ordered(transcript') /\ EndsWith(transcript', Len(batch.calls), m + 1)
    <3>1. transcript \in Seq(Entries) /\ EndsWith(transcript, Len(batch.calls), m)
      BY <1>3 DEF Shape, BatchAt
    <3>2. m + 1 <= Len(batch.calls)
      BY <1>4, <2>2
    <3>. QED  BY <1>4, <1>6, <2>2, <3>1, <3>2, ResultKeepsOrder
  <2>6. \A j \in Calls : batch'.calls[j].state = "answered" <=> j <= m + 1
    <3>. SUFFICES ASSUME NEW j \in Calls
                  PROVE  batch'.calls[j].state = "answered" <=> j <= m + 1
      OBVIOUS
    <3>1. CASE j = i  BY <2>2, <2>4, <3>1
    <3>2. CASE j # i
      <4>1. StateOf(j) = "answered" <=> j <= m
        BY <1>3 DEF BatchAt
      <4>. QED  BY <1>4, <2>2, <2>4, <3>2, <4>1
    <3>. QED  BY <3>1, <3>2
  <2>7. BatchAt(m + 1)'
    BY <2>4, <2>5, <2>6 DEF BatchAt, StateOf
  <2>. QED  BY <2>4, <2>5, <2>7 DEF Batching
<1>7. StateOf(i) # "waiting" => \A j \in Calls : j < i => StateOf(j) # "waiting"
  BY <1>2 DEF BegunInOrder
<1>8. \A j \in Calls : j < i => j \in 1..(i - 1)
  BY <1>4
<1>9. CASE RefuseCall(i)
  <2>1. /\ With(i, "answered", FALSE) /\ StateOf(i) = "waiting"
        /\ transcript' = Append(transcript, ResultMessage(i))
        /\ \A j \in 1..(i - 1) : StateOf(j) = "answered"
    BY <1>9 DEF RefuseCall
  <2>2. \A j \in Calls : j < i => StateOf(j) = "answered"
    BY <1>8, <2>1
  <2>. QED  BY <1>6, <2>1, <2>2
<1>10. CASE BeginCall(i)
  <2>1. /\ With(i, "started", FALSE) /\ StateOf(i) = "waiting" /\ UNCHANGED transcript
        /\ \A j \in 1..(i - 1) : StateOf(j) \in {"answered", "prepared", "ended"}
    BY <1>10 DEF BeginCall, Before
  <2>2. \A j \in Calls : j < i => StateOf(j) # "waiting"
    BY <1>8, <2>1
  <2>3. "started" \in States \ {"waiting", "answered"}
    BY DEF States
  <2>. QED  BY <1>5, <2>1, <2>2, <2>3
<1>11. CASE PrepareCall(i)
  <2>1. PICK state \in States \ {"waiting", "answered"}, stops \in BOOLEAN : With(i, state, stops)
    BY <1>11 DEF PrepareCall, States
  <2>2. StateOf(i) = "started" /\ UNCHANGED transcript
    BY <1>11 DEF PrepareCall
  <2>. QED  BY <1>5, <1>7, <2>1, <2>2
<1>12. CASE FinishCall(i)
  <2>1. PICK stops \in BOOLEAN : With(i, "ended", stops)
    BY <1>12 DEF FinishCall
  <2>2. StateOf(i) = "running" /\ UNCHANGED transcript
    BY <1>12 DEF FinishCall
  <2>3. "ended" \in States \ {"waiting", "answered"}
    BY DEF States
  <2>. QED  BY <1>5, <1>7, <2>1, <2>2, <2>3
<1>13. CASE AnswerCall(i)
  <2>1. /\ With(i, "answered", batch.calls[i].stops) /\ StateOf(i) = "ended"
        /\ transcript' = Append(transcript, ResultMessage(i))
        /\ \A j \in Begun : j < i => StateOf(j) = "answered"
    BY <1>13 DEF AnswerCall, MayAnswer
  <2>2. \A j \in Calls : j < i /\ StateOf(j) # "waiting" => StateOf(j) = "answered"
    BY <2>1 DEF Begun
  <2>3. batch.calls[i].stops \in BOOLEAN
    BY CallTypes
  <2>. QED  BY <1>6, <1>7, <2>1, <2>2, <2>3
<1>. QED  BY <1>9, <1>10, <1>11, <1>12, <1>13

\* An answer with calls opens a batch of them, any other leaves none.
LEMMA AnswerOpens ==
    ASSUME Answer
    PROVE  \/ \E n \in Nat, kind \in Kinds :
                /\ transcript' = Append(transcript, AnswerMessage(TRUE, n))
                /\ at' = IF n = 0 THEN "finish" ELSE "tools"
                /\ batch' = [kind |-> kind, calls |-> [i \in 1..n |-> Waiting]]
           \/ transcript' = Append(transcript, AnswerMessage(FALSE, 0)) /\ at' = "ending"
<1>1. CASE transcript' = Append(transcript, AnswerMessage(FALSE, 0)) /\ at' = "ending"
  BY <1>1
<1>2. CASE ~(transcript' = Append(transcript, AnswerMessage(FALSE, 0)) /\ at' = "ending")
  <2>1. PICK n \in 0..(IF turns < MaxTurns THEN MaxCalls ELSE 0) :
          /\ transcript' = Append(transcript, AnswerMessage(TRUE, n))
          /\ at' = IF n = 0 THEN "finish" ELSE "tools"
          /\ \E kind \in IF n = 0 THEN {"none"} ELSE {"truncated", "sequential", "parallel"} :
               batch' = [kind |-> kind, calls |-> [i \in 1..n |-> Waiting]]
    BY <1>2 DEF Answer
  <2>2. PICK kind \in IF n = 0 THEN {"none"} ELSE {"truncated", "sequential", "parallel"} :
          batch' = [kind |-> kind, calls |-> [i \in 1..n |-> Waiting]]
    BY <2>1
  <2>3. n \in Nat /\ kind \in Kinds
    BY <2>2, LoopAssumption DEF Kinds
  <2>. QED  BY <2>1, <2>2, <2>3
<1>. QED  BY <1>1, <1>2

\* Launching changes no answer and begins no call.
LEMMA LaunchMoves ==
    ASSUME Shape, Launch
    PROVE  /\ Calls' = Calls /\ Len(batch'.calls) = Len(batch.calls)
           /\ \A j \in Calls : \/ batch'.calls[j].state = StateOf(j)
                               \/ StateOf(j) = "prepared" /\ batch'.calls[j].state \in {"ended", "running"}
<1>. DEFINE new == [i \in Calls |->
              IF StateOf(i) = "prepared"
                THEN [state |-> IF run.aborted THEN "ended" ELSE "running", stops |-> FALSE]
                ELSE batch.calls[i]]
<1>1. Len(batch.calls) \in Nat /\ Calls = 1..Len(batch.calls)
      /\ \A i \in Calls : batch.calls[i] \in CallRecord
  BY CallTypes
<1>2. ASSUME NEW j \in Calls
      PROVE  \/ new[j].state = StateOf(j)
             \/ StateOf(j) = "prepared" /\ new[j].state \in {"ended", "running"}
  <2>1. CASE StateOf(j) = "prepared"
    <3>1. new[j] = [state |-> IF run.aborted THEN "ended" ELSE "running", stops |-> FALSE]
      BY <2>1
    <3>. QED  BY <2>1, <3>1
  <2>2. CASE StateOf(j) # "prepared"
    <3>1. new[j] = batch.calls[j]
      BY <2>2
    <3>. QED  BY <3>1 DEF StateOf
  <2>. QED  BY <2>1, <2>2
<1>3. \A i \in Calls : new[i] \in CallRecord
  BY <1>1 DEF CallRecord, States
<1>4. DOMAIN new = 1..Len(batch.calls) /\ Len(new) = Len(batch.calls)
  <2>1. new = [i \in 1..Len(batch.calls) |-> new[i]]
    BY <1>1
  <2>. HIDE DEF new
  <2>2. new \in Seq(CallRecord)
    BY <1>1, <1>3, <2>1
  <2>3. DOMAIN new = 1..Len(batch.calls)
    BY <2>1
  <2>. QED  BY <1>1, <2>2, <2>3
<1>5. batch' = [batch EXCEPT !.calls = new]
  BY DEF Launch
<1>. HIDE DEF new
<1>6. batch'.calls = new
  BY <1>5 DEF Shape
<1>7. ASSUME NEW j \in Calls
      PROVE  \/ batch'.calls[j].state = StateOf(j)
             \/ StateOf(j) = "prepared" /\ batch'.calls[j].state \in {"ended", "running"}
  BY <1>2, <1>6
<1>8. Calls' = Calls /\ Len(batch'.calls) = Len(batch.calls)
  BY <1>1, <1>4, <1>6 DEF Calls
<1>. QED  BY <1>7, <1>8

\* A fresh answer is followed by no result.
LEMMA AnswerEnds ==
    ASSUME NEW s \in Seq(Entries), NEW n \in Nat
    PROVE  EndsWith(Append(s, AnswerMessage(TRUE, n)), n, 0)
<1>. DEFINE e == AnswerMessage(TRUE, n)
            t == Append(s, e)
<1>1. e \in Entries /\ e.role = "assistant" /\ e.calls = n
  BY EntryTypes DEF AnswerMessage
<1>. HIDE DEF e
<1>2. Len(s) \in Nat /\ Len(t) = Len(s) + 1 /\ t[Len(s) + 1] = e
  BY <1>1, AppendAt
<1>. HIDE DEF t
<1>3. PICK l \in Nat : l = Len(t) /\ l >= 1 /\ t[l] = e
  BY <1>2
<1>4. Len(t) - 0 = l
  BY <1>3
<1>5. EndsWith(t, n, 0)
  BY <1>1, <1>3, <1>4 DEF EndsWith
<1>. QED  BY <1>5 DEF t, e

LEMMA OrderStep ==
    ASSUME Shape, Whereabouts, Batching, Ordered(transcript), [Next]_vars
    PROVE  Batching' /\ Ordered(transcript')
<1>1. ASSUME UNCHANGED <<transcript, batch, at>>
      PROVE  Batching' /\ Ordered(transcript')
  BY <1>1 DEF Batching, BatchAt, BegunInOrder, Calls, StateOf
<1>2. ASSUME UNCHANGED transcript, at' \notin {"tools", "launched"}
      PROVE  Batching' /\ Ordered(transcript')
  BY <1>2 DEF Batching
<1>3. ASSUME NEW e \in Entries, e.role # "toolResult", transcript' = Append(transcript, e),
             at' \notin {"tools", "launched"}
      PROVE  Batching' /\ Ordered(transcript')
  <2>1. transcript \in Seq(Entries)
    BY DEF Shape
  <2>. QED  BY <1>3, <2>1, OtherKeepsOrder DEF Batching
<1>4. CASE UNCHANGED vars
  BY <1>1, <1>4 DEF vars
<1>5. CASE EmitMessage
  <2>1. /\ inject \in Seq(UserMessage) /\ inject # <<>> /\ at' = at /\ at \in {"start", "inject"}
        /\ transcript' = Append(transcript, Head(inject))
    BY <1>5 DEF EmitMessage, Shape, OneSender
  <2>2. Head(inject) \in UserMessage
    BY <2>1
  <2>3. PICK e \in UserMessage : e = Head(inject)
    BY <2>2
  <2>4. e \in Entries /\ e.role # "toolResult"
    BY EntryTypes DEF UserMessage
  <2>. QED  BY <1>3, <2>1, <2>3, <2>4
<1>6. CASE FirstPoll \/ RequestModel \/ BatchDone \/ Finish \/ FollowUp \/ Prepare \/ EndRun
  <2>1. UNCHANGED transcript /\ at' \notin {"tools", "launched"}
    BY <1>6 DEF FirstPoll, RequestModel, BatchDone, Finish, FollowUp, Prepare, EndRun
  <2>. QED  BY <1>2, <2>1
<1>7. CASE Answer
  <2>1. CASE transcript' = Append(transcript, AnswerMessage(FALSE, 0)) /\ at' = "ending"
    <3>1. AnswerMessage(FALSE, 0) \in Entries
      BY EntryTypes
    <3>. QED  BY <1>3, <2>1, <3>1, NoUserEntry
  <2>2. ASSUME NEW n \in Nat, NEW kind \in Kinds,
               transcript' = Append(transcript, AnswerMessage(TRUE, n)),
               at' = IF n = 0 THEN "finish" ELSE "tools",
               batch' = [kind |-> kind, calls |-> [i \in 1..n |-> Waiting]]
        PROVE  Batching' /\ Ordered(transcript')
    <3>. DEFINE e == AnswerMessage(TRUE, n)
                s == transcript
    <3>1. e \in Entries /\ e.role = "assistant" /\ e.calls = n /\ s \in Seq(Entries)
      BY EntryTypes DEF AnswerMessage, Shape
    <3>2. Ordered(transcript')
      BY <2>2, <3>1, OtherKeepsOrder
    <3>4. EndsWith(transcript', n, 0)
      BY <2>2, <3>1, AnswerEnds
    <3>5. Len(batch'.calls) = n /\ Calls' = 1..n
      BY <2>2 DEF Calls
    <3>6. \A i \in 1..n : batch'.calls[i].state = "waiting"
      BY <2>2 DEF Waiting
    <3>7. \A i \in 1..n : batch'.calls[i].state = "answered" <=> i <= 0
      BY <3>6
    <3>8. BatchAt(0)'
      BY <3>4, <3>5, <3>7 DEF BatchAt, StateOf
    <3>9. BegunInOrder'
      BY <3>5, <3>6 DEF BegunInOrder, StateOf
    <3>10. 0 \in Nat
      OBVIOUS
    <3>. QED  BY <3>2, <3>8, <3>9, <3>10 DEF Batching
  <2>. QED  BY <1>7, <2>1, <2>2, AnswerOpens
<1>8. CASE Launch
  <2>1. at \in {"tools", "launched"} /\ UNCHANGED transcript
    BY <1>8 DEF Launch
  <2>2. PICK m \in Nat : BatchAt(m)
    BY <2>1 DEF Batching
  <2>3. BegunInOrder
    BY <2>1 DEF Batching
  <2>4. /\ Calls' = Calls /\ Len(batch'.calls) = Len(batch.calls)
        /\ \A j \in Calls : \/ batch'.calls[j].state = StateOf(j)
                            \/ StateOf(j) = "prepared" /\ batch'.calls[j].state \in {"ended", "running"}
    BY <1>8, LaunchMoves
  <2>5. BatchAt(m)'
    <3>1. \A j \in Calls : StateOf(j) = "answered" <=> j <= m
      BY <2>2 DEF BatchAt
    <3>2. ASSUME NEW j \in Calls
          PROVE  batch'.calls[j].state = "answered" <=> j <= m
      <4>1. \/ batch'.calls[j].state = StateOf(j)
            \/ StateOf(j) = "prepared" /\ batch'.calls[j].state \in {"ended", "running"}
        BY <2>4
      <4>2. StateOf(j) = "answered" <=> j <= m
        BY <3>1
      <4>. QED  BY <4>1, <4>2
    <3>3. EndsWith(transcript', Len(batch'.calls), m)
      BY <2>1, <2>2, <2>4 DEF BatchAt
    <3>4. Calls' = Calls
      BY <2>4
    <3>. QED  BY <3>2, <3>3, <3>4 DEF BatchAt, StateOf
  <2>6. BegunInOrder'
    <3>1. ASSUME NEW k \in Calls, NEW j \in Calls, j < k, batch'.calls[k].state # "waiting"
          PROVE  batch'.calls[j].state # "waiting"
      <4>1. StateOf(k) # "waiting"
        BY <2>4, <3>1
      <4>2. StateOf(j) # "waiting"
        BY <2>3, <3>1, <4>1 DEF BegunInOrder
      <4>. QED  BY <2>4, <4>2
    <3>2. Calls' = Calls
      BY <2>4
    <3>. QED  BY <3>1, <3>2 DEF BegunInOrder, StateOf
  <2>. QED  BY <2>1, <2>5, <2>6 DEF Batching
<1>9. CASE Fail
  <2>1. AnswerMessage(FALSE, 0) \in Entries /\ AnswerMessage(FALSE, 0).role # "toolResult"
    BY EntryTypes, NoUserEntry
  <2>2. /\ transcript' \in {transcript, Append(transcript, AnswerMessage(FALSE, 0))}
        /\ at' \notin {"tools", "launched"}
    BY <1>9 DEF Fail
  <2>. QED  BY <1>2, <1>3, <2>1, <2>2
<1>10. CASE \E i \in Calls : \/ RefuseCall(i) \/ BeginCall(i) \/ PrepareCall(i)
                             \/ FinishCall(i) \/ AnswerCall(i)
  BY <1>10, CallsKeepOrder
<1>11. CASE Prompt \/ ContinueQueued \/ ContinueTranscript
  <2>1. UNCHANGED transcript /\ at' \notin {"tools", "launched"}
    BY <1>11 DEF Prompt, ContinueQueued, ContinueTranscript, Starts
  <2>. QED  BY <1>2, <2>1
<1>12. CASE Reset
  <2>1. transcript' = <<>> /\ at' \notin {"tools", "launched"}
    BY <1>12 DEF Reset, Whereabouts
  <2>2. Ordered(<<>>)
    BY DEF Ordered
  <2>. QED  BY <2>1, <2>2 DEF Batching
<1>14. CASE OmitAnswer
  <2>1. at' \notin {"tools", "launched"}
    BY <1>14 DEF OmitAnswer, Whereabouts
  <2>2. PICK k \in DOMAIN transcript : transcript' = SubSeq(transcript, 1, k - 1)
    BY <1>14 DEF OmitAnswer
  <2>3. Ordered(transcript')
    BY <2>2, PrefixKeepsOrder DEF Shape
  <2>. QED  BY <2>1, <2>3 DEF Batching
<1>13. CASE Abort \/ \E q \in Queues : Queue(q) \/ Clear(q)
  <2>1. UNCHANGED <<transcript, batch, at>>
    BY <1>13 DEF Abort, Queue, Clear
  <2>. QED  BY <1>1, <2>1
<1>. QED
  BY <1>4, <1>5, <1>6, <1>7, <1>8, <1>9, <1>10, <1>11, <1>12, <1>13, <1>14, StepKinds

LEMMA InitOrder == Init => Batching /\ Ordered(transcript)
BY DEF Init, Batching, Ordered

LEMMA OrderedResults == Ordered(transcript) => ResultsInOrder
<1>. SUFFICES ASSUME Ordered(transcript), NEW k \in DOMAIN transcript,
                     transcript[k].role = "toolResult"
              PROVE  LET first == k - transcript[k].call
                     IN /\ first >= 1
                        /\ IsAnswer(first)
                        /\ transcript[first].calls >= transcript[k].call
                        /\ \A j \in (first + 1)..k : transcript[j] = ResultMessage(j - first)
  BY DEF ResultsInOrder
<1>. QED  BY DEF Ordered, OrderedAt, OrderedFrom, IsAnswer

\* Every tool result of the transcript stands behind the answer that called it, in the
\* order of its calls (ResultsInOrder, agent-loop.ts:614-651), for any number of calls
\* that run in any order, are refused, blocked or aborted.
THEOREM ResultsStayInOrder == Spec => []ResultsInOrder
<1>. DEFINE I == Shape /\ Whereabouts /\ Batching /\ Ordered(transcript)
<1>1. Init => I
  BY InitShape, InitOrder
<1>2. I /\ [Next]_vars => I'
  BY ShapeStep, OrderStep
<1>3. I => ResultsInOrder
  BY OrderedResults
<1>. QED  BY <1>1, <1>2, <1>3, PTL DEF Spec

-------------------------------------------------------------------------------
(* Requests. *)

\* The answer at k has a result for each of its calls.
Answered(s, k) ==
    \A i \in 1..s[k].calls : k + i \in DOMAIN s /\ s[k + i] = ResultMessage(i)

\* So have all answers after b, but perhaps the last one while its batch is open.
WholeFrom(s, b, open) ==
    \A k \in DOMAIN s :
      k > b /\ s[k].role = "assistant" =>
        \/ Answered(s, k)
        \/ open /\ \A j \in DOMAIN s : j > k => s[j].role # "assistant"

\* The conversation of a run that nobody aborted.
Whole ==
    run.active /\ ~run.aborted /\ at \notin {"ending", "failed"} =>
      WholeFrom(transcript, run.base, at \in {"tools", "launched"})

\* What follows an answered answer does not disturb it.
LEMMA AnsweredStays ==
    ASSUME NEW s \in Seq(Entries), NEW e \in Entries, NEW k \in 1..Len(s), Answered(s, k)
    PROVE  Answered(Append(s, e), k)
<1>. DEFINE t == Append(s, e)
<1>1. /\ Len(s) \in Nat /\ DOMAIN s = 1..Len(s) /\ DOMAIN t = 1..(Len(s) + 1)
      /\ \A i \in 1..Len(s) : t[i] = s[i]
  BY AppendAt
<1>. HIDE DEF t
<1>2. t[k].calls = s[k].calls
  BY <1>1
<1>3. ASSUME NEW i \in 1..s[k].calls
      PROVE  k + i \in DOMAIN t /\ t[k + i] = ResultMessage(i)
  <2>1. k + i \in DOMAIN s /\ s[k + i] = ResultMessage(i)
    BY DEF Answered
  <2>. QED  BY <1>1, <2>1
<1>4. Answered(t, k)
  BY <1>2, <1>3 DEF Answered
<1>. QED  BY <1>4 DEF t

\* A message or a result leaves whole what was whole.
LEMMA WholeStays ==
    ASSUME NEW s \in Seq(Entries), NEW e \in Entries, NEW b, NEW open \in BOOLEAN,
           WholeFrom(s, b, open), e.role # "assistant"
    PROVE  WholeFrom(Append(s, e), b, open)
<1>. DEFINE t == Append(s, e)
<1>1. /\ Len(s) \in Nat /\ DOMAIN s = 1..Len(s) /\ DOMAIN t = 1..(Len(s) + 1)
      /\ (\A i \in 1..Len(s) : t[i] = s[i]) /\ t[Len(s) + 1] = e
  BY AppendAt
<1>2. \A k \in 1..Len(s) : Answered(s, k) => Answered(t, k)
  BY AnsweredStays
<1>. HIDE DEF t
<1>3. SUFFICES ASSUME NEW k \in DOMAIN t, k > b, t[k].role = "assistant"
               PROVE  \/ Answered(t, k)
                      \/ open /\ \A j \in DOMAIN t : j > k => t[j].role # "assistant"
  BY DEF WholeFrom, t
<1>4. k \in 1..Len(s) /\ s[k].role = "assistant"
  BY <1>1, <1>3
<1>5. CASE Answered(s, k)
  BY <1>2, <1>4, <1>5
<1>6. CASE open /\ \A j \in DOMAIN s : j > k => s[j].role # "assistant"
  <2>1. ASSUME NEW j \in DOMAIN t, j > k
        PROVE  t[j].role # "assistant"
    <3>1. CASE j \in 1..Len(s)  BY <1>1, <1>6, <2>1, <3>1
    <3>2. CASE j = Len(s) + 1  BY <1>1, <3>2
    <3>. QED  BY <1>1, <3>1, <3>2
  <2>. QED  BY <1>6, <2>1
<1>. QED  BY <1>1, <1>3, <1>4, <1>5, <1>6 DEF WholeFrom

\* An answer with calls opens a batch, one without is whole at once.
LEMMA WholeOpens ==
    ASSUME NEW s \in Seq(Entries), NEW n \in Nat, NEW b, WholeFrom(s, b, FALSE)
    PROVE  WholeFrom(Append(s, AnswerMessage(TRUE, n)), b, n # 0)
<1>. DEFINE e == AnswerMessage(TRUE, n)
            t == Append(s, e)
<1>1. e \in Entries /\ e.calls = n
  BY EntryTypes DEF AnswerMessage
<1>. HIDE DEF e
<1>2. /\ Len(s) \in Nat /\ DOMAIN s = 1..Len(s) /\ DOMAIN t = 1..(Len(s) + 1)
      /\ (\A i \in 1..Len(s) : t[i] = s[i]) /\ t[Len(s) + 1] = e
  BY <1>1, AppendAt
<1>3. \A k \in 1..Len(s) : Answered(s, k) => Answered(t, k)
  BY <1>1, AnsweredStays
<1>. HIDE DEF t
<1>4. ASSUME NEW k \in DOMAIN t, k > b, t[k].role = "assistant"
      PROVE  \/ Answered(t, k)
             \/ n # 0 /\ \A j \in DOMAIN t : j > k => t[j].role # "assistant"
  <2>1. CASE k \in 1..Len(s)
    <3>1. Answered(s, k)
      BY <1>2, <1>4, <2>1 DEF WholeFrom
    <3>. QED  BY <1>3, <2>1, <3>1
  <2>2. CASE k = Len(s) + 1
    <3>1. \A j \in DOMAIN t : ~(j > k)
      BY <1>2, <2>2
    <3>2. CASE n = 0
      <4>1. t[k].calls = 0
        BY <1>1, <1>2, <2>2, <3>2
      <4>. QED  BY <4>1 DEF Answered
    <3>. QED  BY <3>1, <3>2
  <2>. QED  BY <1>2, <2>1, <2>2
<1>5. WholeFrom(t, b, n # 0)
  BY <1>4 DEF WholeFrom
<1>. QED  BY <1>5 DEF t, e

\* A batch with all its results closes.
LEMMA WholeCloses ==
    ASSUME NEW s \in Seq(Entries), NEW n \in Nat, NEW b, WholeFrom(s, b, TRUE),
           EndsWith(s, n, n)
    PROVE  WholeFrom(s, b, FALSE)
<1>1. Len(s) \in Nat /\ DOMAIN s = 1..Len(s)
  OBVIOUS
<1>2. PICK p \in Nat : p = Len(s) - n /\ p >= 1
  <2>1. Len(s) - n >= 1
    BY DEF EndsWith
  <2>2. Len(s) - n \in Nat
    BY <1>1, <2>1
  <2>. QED  BY <2>1, <2>2
<1>3. /\ s[p].role = "assistant" /\ s[p].calls = n
      /\ \A j \in 1..n : s[p + j] = ResultMessage(j)
  BY <1>2 DEF EndsWith
<1>4. p \in DOMAIN s /\ Len(s) = p + n
  BY <1>1, <1>2
<1>5. Answered(s, p)
  BY <1>1, <1>3, <1>4 DEF Answered
<1>6. ASSUME NEW k \in DOMAIN s, k > p
      PROVE  s[k].role # "assistant"
  <2>1. PICK j \in 1..n : k = p + j
    <3>1. k - p \in 1..n /\ k = p + (k - p)
      BY <1>1, <1>4, <1>6
    <3>. QED  BY <3>1
  <2>2. s[k] = ResultMessage(j)
    BY <1>3, <2>1
  <2>. QED  BY <2>2 DEF ResultMessage
<1>7. ASSUME NEW k \in DOMAIN s, k > b, s[k].role = "assistant"
      PROVE  Answered(s, k)
  <2>1. CASE Answered(s, k)
    BY <2>1
  <2>2. CASE \A j \in DOMAIN s : j > k => s[j].role # "assistant"
    <3>1. ~(p > k) /\ ~(k > p)
      BY <1>3, <1>4, <1>6, <1>7, <2>2
    <3>2. k = p
      BY <1>1, <3>1
    <3>. QED  BY <1>5, <3>2
  <2>. QED  BY <1>7, <2>1, <2>2 DEF WholeFrom
<1>. QED  BY <1>7 DEF WholeFrom

LEMMA WholeStep ==
    ASSUME Shape, Whereabouts, Batching, Whole, [Next]_vars
    PROVE  Whole'
<1>. DEFINE open == at \in {"tools", "launched"}
<1>0. transcript \in Seq(Entries) /\ open \in BOOLEAN
  BY DEF Shape
<1>. SUFFICES ASSUME run'.active, ~run'.aborted, at' \notin {"ending", "failed"}
              PROVE  WholeFrom(transcript', run'.base, (at \in {"tools", "launched"})')
  BY DEF Whole
<1>1. ASSUME UNCHANGED <<transcript, run>>, at \notin {"ending", "failed"},
             (at' \in {"tools", "launched"}) <=> open
      PROVE  WholeFrom(transcript', run'.base, (at \in {"tools", "launched"})')
  <2>1. WholeFrom(transcript, run.base, open)
    BY <1>1 DEF Whole
  <2>. QED  BY <1>1, <2>1 DEF WholeFrom
<1>2. ASSUME NEW e \in Entries, e.role # "assistant", transcript' = Append(transcript, e),
             UNCHANGED <<run, at>>
      PROVE  WholeFrom(transcript', run'.base, (at \in {"tools", "launched"})')
  <2>1. WholeFrom(transcript, run.base, open)
    BY <1>2 DEF Whole
  <2>. HIDE DEF open
  <2>2. WholeFrom(Append(transcript, e), run.base, open)
    BY <1>0, <1>2, <2>1, WholeStays
  <2>. QED  BY <1>2, <2>2 DEF open
<1>3. CASE UNCHANGED vars
  BY <1>1, <1>3 DEF vars
<1>4. CASE EmitMessage
  <2>1. /\ inject \in Seq(UserMessage) /\ inject # <<>> /\ UNCHANGED <<run, at>>
        /\ transcript' = Append(transcript, Head(inject))
    BY <1>4 DEF EmitMessage, Shape, OneSender
  <2>2. PICK e \in UserMessage : e = Head(inject)
    BY <2>1
  <2>3. e \in Entries /\ e.role # "assistant"
    BY EntryTypes DEF UserMessage
  <2>. QED  BY <1>2, <2>1, <2>2, <2>3
<1>5. CASE FirstPoll \/ RequestModel \/ Finish \/ FollowUp \/ Prepare
  <2>1. /\ UNCHANGED <<transcript, run>> /\ at \notin {"ending", "failed"}
        /\ at \notin {"tools", "launched"} /\ at' \notin {"tools", "launched"}
    BY <1>5 DEF FirstPoll, RequestModel, Finish, FollowUp, Prepare
  <2>. QED  BY <1>1, <2>1
<1>6. CASE Answer
  <2>1. at = "request" /\ UNCHANGED run
    BY <1>6 DEF Answer
  <2>2. WholeFrom(transcript, run.base, FALSE)
    BY <2>1 DEF Whole, WholeFrom
  <2>3. PICK n \in Nat : /\ transcript' = Append(transcript, AnswerMessage(TRUE, n))
                         /\ at' = IF n = 0 THEN "finish" ELSE "tools"
    BY <1>6, AnswerOpens
  <2>4. WholeFrom(transcript', run'.base, n # 0)
    BY <1>0, <2>1, <2>2, <2>3, WholeOpens
  <2>5. (at' \in {"tools", "launched"}) <=> n # 0
    BY <2>3
  <2>. QED  BY <2>4, <2>5 DEF WholeFrom
<1>7. CASE Launch
  <2>1. UNCHANGED <<transcript, run>> /\ open /\ at' = "launched"
    BY <1>7 DEF Launch
  <2>. QED  BY <1>1, <2>1
<1>8. CASE BatchDone
  <2>1. /\ open /\ at' = "finish" /\ UNCHANGED <<transcript, run>>
        /\ BatchIsDone /\ \A i \in Begun : StateOf(i) = "answered"
    BY <1>8 DEF BatchDone
  <2>2. Begun = Calls /\ \A i \in Calls : StateOf(i) = "answered"
    BY <2>1 DEF BatchIsDone
  <2>3. PICK m \in Nat : BatchAt(m)
    BY <2>1 DEF Batching
  <2>4. EndsWith(transcript, Len(batch.calls), m) /\ \A i \in Calls : i <= m
    BY <2>2, <2>3 DEF BatchAt
  <2>5. PICK n \in Nat : n = Len(batch.calls) /\ Calls = 1..n
    BY CallTypes
  <2>6. m = n
    <3>1. m <= n
      BY <2>4, <2>5 DEF EndsWith
    <3>2. n <= m
      BY <2>4, <2>5
    <3>. QED  BY <3>1, <3>2
  <2>7. WholeFrom(transcript, run.base, TRUE)
    BY <2>1 DEF Whole, WholeFrom
  <2>8. WholeFrom(transcript, run.base, FALSE)
    BY <1>0, <2>4, <2>5, <2>6, <2>7, WholeCloses
  <2>. QED  BY <2>1, <2>8 DEF WholeFrom
<1>9. CASE EndRun \/ Fail
  <2>1. CASE EndRun
    BY <2>1 DEF EndRun, NoRun
  <2>2. CASE Fail
    BY <2>2 DEF Fail
  <2>. QED  BY <1>9, <2>1, <2>2
<1>10. CASE \E i \in Calls : \/ RefuseCall(i) \/ BeginCall(i) \/ PrepareCall(i)
                             \/ FinishCall(i) \/ AnswerCall(i)
  <2>1. PICK i \in Calls : \/ RefuseCall(i) \/ BeginCall(i) \/ PrepareCall(i)
                           \/ FinishCall(i) \/ AnswerCall(i)
    BY <1>10
  <2>2. UNCHANGED <<run, at>> /\ open
    BY <2>1 DEF RefuseCall, BeginCall, PrepareCall, FinishCall, AnswerCall, MayAnswer
  <2>3. CASE UNCHANGED transcript
    BY <1>1, <2>2, <2>3
  <2>4. CASE transcript' = Append(transcript, ResultMessage(i))
    <3>1. i \in Nat \ {0}
      BY CallTypes
    <3>2. PICK e \in Entries : e = ResultMessage(i)
      BY <3>1, EntryTypes
    <3>3. e.role # "assistant"
      BY <3>2 DEF ResultMessage
    <3>. QED  BY <1>2, <2>2, <2>4, <3>2, <3>3
  <2>. QED  BY <2>1, <2>3, <2>4
       DEF RefuseCall, BeginCall, PrepareCall, FinishCall, AnswerCall
<1>11. CASE Prompt \/ ContinueQueued \/ ContinueTranscript
  <2>1. run'.base = Len(transcript) /\ UNCHANGED transcript
    BY <1>11 DEF Prompt, ContinueQueued, ContinueTranscript, Starts, NewRun
  <2>2. \A k \in DOMAIN transcript : ~(k > Len(transcript))
    BY <1>0
  <2>. QED  BY <2>1, <2>2 DEF WholeFrom
<1>12. CASE Reset \/ OmitAnswer \/ Abort
  BY <1>12 DEF Reset, OmitAnswer, Abort, Shape
<1>13. CASE \E q \in Queues : Queue(q) \/ Clear(q)
  <2>1. UNCHANGED <<transcript, run, at>>
    BY <1>13 DEF Queue, Clear
  <2>. QED  BY <1>1, <2>1
<1>. QED
  BY <1>3, <1>4, <1>5, <1>6, <1>7, <1>8, <1>9, <1>10, <1>11, <1>12, <1>13, StepKinds

\* A run that nobody aborted asks the model again only when each tool call of its
\* earlier answers has its result (RequestsAreComplete, agent-loop.ts, runLoop), for any
\* number of calls and turns and whatever is queued meanwhile.
THEOREM RequestsStayComplete == Spec => []RequestsAreComplete
<1>. DEFINE I == Shape /\ Whereabouts /\ Batching /\ Ordered(transcript) /\ Whole
<1>1. Init => I
  <2>1. Init => Whole
    BY DEF Init, Whole, NoRun
  <2>. QED  BY <2>1, InitShape, InitOrder
<1>2. I /\ [Next]_vars => I'
  BY ShapeStep, OrderStep, WholeStep
<1>3. I => RequestsAreComplete
  <2>. SUFFICES ASSUME I, at = "request", ~run.aborted,
                       NEW k \in (run.base + 1)..Len(transcript), IsAnswer(k),
                       NEW i \in 1..transcript[k].calls
                PROVE  k + i \in DOMAIN transcript /\ transcript[k + i] = ResultMessage(i)
    BY DEF RequestsAreComplete
  <2>1. run.active /\ WholeFrom(transcript, run.base, FALSE)
    BY DEF Whole, WholeFrom, Whereabouts
  <2>2. k \in DOMAIN transcript /\ k > run.base
    BY DEF Shape
  <2>3. Answered(transcript, k)
    BY <2>1, <2>2 DEF WholeFrom, IsAnswer
  <2>. QED  BY <2>3 DEF Answered
<1>. QED  BY <1>1, <1>2, <1>3, PTL DEF Spec

===============================================================================
