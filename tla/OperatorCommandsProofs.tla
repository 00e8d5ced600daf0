------------------------ MODULE OperatorCommandsProofs ------------------------
(*****************************************************************************)
(* Proofs about OperatorCommands: the queues implement CommandReceipts, for  *)
(* every set of ids and every interleaving of requests, boundaries, ends of  *)
(* the run and resets; and an edit belongs to the episode it was sent to.    *)
(*****************************************************************************)
EXTENDS OperatorCommands, TLAPS

-------------------------------------------------------------------------------
(* Sequences without repetitions. *)

Distinct(s) == \A i, j \in DOMAIN s : s[i] = s[j] => i = j

\* Taking the head of a sequence without repetitions takes its element out.
LEMMA TailMembers ==
    ASSUME NEW S, NEW s \in Seq(S), s # <<>>, Distinct(s)
    PROVE  /\ Head(s) \in S /\ Head(s) \in Members(s)
           /\ Tail(s) \in Seq(S) /\ Distinct(Tail(s))
           /\ Members(Tail(s)) = Members(s) \ {Head(s)}
<1>1. /\ Len(s) \in Nat \ {0} /\ DOMAIN s = 1..Len(s)
      /\ Head(s) = s[1] /\ Tail(s) \in Seq(S)
      /\ Len(Tail(s)) = Len(s) - 1 /\ DOMAIN Tail(s) = 1..(Len(s) - 1)
      /\ \A i \in 1..(Len(s) - 1) : Tail(s)[i] = s[i + 1]
  OBVIOUS
<1>2. Head(s) \in S /\ Head(s) \in Members(s)
  BY <1>1 DEF Members
<1>3. Distinct(Tail(s))
  <2>. SUFFICES ASSUME NEW i \in DOMAIN Tail(s), NEW j \in DOMAIN Tail(s),
                       Tail(s)[i] = Tail(s)[j]
                PROVE  i = j
    BY DEF Distinct
  <2>1. i + 1 \in DOMAIN s /\ j + 1 \in DOMAIN s /\ s[i + 1] = s[j + 1]
    BY <1>1
  <2>2. i + 1 = j + 1
    BY <2>1 DEF Distinct
  <2>. QED  BY <1>1, <2>2
<1>4. Members(Tail(s)) \subseteq Members(s) \ {Head(s)}
  <2>. SUFFICES ASSUME NEW i \in DOMAIN Tail(s)
                PROVE  Tail(s)[i] \in Members(s) \ {Head(s)}
    BY DEF Members
  <2>1. i + 1 \in DOMAIN s /\ 1 \in DOMAIN s /\ i + 1 # 1 /\ Tail(s)[i] = s[i + 1]
    BY <1>1
  <2>2. s[i + 1] # s[1]
    BY <2>1 DEF Distinct
  <2>. QED  BY <1>1, <2>1, <2>2 DEF Members
<1>5. Members(s) \ {Head(s)} \subseteq Members(Tail(s))
  <2>. SUFFICES ASSUME NEW i \in DOMAIN s, s[i] # Head(s)
                PROVE  s[i] \in Members(Tail(s))
    BY DEF Members
  <2>1. i - 1 \in DOMAIN Tail(s) /\ Tail(s)[i - 1] = s[i]
    BY <1>1
  <2>. QED  BY <2>1 DEF Members
<1>. QED  BY <1>1, <1>2, <1>3, <1>4, <1>5

\* Appending a new element keeps a sequence free of repetitions.
LEMMA AppendMembers ==
    ASSUME NEW S, NEW s \in Seq(S), NEW e \in S, Distinct(s), e \notin Members(s)
    PROVE  /\ Append(s, e) \in Seq(S) /\ Distinct(Append(s, e))
           /\ Members(Append(s, e)) = Members(s) \cup {e}
<1>1. /\ Len(s) \in Nat /\ DOMAIN s = 1..Len(s) /\ Append(s, e) \in Seq(S)
      /\ DOMAIN Append(s, e) = 1..(Len(s) + 1)
      /\ \A i \in 1..Len(s) : Append(s, e)[i] = s[i]
      /\ Append(s, e)[Len(s) + 1] = e
  OBVIOUS
<1>2. \A i \in DOMAIN s : s[i] # e
  BY DEF Members
<1>3. Distinct(Append(s, e))
  <2>. SUFFICES ASSUME NEW i \in 1..(Len(s) + 1), NEW j \in 1..(Len(s) + 1),
                       Append(s, e)[i] = Append(s, e)[j]
                PROVE  i = j
    BY <1>1 DEF Distinct
  <2>1. CASE i \in 1..Len(s) /\ j \in 1..Len(s)
    <3>1. s[i] = s[j] /\ i \in DOMAIN s /\ j \in DOMAIN s
      BY <1>1, <2>1
    <3>. QED  BY <3>1 DEF Distinct
  <2>2. CASE i = Len(s) + 1 /\ j \in 1..Len(s)
    BY <1>1, <1>2, <2>2
  <2>3. CASE i \in 1..Len(s) /\ j = Len(s) + 1
    BY <1>1, <1>2, <2>3
  <2>4. CASE i = Len(s) + 1 /\ j = Len(s) + 1
    BY <2>4
  <2>. QED  BY <1>1, <2>1, <2>2, <2>3, <2>4
<1>4. Members(Append(s, e)) = Members(s) \cup {e}
  <2>1. Members(Append(s, e)) \subseteq Members(s) \cup {e}
    <3>. SUFFICES ASSUME NEW i \in 1..(Len(s) + 1)
                  PROVE  Append(s, e)[i] \in Members(s) \cup {e}
      BY <1>1 DEF Members
    <3>1. CASE i \in 1..Len(s)  BY <1>1, <3>1 DEF Members
    <3>2. CASE i = Len(s) + 1  BY <1>1, <3>2
    <3>. QED  BY <1>1, <3>1, <3>2
  <2>2. \A x \in Members(s) : x \in Members(Append(s, e))
    <3>. SUFFICES ASSUME NEW i \in DOMAIN s PROVE s[i] \in Members(Append(s, e))
      BY DEF Members
    <3>1. i \in DOMAIN Append(s, e) /\ Append(s, e)[i] = s[i]
      BY <1>1
    <3>. QED  BY <3>1 DEF Members
  <2>3. e \in Members(Append(s, e))
    <3>1. Len(s) + 1 \in DOMAIN Append(s, e)
      BY <1>1
    <3>. QED  BY <1>1, <3>1 DEF Members
  <2>. QED  BY <2>1, <2>2, <2>3
<1>. QED  BY <1>1, <1>3, <1>4

-------------------------------------------------------------------------------
(* The inductive invariant. *)

IntentRecord ==
    [revision : Nat \ {0}, expires : Nat, lifecycle : {"active", "cancelled", "expired"}]

Edit == [intent : Nat, revision : Nat]

Types ==
    /\ episode \in 1..MaxEpisodes /\ clock \in 0..Steps
    /\ status \in {"running", "paused_model", "finished"}
    /\ intents \in Seq(IntentRecord)
    /\ pending \in [Queues -> Seq(Ids)]
    /\ commands \in [Queues -> [Ids -> Stored \cup {NoCommand}]]
    /\ results \in [Queues -> [Ids -> {"none", "queued", "applied", "rejected"}]]
    /\ effects \in [Queues -> [Ids -> Seq(Edit)]]
    /\ retired \subseteq Ids
    /\ thread \in [at : Queues \cup {"boundary", "tick", "resetting", "closed"},
                   batch : Seq(Ids), stepping : BOOLEAN, closing : BOOLEAN]
    /\ request \in Request \cup {NoRequest}

\* Only a run that is being stepped has time left to tick; a closing run is
\* finished; a batch exists only while a queue is worked off.
ThreadInv ==
    /\ thread.at \notin Queues => thread.batch = <<>>
    /\ thread.closing => status = "finished"
    /\ thread.at = "tick" \/ (thread.at \in Queues /\ thread.stepping) => clock < Steps
    /\ thread.at = "resetting" => episode < MaxEpisodes

\* An id is in at most one place, and there exactly while its receipt says that
\* it is queued; only applied commands have had an effect.
QueueInv ==
    \A q \in Queues :
      /\ Len(pending[q]) <= QueueLimit
      /\ Distinct(pending[q])
      /\ thread.at = q => /\ Distinct(thread.batch)
                          /\ Members(thread.batch) \cap Members(pending[q]) = {}
      /\ \A id \in Ids :
           /\ results[q][id] = "queued" <=> id \in Waiting(q)
           /\ results[q][id] = "none" <=> commands[q][id] = NoCommand
           /\ effects[q][id] # <<>> => /\ results[q][id] = "applied"
                                       /\ commands[q][id].episode = episode

\* Each queue only holds commands of its own kind.
KindInv ==
    /\ request # NoRequest => request.command \in CommandsOf(request.queue)
    /\ \A q \in Queues, id \in Ids :
         commands[q][id] # NoCommand => commands[q][id].command \in CommandsOf(q)

IInv == Types /\ ThreadInv /\ QueueInv /\ KindInv

-------------------------------------------------------------------------------
(* Steps of the queues are steps of CommandReceipts. *)

\* Queueing an id that was never used accepts its command.
LEMMA AcceptStep ==
    ASSUME Types, NEW q \in Queues, NEW id \in Ids, results[q][id] = "none",
           results' = [results EXCEPT ![q][id] = "queued"], UNCHANGED effects
    PROVE  Receipts!Accept(q, id)
BY DEF Types, Receipts!Accept

\* Appending an edit to one command of one queue, read at every command.
LEMMA AppendAt ==
    ASSUME effects \in [Queues -> [Ids -> Seq(Edit)]],
           NEW q \in Queues, NEW id \in Ids, NEW edit \in Edit,
           effects' = [effects EXCEPT ![q][id] = Append(@, edit)]
    PROVE  /\ effects' \in [Queues -> [Ids -> Seq(Edit)]]
           /\ effects'[q][id] = Append(effects[q][id], edit)
           /\ \A n \in Queues \ {q} : effects'[n] = effects[n]
           /\ \A i \in Ids \ {id} : effects'[q][i] = effects[q][i]
           /\ Len(effects'[q][id]) = Len(effects[q][id]) + 1
<1>. DEFINE row == [effects[q] EXCEPT ![id] = Append(effects[q][id], edit)]
<1>1. effects[q] \in [Ids -> Seq(Edit)] /\ effects[q][id] \in Seq(Edit)
  OBVIOUS
<1>2. /\ Append(effects[q][id], edit) \in Seq(Edit)
      /\ Len(Append(effects[q][id], edit)) = Len(effects[q][id]) + 1
  BY <1>1
<1>3. row \in [Ids -> Seq(Edit)]
  BY <1>1, <1>2
<1>4. row[id] = Append(effects[q][id], edit) /\ \A i \in Ids \ {id} : row[i] = effects[q][i]
  BY <1>1
<1>5. effects' = [effects EXCEPT ![q] = row]
  OBVIOUS
<1>. HIDE DEF row
<1>6. /\ effects' \in [Queues -> [Ids -> Seq(Edit)]]
      /\ effects'[q] = row /\ \A n \in Queues \ {q} : effects'[n] = effects[n]
  BY <1>3, <1>5
<1>. QED  BY <1>2, <1>4, <1>6

\* Completing a waiting command as applied, with its edit, carries it out.
LEMMA CarryOutStep ==
    ASSUME Types, NEW q \in Queues, NEW id \in Ids, NEW edit \in Edit,
           results[q][id] = "queued",
           results' = [results EXCEPT ![q][id] = "applied"],
           effects' = [effects EXCEPT ![q][id] = Append(@, edit)]
    PROVE  Receipts!CarryOut(q, id)
<1>1. effects \in [Queues -> [Ids -> Seq(Edit)]]
  BY DEF Types
<1>2. /\ \A n \in Queues \ {q} : effects'[n] = effects[n]
      /\ \A i \in Ids \ {id} : effects'[q][i] = effects[q][i]
      /\ Len(effects'[q][id]) = Len(effects[q][id]) + 1
  BY <1>1, AppendAt
<1>3. results \in [Queues -> [Ids -> {"none", "queued", "applied", "rejected"}]]
  BY DEF Types
<1>. QED  BY <1>1, <1>2, <1>3 DEF Receipts!CarryOut

\* Completing a waiting command as rejected refuses it.
LEMMA RefuseStep ==
    ASSUME Types, NEW q \in Queues, NEW id \in Ids, results[q][id] = "queued",
           results' = [results EXCEPT ![q][id] = "rejected"], UNCHANGED effects
    PROVE  \E refused \in [Queues -> SUBSET Ids] : Receipts!Refuse(refused)
<1>. DEFINE refused == [n \in Queues |-> IF n = q THEN {id} ELSE {}]
<1>1. refused \in [Queues -> SUBSET Ids]
  OBVIOUS
<1>2. Receipts!Refuse(refused)
  BY DEF Types, Receipts!Refuse
<1>. QED  BY <1>1, <1>2

-------------------------------------------------------------------------------
(* The inductive invariant is preserved. *)

\* The head of a batch waits, so its receipt says queued and a command is stored.
LEMMA HeadWaits ==
    ASSUME IInv, NEW q \in Queues, thread.at = q, thread.batch # <<>>
    PROVE  /\ Head(thread.batch) \in Ids
           /\ results[q][Head(thread.batch)] = "queued"
           /\ Given(q) \in Stored /\ Given(q).command \in CommandsOf(q)
<1>1. thread.batch \in Seq(Ids) /\ Distinct(thread.batch)
  BY DEF IInv, Types, QueueInv
<1>2. Head(thread.batch) \in Ids /\ Head(thread.batch) \in Members(thread.batch)
  BY <1>1, TailMembers
<1>3. results[q][Head(thread.batch)] = "queued"
  BY <1>2 DEF IInv, QueueInv, Waiting
<1>4. commands[q][Head(thread.batch)] # NoCommand
  BY <1>2, <1>3 DEF IInv, QueueInv
<1>. QED  BY <1>2, <1>3, <1>4 DEF IInv, Types, KindInv, Given

\* Completing the head of the batch keeps the queues in order.
LEMMA CompleteKeepsQueues ==
    ASSUME IInv, NEW q \in Queues, thread.at = q, thread.batch # <<>>,
           NEW result \in {"applied", "rejected"}, Complete(q, result),
           \/ effects' = effects
           \/ /\ result = "applied" /\ commands[q][Head(thread.batch)].episode = episode
              /\ \E edit \in Edit :
                   effects' = [effects EXCEPT ![q][Head(thread.batch)] = Append(@, edit)],
           UNCHANGED <<episode, pending, commands>>
    PROVE  /\ QueueInv'
           /\ thread'.at = q /\ thread'.closing = thread.closing
           /\ thread'.stepping = thread.stepping
           /\ thread' \in [at : Queues \cup {"boundary", "tick", "resetting", "closed"},
                           batch : Seq(Ids), stepping : BOOLEAN, closing : BOOLEAN]
           /\ results' \in [Queues -> [Ids -> {"none", "queued", "applied", "rejected"}]]
           /\ effects' \in [Queues -> [Ids -> Seq(Edit)]]
<1>. DEFINE head == Head(thread.batch)
            rest == Tail(thread.batch)
<1>1. thread.batch \in Seq(Ids) /\ Distinct(thread.batch)
  BY DEF IInv, Types, QueueInv
<1>2. /\ head \in Ids /\ head \in Members(thread.batch)
      /\ rest \in Seq(Ids) /\ Distinct(rest)
      /\ Members(rest) = Members(thread.batch) \ {head}
  BY <1>1, TailMembers
<1>3. results[q][head] = "queued"
  BY HeadWaits
<1>4. thread' = [thread EXCEPT !.batch = rest]
  BY DEF Complete
<1>5. /\ thread'.at = q /\ thread'.batch = rest
      /\ thread'.closing = thread.closing /\ thread'.stepping = thread.stepping
      /\ thread' \in [at : Queues \cup {"boundary", "tick", "resetting", "closed"},
                      batch : Seq(Ids), stepping : BOOLEAN, closing : BOOLEAN]
  BY <1>2, <1>4 DEF IInv, Types
<1>6. /\ results' \in [Queues -> [Ids -> {"none", "queued", "applied", "rejected"}]]
      /\ results'[q][head] = result
      /\ \A n \in Queues, id \in Ids :
           n # q \/ id # head => results'[n][id] = results[n][id]
  BY <1>2 DEF Complete, IInv, Types
<1>7. /\ effects' \in [Queues -> [Ids -> Seq(Edit)]]
      /\ \A n \in Queues, id \in Ids :
           n # q \/ id # head => effects'[n][id] = effects[n][id]
      /\ effects'[q][head] # effects[q][head] =>
           result = "applied" /\ commands[q][head].episode = episode
  <2>1. effects \in [Queues -> [Ids -> Seq(Edit)]]
    BY DEF IInv, Types
  <2>2. CASE effects' = effects
    BY <2>1, <2>2
  <2>3. ASSUME NEW edit \in Edit, effects' = [effects EXCEPT ![q][head] = Append(@, edit)],
               result = "applied", commands[q][head].episode = episode
        PROVE  /\ effects' \in [Queues -> [Ids -> Seq(Edit)]]
               /\ \A n \in Queues, id \in Ids :
                    n # q \/ id # head => effects'[n][id] = effects[n][id]
    <3>. head \in Ids
      BY <1>2
    <3>. HIDE DEF head
    <3>1. effects[q][head] \in Seq(Edit)
      BY <2>1
    <3>2. Append(effects[q][head], edit) \in Seq(Edit)
      BY <3>1
    <3>3. effects' \in [Queues -> [Ids -> Seq(Edit)]]
      BY <2>1, <2>3, <3>2
    <3>4. \A n \in Queues, id \in Ids : n # q \/ id # head => effects'[n][id] = effects[n][id]
      BY <2>1, <2>3
    <3>. QED  BY <3>3, <3>4
  <2>4. \/ effects' = effects
        \/ \E edit \in Edit : /\ effects' = [effects EXCEPT ![q][head] = Append(@, edit)]
                               /\ result = "applied" /\ commands[q][head].episode = episode
    OBVIOUS
  <2>. QED  BY <2>2, <2>3, <2>4
<1>8. ASSUME NEW n \in Queues
      PROVE  /\ Len(pending'[n]) <= QueueLimit
             /\ Distinct(pending'[n])
             /\ thread'.at = n => /\ Distinct(thread'.batch)
                                  /\ Members(thread'.batch) \cap Members(pending'[n]) = {}
  <2>1. /\ Len(pending[n]) <= QueueLimit /\ Distinct(pending[n])
        /\ thread.at = n => Members(thread.batch) \cap Members(pending[n]) = {}
    BY DEF IInv, QueueInv
  <2>2. pending' = pending
    OBVIOUS
  <2>. HIDE DEF head, rest
  <2>. QED  BY <1>2, <1>5, <2>1, <2>2
<1>9. ASSUME NEW n \in Queues, NEW id \in Ids
      PROVE  /\ results'[n][id] = "queued" <=> id \in Waiting(n)'
             /\ results'[n][id] = "none" <=> commands'[n][id] = NoCommand
             /\ effects'[n][id] # <<>> => /\ results'[n][id] = "applied"
                                          /\ commands'[n][id].episode = episode'
  <2>0. /\ results[n][id] = "queued" <=> id \in Waiting(n)
        /\ results[n][id] = "none" <=> commands[n][id] = NoCommand
        /\ effects[n][id] # <<>> => /\ results[n][id] = "applied"
                                    /\ commands[n][id].episode = episode
    BY DEF IInv, QueueInv
  <2>1. CASE n = q /\ id = head
    <3>1. id \notin Waiting(n)'
      BY <1>2, <1>5, <2>1 DEF Waiting, IInv, QueueInv
    <3>2. effects[n][id] = <<>>
      BY <1>3, <2>0, <2>1
    <3>. QED  BY <1>3, <1>6, <1>7, <2>0, <2>1, <3>1, <3>2
  <2>2. CASE n # q \/ id # head
    <3>1. id \in Waiting(n) <=> id \in Waiting(n)'
      BY <1>2, <1>5, <2>2 DEF Waiting
    <3>. QED  BY <1>6, <1>7, <2>0, <2>2, <3>1
  <2>. QED  BY <2>1, <2>2
<1>. QED  BY <1>5, <1>6, <1>7, <1>8, <1>9 DEF QueueInv

\* Applying a legal command leaves well-formed intents and yields an edit.
LEMMA EditTypes ==
    ASSUME IInv, NEW c \in IntentCommand, Applicable(c)
    PROVE  Edited(c) \in Seq(IntentRecord) /\ EffectOf(c) \in Edit
<1>1. /\ intents \in Seq(IntentRecord) /\ clock \in Nat
      /\ c.payload \in Payloads \cup {NoPayload}
      /\ DurationOf[c.payload] \in Nat
      /\ Len(intents) \in Nat /\ DOMAIN intents = 1..Len(intents)
  BY CommandsAssumption DEF IInv, Types, IntentCommand
<1>2. CASE c.op = "create"
  <2>1. [revision |-> 1, lifecycle |-> "active", expires |-> clock + DurationOf[c.payload]]
          \in IntentRecord
    BY <1>1 DEF IntentRecord
  <2>2. Edited(c) = Created(c) /\ EffectOf(c) = [intent |-> Len(intents) + 1, revision |-> 1]
    BY <1>2 DEF Edited, EffectOf
  <2>. QED  BY <1>1, <2>1, <2>2 DEF Created, Edit
<1>3. ASSUME c.op \in {"update", "cancel"}
      PROVE  /\ c.intent \in 1..Len(intents)
             /\ intents[c.intent] \in IntentRecord
             /\ EffectOf(c) \in Edit
  <2>1. CurrentActive(c)
    BY <1>3 DEF Applicable
  <2>2. c.intent \in 1..Len(intents) /\ intents[c.intent] \in IntentRecord
    BY <1>1, <2>1 DEF CurrentActive, Active
  <2>. QED  BY <1>3, <2>2 DEF EffectOf, Edit, IntentRecord
<1>4. CASE c.op = "update"
  <2>1. Edited(c) = [intents EXCEPT ![c.intent] = UpdatedIntent(intents[c.intent], c.payload)]
    BY <1>4 DEF Edited, Updated
  <2>2. ASSUME NEW i \in IntentRecord PROVE UpdatedIntent(i, c.payload) \in IntentRecord
    <3>1. CASE DurationOf[c.payload] > 0
      BY <1>1, <3>1 DEF UpdatedIntent, IntentRecord
    <3>2. CASE ~ (DurationOf[c.payload] > 0)
      BY <1>1, <3>2 DEF UpdatedIntent, IntentRecord
    <3>. QED  BY <3>1, <3>2
  <2>. QED  BY <1>1, <1>3, <1>4, <2>1, <2>2
<1>5. CASE c.op = "cancel"
  <2>1. Edited(c) = [intents EXCEPT ![c.intent] = CancelledIntent(intents[c.intent])]
    BY <1>5 DEF Edited, Cancelled
  <2>2. ASSUME NEW i \in IntentRecord PROVE CancelledIntent(i) \in IntentRecord
    BY DEF CancelledIntent, IntentRecord
  <2>. QED  BY <1>1, <1>3, <1>5, <2>1, <2>2
<1>. QED  BY <1>2, <1>4, <1>5 DEF IntentCommand

\* Expiry leaves well-formed intents.
LEMMA ExpiredTypes ==
    ASSUME Types, NEW now \in Nat
    PROVE  Expired(now) \in Seq(IntentRecord)
<1>1. DOMAIN intents = 1..Len(intents) /\ Len(intents) \in Nat
  BY DEF Types
<1>2. ASSUME NEW i \in 1..Len(intents)
      PROVE  (IF intents[i].lifecycle = "active" /\ now >= intents[i].expires
                THEN [intents[i] EXCEPT !.lifecycle = "expired"] ELSE intents[i])
               \in IntentRecord
  <2>1. intents[i] \in IntentRecord
    BY <1>1 DEF Types
  <2>2. [intents[i] EXCEPT !.lifecycle = "expired"] \in IntentRecord
    BY <2>1 DEF IntentRecord
  <2>. QED  BY <2>1, <2>2
<1>. QED  BY <1>1, <1>2 DEF Expired

Phases == Queues \cup {"boundary", "tick", "resetting", "closed"}
ThreadRecord == [at : Phases, batch : Seq(Ids), stepping : BOOLEAN, closing : BOOLEAN]

Fresh ==
    /\ episode \in 1..MaxEpisodes /\ status = "running" /\ clock = 0 /\ intents = <<>>
    /\ pending = FreshQueues.pending /\ commands = FreshQueues.commands
    /\ results = FreshQueues.results /\ effects = FreshQueues.effects
    /\ retired \subseteq Ids /\ thread = AtBoundary
    /\ request \in Request \cup {NoRequest}
    /\ request # NoRequest => request.command \in CommandsOf(request.queue)

\* The fresh engine satisfies the invariant, whatever request is on its way.
LEMMA FreshEngine == Fresh => IInv
<1>. SUFFICES ASSUME Fresh PROVE IInv
  OBVIOUS
<1>. USE DEF Fresh
<1>1. thread \in ThreadRecord /\ thread.at = "boundary" /\ thread.batch = <<>>
      /\ thread.closing = FALSE
  BY DEF AtBoundary, ThreadRecord, Phases
<1>2. /\ pending \in [Queues -> Seq(Ids)] /\ \A q \in Queues : pending[q] = <<>>
      /\ commands \in [Queues -> [Ids -> Stored \cup {NoCommand}]]
      /\ \A q \in Queues, id \in Ids : commands[q][id] = NoCommand
      /\ results \in [Queues -> [Ids -> {"none", "queued", "applied", "rejected"}]]
      /\ \A q \in Queues, id \in Ids : results[q][id] = "none"
      /\ effects \in [Queues -> [Ids -> Seq(Edit)]]
      /\ \A q \in Queues, id \in Ids : effects[q][id] = <<>>
  BY DEF FreshQueues, NoneOf
<1>3. Types
  BY <1>1, <1>2, CommandsAssumption DEF Types, ThreadRecord, Phases
<1>4. ThreadInv
  BY <1>1 DEF ThreadInv, Queues
<1>5. QueueInv
  BY <1>1, <1>2, CommandsAssumption DEF QueueInv, Waiting, Distinct, Members, Queues
<1>6. KindInv
  BY <1>2 DEF KindInv
<1>. QED  BY <1>3, <1>4, <1>5, <1>6 DEF IInv

\* An action that leaves the queues and the batch alone keeps QueueInv and KindInv.
LEMMA QueuesUntouched ==
    ASSUME IInv, UNCHANGED <<episode, pending, commands, results, effects, request>>,
           \/ thread'.at = thread.at /\ thread'.batch = thread.batch
           \/ thread.batch = <<>> /\ thread'.batch = <<>>
    PROVE  QueueInv' /\ KindInv'
<1>1. \A q \in Queues : Waiting(q)' = Waiting(q)
  BY DEF Waiting, Members
<1>2. ASSUME NEW q \in Queues, thread'.at = q
      PROVE  Distinct(thread'.batch) /\ Members(thread'.batch) \cap Members(pending[q]) = {}
  <2>1. CASE thread'.at = thread.at /\ thread'.batch = thread.batch
    BY <1>2, <2>1 DEF IInv, QueueInv
  <2>2. CASE thread'.batch = <<>>
    BY <2>2 DEF Distinct, Members
  <2>. QED  BY <2>1, <2>2
<1>3. QueueInv'
  BY <1>1, <1>2 DEF IInv, QueueInv
<1>. QED  BY <1>3 DEF IInv, KindInv

\* Checking a request touches nothing but the request.
LEMMA CheckRequestStep ==
    ASSUME IInv, NEW s \in Sent, CheckRequest(s)
    PROVE  IInv' /\ UNCHANGED <<results, effects>>
<1>1. request' \in Request /\ request'.command \in CommandsOf(request'.queue)
  BY SentAssumption DEF CheckRequest
<1>2. Types' /\ ThreadInv'
  BY <1>1 DEF CheckRequest, IInv, Types, ThreadInv
<1>3. QueueInv'
  BY DEF CheckRequest, IInv, QueueInv, Waiting
<1>4. KindInv'
  BY <1>1 DEF CheckRequest, IInv, KindInv
<1>. QED  BY <1>2, <1>3, <1>4 DEF IInv, CheckRequest

\* Enqueueing accepts a new id and changes nothing for a known one.
LEMMA EnqueueStep ==
    ASSUME IInv, Enqueue
    PROVE  IInv' /\ (Receipts!Next \/ UNCHANGED <<results, effects>>)
<1>. DEFINE q == request.queue
            id == request.id
            entry == [command |-> request.command, episode |-> request.episode]
<1>1. /\ request \in Request /\ q \in Queues /\ id \in Ids
      /\ request.command \in CommandsOf(q) /\ entry \in Stored
  BY DEF Enqueue, IInv, Types, KindInv, Request, Stored
<1>2. CASE ~Accepts(q, id)
  <2>1. UNCHANGED <<commands, results, pending, episode, status, clock, intents,
                    retired, thread, effects>> /\ request' = NoRequest
    BY <1>2 DEF Enqueue
  <2>2. Types' /\ ThreadInv' /\ KindInv'
    BY <2>1 DEF IInv, Types, ThreadInv, KindInv
  <2>3. QueueInv'
    BY <2>1 DEF IInv, QueueInv, Waiting
  <2>. QED  BY <2>1, <2>2, <2>3 DEF IInv
<1>3. CASE Accepts(q, id)
  <2>1. /\ commands' = [commands EXCEPT ![q][id] = entry]
        /\ results' = [results EXCEPT ![q][id] = "queued"]
        /\ pending' = [pending EXCEPT ![q] = Append(@, id)]
        /\ UNCHANGED <<episode, status, clock, intents, retired, thread, effects>>
        /\ request' = NoRequest
    BY <1>3 DEF Enqueue
  <2>2. commands[q][id] = NoCommand /\ results[q][id] = "none" /\ Len(pending[q]) < QueueLimit
    BY <1>1, <1>3 DEF Accepts, IInv, QueueInv
  <2>3. id \notin Waiting(q) /\ effects[q][id] = <<>>
    BY <1>1, <2>2 DEF IInv, QueueInv
  <2>4. /\ Append(pending[q], id) \in Seq(Ids) /\ Distinct(Append(pending[q], id))
        /\ Members(Append(pending[q], id)) = Members(pending[q]) \cup {id}
        /\ Len(Append(pending[q], id)) = Len(pending[q]) + 1
    <3>1. pending[q] \in Seq(Ids) /\ Distinct(pending[q]) /\ id \notin Members(pending[q])
      BY <1>1, <2>3 DEF IInv, Types, QueueInv, Waiting
    <3>. QED  BY <1>1, <3>1, AppendMembers
  <2>5. /\ pending' \in [Queues -> Seq(Ids)]
        /\ pending'[q] = Append(pending[q], id)
        /\ \A n \in Queues \ {q} : pending'[n] = pending[n]
    BY <1>1, <2>1, <2>4 DEF IInv, Types
  <2>6. /\ results' \in [Queues -> [Ids -> {"none", "queued", "applied", "rejected"}]]
        /\ results'[q][id] = "queued"
        /\ \A n \in Queues, i \in Ids : n # q \/ i # id => results'[n][i] = results[n][i]
    BY <1>1, <2>1 DEF IInv, Types
  <2>7. /\ commands' \in [Queues -> [Ids -> Stored \cup {NoCommand}]]
        /\ commands'[q][id] = entry
        /\ \A n \in Queues, i \in Ids : n # q \/ i # id => commands'[n][i] = commands[n][i]
    BY <1>1, <2>1 DEF IInv, Types
  <2>8. Types' /\ ThreadInv'
    BY <2>1, <2>5, <2>6, <2>7 DEF IInv, Types, ThreadInv
  <2>9. KindInv'
    BY <1>1, <2>1, <2>7, NoneAssumption DEF IInv, KindInv
  <2>10. ASSUME NEW n \in Queues
         PROVE  /\ Len(pending'[n]) <= QueueLimit
                /\ Distinct(pending'[n])
                /\ thread'.at = n => /\ Distinct(thread'.batch)
                                     /\ Members(thread'.batch) \cap Members(pending'[n]) = {}
    <3>1. CASE n = q
      <4>1. Len(pending'[n]) <= QueueLimit
        BY <1>1, <2>2, <2>4, <2>5, <3>1, CommandsAssumption DEF IInv, Types
      <4>2. Distinct(pending'[n])
        BY <2>4, <2>5, <3>1
      <4>3. thread'.at = n => /\ Distinct(thread'.batch)
                              /\ Members(thread'.batch) \cap Members(pending'[n]) = {}
        BY <2>1, <2>3, <2>4, <2>5, <3>1 DEF IInv, QueueInv, Waiting
      <4>. QED  BY <4>1, <4>2, <4>3
    <3>2. CASE n # q
      BY <2>1, <2>5, <3>2 DEF IInv, QueueInv
    <3>. QED  BY <3>1, <3>2
  <2>11. ASSUME NEW n \in Queues, NEW i \in Ids
         PROVE  /\ results'[n][i] = "queued" <=> i \in Waiting(n)'
                /\ results'[n][i] = "none" <=> commands'[n][i] = NoCommand
                /\ effects'[n][i] # <<>> => /\ results'[n][i] = "applied"
                                            /\ commands'[n][i].episode = episode'
    <3>0. /\ results[n][i] = "queued" <=> i \in Waiting(n)
          /\ results[n][i] = "none" <=> commands[n][i] = NoCommand
          /\ effects[n][i] # <<>> => /\ results[n][i] = "applied"
                                     /\ commands[n][i].episode = episode
      BY DEF IInv, QueueInv
    <3>1. CASE n = q /\ i = id
      <4>1. i \in Waiting(n)'
        BY <2>4, <2>5, <3>1 DEF Waiting
      <4>. QED  BY <1>1, <2>1, <2>3, <2>6, <2>7, <3>1, <4>1, NoneAssumption
    <3>2. CASE n # q \/ i # id
      <4>1. i \in Waiting(n)' <=> i \in Waiting(n)
        BY <2>1, <2>4, <2>5, <3>2 DEF Waiting
      <4>. QED  BY <2>1, <2>6, <2>7, <3>0, <3>2, <4>1
    <3>. QED  BY <3>1, <3>2
  <2>12. Receipts!Accept(q, id)
    BY <1>1, <2>1, <2>2, AcceptStep DEF IInv
  <2>13. QueueInv'
    BY <2>10, <2>11 DEF QueueInv
  <2>. QED  BY <1>1, <2>8, <2>9, <2>12, <2>13 DEF IInv, Receipts!Next
<1>. QED  BY <1>2, <1>3

\* Draining moves what waits from the queue to the batch.
LEMMA DrainStep ==
    ASSUME IInv, NEW q \in Queues, NEW stepping \in BOOLEAN, thread.batch = <<>>,
           Drain(q, stepping), UNCHANGED <<episode, commands, results, effects, request>>
    PROVE  /\ QueueInv' /\ KindInv'
           /\ pending' \in [Queues -> Seq(Ids)]
           /\ thread' \in ThreadRecord
           /\ thread'.at = q /\ thread'.closing = thread.closing
           /\ thread'.stepping = stepping
<1>1. /\ pending' \in [Queues -> Seq(Ids)] /\ pending'[q] = <<>>
      /\ \A n \in Queues \ {q} : pending'[n] = pending[n]
  BY DEF Drain, IInv, Types
<1>2. /\ thread' \in ThreadRecord
      /\ thread'.at = q /\ thread'.batch = pending[q]
      /\ thread'.closing = thread.closing /\ thread'.stepping = stepping
  BY DEF Drain, IInv, Types, ThreadRecord, Phases
<1>3. Members(<<>>) = {} /\ Distinct(<<>>)
  BY DEF Members, Distinct
<1>4. \A n \in Queues : Waiting(n)' = Waiting(n)
  <2>1. ASSUME NEW n \in Queues PROVE Waiting(n) = Members(pending[n])
    BY <1>3 DEF Waiting
  <2>2. Waiting(q)' = Members(pending[q])
    BY <1>1, <1>2, <1>3 DEF Waiting
  <2>3. ASSUME NEW n \in Queues \ {q} PROVE Waiting(n)' = Members(pending[n])
    BY <1>1, <1>2 DEF Waiting
  <2>. QED  BY <2>1, <2>2, <2>3
<1>5. ASSUME NEW n \in Queues
      PROVE  /\ Len(pending'[n]) <= QueueLimit
             /\ Distinct(pending'[n])
             /\ thread'.at = n => /\ Distinct(thread'.batch)
                                  /\ Members(thread'.batch) \cap Members(pending'[n]) = {}
  <2>1. CASE n = q
    BY <1>1, <1>2, <1>3, <2>1, CommandsAssumption DEF IInv, QueueInv
  <2>2. CASE n # q
    BY <1>1, <1>2, <2>2 DEF IInv, QueueInv
  <2>. QED  BY <2>1, <2>2
<1>6. QueueInv'
  BY <1>4, <1>5 DEF IInv, QueueInv
<1>. QED  BY <1>1, <1>2, <1>6 DEF IInv, KindInv

\* Rejecting the head of the batch is a step of CommandReceipts.
LEMMA RejectRefines ==
    ASSUME IInv, NEW q \in Queues, thread.at = q, thread.batch # <<>>, Reject(q)
    PROVE  Receipts!Next
<1>1. \E refused \in [Queues -> SUBSET Ids] : Receipts!Refuse(refused)
  BY HeadWaits, RefuseStep DEF Reject, Complete, IInv
<1>. QED  BY <1>1 DEF Receipts!Next

\* Applying the head of the batch is a step of CommandReceipts.
LEMMA ApplyRefines ==
    ASSUME IInv, NEW q \in Queues, thread.at = q, thread.batch # <<>>,
           NEW edit \in Edit, Apply(q, edit)
    PROVE  Receipts!Next
<1>1. PICK id \in Ids : id = Head(thread.batch) /\ results[q][id] = "queued"
  BY HeadWaits
<1>2. /\ results' = [results EXCEPT ![q][id] = "applied"]
      /\ effects' = [effects EXCEPT ![q][id] = Append(@, edit)]
  BY <1>1 DEF Apply, Complete
<1>3. Receipts!CarryOut(q, id)
  BY <1>1, <1>2, CarryOutStep DEF IInv
<1>. QED  BY <1>1, <1>3 DEF Receipts!Next

\* A runtime command ends applied or rejected; a retry resumes only a paused run
\* and an abort finishes the run.
LEMMA ApplyRuntimeStep ==
    ASSUME IInv, ApplyRuntime
    PROVE  IInv' /\ Receipts!Next
<1>. DEFINE q == "runtime"
<1>1. q \in Queues /\ thread.at = q /\ thread.batch # <<>>
      /\ UNCHANGED <<episode, clock, intents, pending, commands, retired, request>>
  BY DEF ApplyRuntime, Queues
<1>2. \/ Reject(q) /\ UNCHANGED status
      \/ /\ Apply(q, NoEffect) /\ Given(q).episode = episode
         /\ status # "finished"
         /\ status' \in {"running", "finished"}
  BY DEF ApplyRuntime, Retry, Abort
<1>3. NoEffect \in Edit
  BY DEF NoEffect, Edit
<1>4. /\ QueueInv'
      /\ thread'.at = q /\ thread'.closing = thread.closing
      /\ thread'.stepping = thread.stepping
      /\ thread' \in ThreadRecord
      /\ results' \in [Queues -> [Ids -> {"none", "queued", "applied", "rejected"}]]
      /\ effects' \in [Queues -> [Ids -> Seq(Edit)]]
  <2>1. CASE Reject(q)
    BY <1>1, <2>1, CompleteKeepsQueues DEF Reject, ThreadRecord, Phases
  <2>2. CASE Apply(q, NoEffect) /\ Given(q).episode = episode
    BY <1>1, <1>3, <2>2, CompleteKeepsQueues DEF Apply, Given, ThreadRecord, Phases
  <2>. QED  BY <1>2, <2>1, <2>2
<1>5. Types'
  BY <1>1, <1>2, <1>4 DEF IInv, Types, ThreadRecord, Phases
<1>6. ThreadInv'
  BY <1>1, <1>2, <1>4 DEF IInv, ThreadInv
<1>7. KindInv'
  BY <1>1 DEF IInv, KindInv
<1>8. Receipts!Next
  BY <1>1, <1>2, <1>3, RejectRefines, ApplyRefines
<1>. QED  BY <1>4, <1>5, <1>6, <1>7, <1>8 DEF IInv

\* An intent command edits the store or is rejected.
LEMMA ApplyIntentStep ==
    ASSUME IInv, ApplyIntent
    PROVE  IInv' /\ Receipts!Next
<1>. DEFINE q == "intent"
            c == Given(q).command
<1>1. q \in Queues /\ thread.at = q /\ thread.batch # <<>>
      /\ UNCHANGED <<episode, status, clock, pending, commands, retired, request>>
  BY DEF ApplyIntent, Queues
<1>2. \/ Reject(q) /\ UNCHANGED intents
      \/ /\ MayEdit(Given(q)) /\ Apply(q, EffectOf(c)) /\ intents' = Edited(c)
  BY DEF ApplyIntent
<1>3. c \in IntentCommand
  BY <1>1, HeadWaits DEF CommandsOf
<1>4. MayEdit(Given(q)) => Edited(c) \in Seq(IntentRecord) /\ EffectOf(c) \in Edit
  BY <1>3, EditTypes DEF MayEdit
<1>5. /\ QueueInv'
      /\ thread'.at = q /\ thread'.closing = thread.closing
      /\ thread'.stepping = thread.stepping
      /\ thread' \in ThreadRecord
      /\ results' \in [Queues -> [Ids -> {"none", "queued", "applied", "rejected"}]]
      /\ effects' \in [Queues -> [Ids -> Seq(Edit)]]
  <2>1. CASE Reject(q)
    BY <1>1, <2>1, CompleteKeepsQueues DEF Reject, ThreadRecord, Phases
  <2>2. CASE MayEdit(Given(q)) /\ Apply(q, EffectOf(c))
    BY <1>1, <1>4, <2>2, CompleteKeepsQueues DEF Apply, MayEdit, Given, ThreadRecord, Phases
  <2>. QED  BY <1>2, <2>1, <2>2
<1>6. intents' \in Seq(IntentRecord)
  BY <1>2, <1>4 DEF IInv, Types
<1>7. Types'
  BY <1>1, <1>5, <1>6 DEF IInv, Types, ThreadRecord, Phases
<1>8. ThreadInv'
  BY <1>1, <1>5 DEF IInv, ThreadInv
<1>9. KindInv'
  BY <1>1 DEF IInv, KindInv
<1>10. Receipts!Next
  BY <1>1, <1>2, <1>4, RejectRefines, ApplyRefines
<1>. QED  BY <1>5, <1>7, <1>8, <1>9, <1>10 DEF IInv

\* Emptying the runtime queue starts a boundary; time is left if it is a step's.
LEMMA DrainRuntimeStep ==
    ASSUME IInv, DrainRuntime
    PROVE  IInv' /\ UNCHANGED <<results, effects>>
<1>1. "runtime" \in Queues /\ thread.batch = <<>> /\ (status = "running") \in BOOLEAN
  BY DEF DrainRuntime, IInv, ThreadInv, Queues
<1>2. /\ QueueInv' /\ KindInv' /\ pending' \in [Queues -> Seq(Ids)]
      /\ thread' \in ThreadRecord /\ thread'.at = "runtime"
      /\ thread'.closing = thread.closing /\ thread'.stepping = (status = "running")
  BY <1>1, DrainStep DEF DrainRuntime
<1>3. Types'
  BY <1>2 DEF DrainRuntime, IInv, Types, ThreadRecord, Phases
<1>4. thread'.stepping => clock < Steps
  BY <1>2 DEF DrainRuntime, MayDrain, IInv, ThreadInv
<1>5. ThreadInv'
  BY <1>2, <1>4 DEF DrainRuntime, IInv, ThreadInv, Queues
<1>. QED  BY <1>2, <1>3, <1>5 DEF DrainRuntime, IInv

\* Emptying the intent queue comes after the runtime commands and the expiry.
LEMMA DrainIntentsStep ==
    ASSUME IInv, DrainIntents
    PROVE  IInv' /\ UNCHANGED <<results, effects>>
<1>1. "intent" \in Queues /\ thread.batch = <<>> /\ thread.stepping \in BOOLEAN
  BY DEF DrainIntents, IInv, Types, Queues
<1>2. /\ QueueInv' /\ KindInv' /\ pending' \in [Queues -> Seq(Ids)]
      /\ thread' \in ThreadRecord /\ thread'.at = "intent"
      /\ thread'.closing = thread.closing /\ thread'.stepping = thread.stepping
  BY <1>1, DrainStep DEF DrainIntents
<1>3. Expired(clock) \in Seq(IntentRecord)
  BY ExpiredTypes DEF IInv, Types
<1>4. Types'
  BY <1>2, <1>3 DEF DrainIntents, IInv, Types, ThreadRecord, Phases
<1>5. ThreadInv'
  BY <1>2 DEF DrainIntents, IInv, ThreadInv, Queues
<1>. QED  BY <1>2, <1>4, <1>5 DEF DrainIntents, IInv

\* The other steps of the thread leave the queues alone.
LEMMA ThreadStep ==
    ASSUME IInv, EndBoundary \/ RedBlocks \/ Tick \/ StepsRunOut \/ WallClockRunsOut
    PROVE  IInv' /\ UNCHANGED <<results, effects>>
<1>1. CASE EndBoundary
  <2>1. thread' = [thread EXCEPT !.at = Continuation] /\ thread.batch = <<>>
        /\ thread.at = "intent"
        /\ UNCHANGED <<episode, status, clock, intents, pending, commands, results,
                       retired, request, effects>>
    BY <1>1 DEF EndBoundary
  <2>2. /\ Continuation \in {"closed", "tick", "boundary"}
        /\ Continuation = "tick" => thread.stepping
    BY DEF Continuation
  <2>3. /\ thread' \in ThreadRecord /\ thread'.at = Continuation /\ thread'.batch = <<>>
        /\ thread'.closing = thread.closing /\ thread'.stepping = thread.stepping
    BY <2>1, <2>2 DEF IInv, Types, ThreadRecord, Phases
  <2>4. Types'
    BY <2>1, <2>3 DEF IInv, Types, ThreadRecord, Phases
  <2>5. ThreadInv'
    BY <2>1, <2>2, <2>3 DEF IInv, ThreadInv, Queues
  <2>6. QueueInv' /\ KindInv'
    BY <2>1, <2>3, QueuesUntouched
  <2>. QED  BY <2>1, <2>4, <2>5, <2>6 DEF IInv
<1>2. CASE RedBlocks \/ Tick
  <2>1. /\ thread.at = "tick" /\ thread.batch = <<>> /\ thread' = AtBoundary
        /\ status' \in {"running", "paused_model"}
        /\ UNCHANGED <<episode, pending, commands, results, retired, request, effects>>
    BY <1>2 DEF RedBlocks, Tick, IInv, ThreadInv, Queues
  <2>2. clock' \in 0..Steps /\ intents' \in Seq(IntentRecord)
    <3>1. CASE RedBlocks
      BY <3>1 DEF RedBlocks, IInv, Types
    <3>2. CASE Tick
      <4>1. clock + 1 \in 0..Steps /\ clock + 1 \in Nat
        BY <2>1, CommandsAssumption DEF IInv, Types, ThreadInv
      <4>2. Expired(clock + 1) \in Seq(IntentRecord)
        BY <4>1, ExpiredTypes DEF IInv
      <4>. QED  BY <3>2, <4>1, <4>2 DEF Tick
    <3>. QED  BY <1>2, <3>1, <3>2
  <2>3. /\ thread' \in ThreadRecord /\ thread'.at = "boundary" /\ thread'.batch = <<>>
        /\ thread'.closing = FALSE
    BY <2>1 DEF AtBoundary, ThreadRecord, Phases
  <2>4. Types'
    BY <2>1, <2>2, <2>3 DEF IInv, Types, ThreadRecord, Phases
  <2>5. ThreadInv'
    BY <2>1, <2>3 DEF IInv, ThreadInv, Queues
  <2>6. QueueInv' /\ KindInv'
    BY <2>1, <2>3, QueuesUntouched
  <2>. QED  BY <2>1, <2>4, <2>5, <2>6 DEF IInv
<1>3. CASE StepsRunOut \/ WallClockRunsOut
  <2>1. /\ thread' = [thread EXCEPT !.closing = TRUE] /\ thread.at = "boundary"
        /\ status' = "finished"
        /\ UNCHANGED <<episode, clock, intents, pending, commands, results, retired,
                       request, effects>>
    BY <1>3 DEF StepsRunOut, WallClockRunsOut, Finish
  <2>2. /\ thread' \in ThreadRecord /\ thread'.at = thread.at
        /\ thread'.batch = thread.batch /\ thread'.stepping = thread.stepping
    BY <2>1 DEF IInv, Types, ThreadRecord, Phases
  <2>3. Types'
    BY <2>1, <2>2 DEF IInv, Types, ThreadRecord, Phases
  <2>4. ThreadInv'
    BY <2>1, <2>2 DEF IInv, ThreadInv, Queues
  <2>5. QueueInv' /\ KindInv'
    BY <2>1, <2>2, QueuesUntouched
  <2>. QED  BY <2>1, <2>3, <2>4, <2>5 DEF IInv
<1>. QED  BY <1>1, <1>2, <1>3

\* A reset first rejects all that waits, which is a step of CommandReceipts.
LEMMA ResetDrainStep ==
    ASSUME IInv, ResetDrain
    PROVE  IInv' /\ Receipts!Next
<1>1. /\ thread.at = "boundary" /\ thread.batch = <<>> /\ thread.closing = FALSE
      /\ episode < MaxEpisodes
      /\ results' = ResultsOfReset
      /\ retired' = retired \cup UNION {Members(pending[q]) : q \in Queues}
      /\ pending' = [q \in Queues |-> <<>>]
      /\ thread' = [thread EXCEPT !.at = "resetting"]
      /\ UNCHANGED <<episode, status, clock, intents, commands, request, effects>>
  BY DEF ResetDrain, IInv, Types, ThreadInv, Queues
<1>2. \A q \in Queues : Waiting(q) = Members(pending[q])
  BY <1>1 DEF Waiting, Queues
<1>3. \A q \in Queues, id \in Ids :
        results'[q][id] = IF id \in Members(pending[q]) THEN "rejected" ELSE results[q][id]
  BY <1>1 DEF ResultsOfReset
<1>4. /\ thread' \in ThreadRecord /\ thread'.at = "resetting" /\ thread'.batch = <<>>
      /\ thread'.closing = FALSE
  BY <1>1 DEF IInv, Types, ThreadRecord, Phases
<1>5. Members(<<>>) = {} /\ Distinct(<<>>) /\ Len(<<>>) <= QueueLimit
  BY CommandsAssumption DEF Members, Distinct
<1>6. results' \in [Queues -> [Ids -> {"none", "queued", "applied", "rejected"}]]
  BY <1>1 DEF ResultsOfReset, IInv, Types
<1>7. retired' \subseteq Ids
  <2>1. \A q \in Queues : Members(pending[q]) \subseteq Ids
    BY DEF IInv, Types, Members
  <2>. QED  BY <1>1, <2>1 DEF IInv, Types
<1>8. Types'
  BY <1>1, <1>4, <1>6, <1>7 DEF IInv, Types, ThreadRecord, Phases
<1>9. ThreadInv'
  BY <1>1, <1>4 DEF IInv, ThreadInv, Queues
<1>10. QueueInv'
  <2>1. \A q \in Queues : Waiting(q)' = {}
    BY <1>1, <1>4, <1>5 DEF Waiting, Queues
  <2>2. ASSUME NEW q \in Queues
        PROVE  Len(pending'[q]) <= QueueLimit /\ Distinct(pending'[q]) /\ thread'.at # q
    BY <1>1, <1>4, <1>5 DEF Queues
  <2>3. ASSUME NEW q \in Queues, NEW id \in Ids
        PROVE  /\ results'[q][id] # "queued"
               /\ results'[q][id] = "none" <=> commands'[q][id] = NoCommand
               /\ effects'[q][id] # <<>> => /\ results'[q][id] = "applied"
                                            /\ commands'[q][id].episode = episode'
    <3>0. /\ results[q][id] = "queued" <=> id \in Members(pending[q])
          /\ results[q][id] = "none" <=> commands[q][id] = NoCommand
          /\ effects[q][id] # <<>> => /\ results[q][id] = "applied"
                                      /\ commands[q][id].episode = episode
      BY <1>2 DEF IInv, QueueInv
    <3>. QED  BY <1>1, <1>3, <3>0
  <2>. QED  BY <2>1, <2>2, <2>3 DEF QueueInv
<1>11. KindInv'
  BY <1>1 DEF IInv, KindInv
<1>12. Receipts!Next
  <2>. DEFINE refused == [q \in Queues |-> Members(pending[q])]
  <2>1. refused \in [Queues -> SUBSET Ids]
    BY DEF IInv, Types, Members
  <2>2. \A q \in Queues : \A id \in refused[q] : results[q][id] = "queued"
    BY <1>2, <2>1 DEF IInv, QueueInv
  <2>3. results' = [q \in Queues |-> [id \in Ids |->
                      IF id \in refused[q] THEN "rejected" ELSE results[q][id]]]
    BY <1>1 DEF ResultsOfReset
  <2>4. PICK chosen \in [Queues -> SUBSET Ids] : chosen = refused
    BY <2>1
  <2>. HIDE DEF refused
  <2>5. Receipts!Refuse(chosen)
    BY <1>1, <2>2, <2>3, <2>4 DEF Receipts!Refuse
  <2>. QED  BY <2>5 DEF Receipts!Next
<1>. QED  BY <1>8, <1>9, <1>10, <1>11, <1>12 DEF IInv

\* Then the engine is built anew and every receipt forgotten.
LEMMA ResetRebuildStep ==
    ASSUME IInv, ResetRebuild
    PROVE  IInv' /\ Receipts!Next
<1>1. Fresh'
  BY CommandsAssumption DEF Fresh, ResetRebuild, IInv, Types, ThreadInv, KindInv
<1>2. IInv'
  BY <1>1, FreshEngine, PTL
<1>3. Receipts!Forget
  BY DEF ResetRebuild, FreshQueues, NoneOf, Receipts!Forget, Receipts!Every
<1>. QED  BY <1>2, <1>3 DEF Receipts!Next

\* Every step keeps the invariant and is a step of CommandReceipts or a stutter.
LEMMA NextStep ==
    IInv /\ [Next]_vars => IInv' /\ (Receipts!Next \/ UNCHANGED <<results, effects>>)
<1>. SUFFICES ASSUME IInv, [Next]_vars
              PROVE  IInv' /\ (Receipts!Next \/ UNCHANGED <<results, effects>>)
  OBVIOUS
<1>1. CASE Server
  BY <1>1, CheckRequestStep, EnqueueStep DEF Server
<1>2. CASE Simulation
  BY <1>2, DrainRuntimeStep, ApplyRuntimeStep, DrainIntentsStep, ApplyIntentStep, ThreadStep
     DEF Simulation
<1>3. CASE WallClockRunsOut
  BY <1>3, ThreadStep
<1>4. CASE ResetDrain
  BY <1>4, ResetDrainStep
<1>5. CASE ResetRebuild
  BY <1>5, ResetRebuildStep
<1>6. CASE UNCHANGED vars
  <2>1. Types' /\ ThreadInv' /\ KindInv'
    BY <1>6 DEF vars, IInv, Types, ThreadInv, KindInv
  <2>2. QueueInv'
    BY <1>6, QueuesUntouched DEF vars
  <2>. QED  BY <1>6, <2>1, <2>2 DEF vars, IInv
<1>. QED  BY <1>1, <1>2, <1>3, <1>4, <1>5, <1>6 DEF Next

\* The engine starts in the invariant.
LEMMA InitStep == Init => IInv /\ Receipts!Init
<1>. SUFFICES ASSUME Init PROVE IInv /\ Receipts!Init
  OBVIOUS
<1>1. Fresh
  BY CommandsAssumption DEF Init, Fresh
<1>2. Receipts!Init
  BY DEF Init, FreshQueues, NoneOf, Receipts!Init, Receipts!Every
<1>. QED  BY <1>1, <1>2, FreshEngine

\* The inductive invariant holds of every behaviour.
THEOREM InvariantHolds == Spec => []IInv
BY InitStep, NextStep, PTL DEF Spec

\* Every variable keeps its type, the queues stay within their limit, and a
\* receipt says queued exactly while its command waits in the queue or the batch.
THEOREM TypeCorrect == Spec => []TypeOK
<1>1. IInv => TypeOK
  BY DEF IInv, Types, QueueInv, TypeOK, IntentRecord
<1>. QED  BY <1>1, InvariantHolds, PTL

\* The queues implement CommandReceipts: an accepted command is carried out at
\* most once and its receipt is final, for any number of ids, episodes and steps.
THEOREM CommandsHappenOnce == Spec => EachCommandOnce
<1>1. IInv /\ [Next]_vars =>
        [Receipts!Next]_<<results, [q \in Queues |-> [id \in Ids |-> Len(effects[q][id])]]>>
  BY NextStep
<1>. QED  BY <1>1, InitStep, InvariantHolds, PTL DEF Spec, EachCommandOnce, Receipts!Spec

\* A command edits only the episode it was sent to.
THEOREM EditsInTheirEpisode == Spec => []EditsAreOfTheirEpisode
<1>1. IInv => EditsAreOfTheirEpisode
  BY DEF IInv, QueueInv, EditsAreOfTheirEpisode
<1>. QED  BY <1>1, InvariantHolds, PTL

\* A finished run takes no edits.
THEOREM FinishedRunsAreLeftAlone == Spec => FinishedRunsTakeNoEdits
<1>1. IInv /\ [Next]_vars =>
        [status = "finished" /\ episode' = episode => effects' = effects]_vars
  <2>. SUFFICES ASSUME IInv, Next, status = "finished", episode' = episode
                PROVE  effects' = effects
    BY DEF vars
  <2>1. CASE Server
    BY <2>1 DEF Server, CheckRequest, Enqueue
  <2>2. CASE Simulation
    <3>1. CASE ApplyRuntime
      BY <3>1 DEF ApplyRuntime, Retry, Abort, Reject
    <3>2. CASE ApplyIntent
      BY <3>2 DEF ApplyIntent, MayEdit, Reject
    <3>. QED
      BY <2>2, <3>1, <3>2 DEF Simulation, DrainRuntime, DrainIntents, EndBoundary, RedBlocks,
                              Tick, StepsRunOut, Finish
  <2>3. CASE WallClockRunsOut \/ ResetDrain
    BY <2>3 DEF WallClockRunsOut, Finish, ResetDrain
  <2>4. CASE ResetRebuild
    BY <2>4 DEF ResetRebuild, IInv, Types
  <2>. QED  BY <2>1, <2>2, <2>3, <2>4 DEF Next
<1>. QED  BY <1>1, InvariantHolds, PTL DEF Spec, FinishedRunsTakeNoEdits

-------------------------------------------------------------------------------
(* Revisions. *)

\* Every edit left an intent that exists at a revision that was reached.
EditsReached ==
    \A a \in Ids : \A k \in DOMAIN effects["intent"][a] :
      /\ effects["intent"][a][k].intent \in DOMAIN intents
      /\ effects["intent"][a][k].revision <= intents[effects["intent"][a][k].intent].revision

EditInv == EditsReached /\ RevisionsHaveOneAuthor

\* Intents are kept, and their revisions do not go back.
IntentsGrow ==
    \A i \in DOMAIN intents : i \in DOMAIN intents' /\ intents[i].revision <= intents'[i].revision

\* Expiry keeps the intents and their revisions.
LEMMA ExpiredGrows ==
    ASSUME IInv, NEW now \in Nat, intents' = Expired(now)
    PROVE  IntentsGrow
<1>1. ASSUME NEW i \in DOMAIN intents
      PROVE  i \in DOMAIN intents' /\ intents[i].revision <= intents'[i].revision
  <2>1. intents[i] \in IntentRecord
    BY DEF IInv, Types
  <2>2. intents'[i] = intents[i] \/ intents'[i] = [intents[i] EXCEPT !.lifecycle = "expired"]
    BY DEF Expired
  <2>3. intents'[i].revision = intents[i].revision
    BY <2>1, <2>2 DEF IntentRecord
  <2>. QED  BY <2>1, <2>3 DEF Expired, IntentRecord
<1>. QED  BY <1>1 DEF IntentsGrow

\* Steps that make no edit keep EditInv, provided the intents are kept and the
\* stored commands are.
LEMMA NoEditStep ==
    ASSUME IInv, EditInv, IInv', IntentsGrow, effects'["intent"] = effects["intent"],
           \A id \in Ids : effects["intent"][id] # <<>> =>
                             commands'["intent"][id] = commands["intent"][id]
    PROVE  EditInv'
<1>. DEFINE f == effects["intent"]
<1>0. "intent" \in Queues /\ \A a \in Ids : f[a] \in Seq(Edit)
  BY DEF IInv, Types, Queues
<1>1. ASSUME NEW a \in Ids, NEW k \in DOMAIN f[a]
      PROVE  /\ f[a][k].intent \in DOMAIN intents'
             /\ f[a][k].revision <= intents'[f[a][k].intent].revision
             /\ commands'["intent"][a] = commands["intent"][a]
  <2>1. f[a][k] \in Edit /\ f[a] # <<>>
    BY <1>0
  <2>. DEFINE i == f[a][k].intent
  <2>2. i \in DOMAIN intents /\ f[a][k].revision <= intents[i].revision
    BY DEF EditInv, EditsReached
  <2>3. i \in DOMAIN intents' /\ intents[i].revision <= intents'[i].revision
    BY <2>2 DEF IntentsGrow
  <2>4. intents[i] \in IntentRecord /\ intents'[i] \in IntentRecord
    BY <2>2, <2>3 DEF IInv, Types
  <2>. QED  BY <2>1, <2>2, <2>3, <2>4 DEF Edit, IntentRecord
<1>2. EditsReached'
  BY <1>1 DEF EditsReached
<1>3. RevisionsHaveOneAuthor'
  BY <1>1 DEF EditInv, RevisionsHaveOneAuthor
<1>. QED  BY <1>2, <1>3 DEF EditInv

\* An edit reaches a revision nobody reached before, the one after the revision
\* its command expected.
LEMMA EditIsNew ==
    ASSUME IInv, EditInv, NEW c \in IntentCommand, Applicable(c), intents' = Edited(c)
    PROVE  /\ IntentsGrow
           /\ EffectOf(c).revision = c.expected + 1
           /\ EffectOf(c).intent \in DOMAIN intents'
           /\ EffectOf(c).revision = intents'[EffectOf(c).intent].revision
           /\ \A a \in Ids : \A k \in DOMAIN effects["intent"][a] :
                effects["intent"][a][k] # EffectOf(c)
<1>1. /\ intents \in Seq(IntentRecord) /\ Len(intents) \in Nat
      /\ DOMAIN intents = 1..Len(intents)
      /\ \A i \in DOMAIN intents : intents[i] \in IntentRecord
  BY DEF IInv, Types
<1>2. CASE c.op = "create"
  <2>1. EffectOf(c) = [intent |-> Len(intents) + 1, revision |-> 1] /\ c.expected = 0
    BY <1>2 DEF EffectOf, IntentCommand
  <2>2. /\ DOMAIN intents' = 1..(Len(intents) + 1)
        /\ \A i \in DOMAIN intents : intents'[i] = intents[i]
        /\ intents'[Len(intents) + 1].revision = 1
    BY <1>1, <1>2 DEF Edited, Created
  <2>3. IntentsGrow
    BY <1>1, <2>2 DEF IntentsGrow, IntentRecord
  <2>4. \A a \in Ids : \A k \in DOMAIN effects["intent"][a] :
          effects["intent"][a][k] # EffectOf(c)
    BY <1>1, <2>1 DEF EditInv, EditsReached
  <2>. QED  BY <1>1, <2>1, <2>2, <2>3, <2>4
<1>3. CASE c.op \in {"update", "cancel"}
  <2>. DEFINE i == c.intent
  <2>1. i \in DOMAIN intents /\ intents[i].revision = c.expected
    BY <1>3 DEF Applicable, CurrentActive, Active
  <2>2. EffectOf(c) = [intent |-> i, revision |-> intents[i].revision + 1]
    BY <1>3 DEF EffectOf
  <2>3. /\ DOMAIN intents' = DOMAIN intents
        /\ \A j \in DOMAIN intents : j # i => intents'[j] = intents[j]
        /\ intents'[i].revision = intents[i].revision + 1
    <3>1. CASE c.op = "update"
      BY <1>1, <2>1, <3>1 DEF Edited, Updated, UpdatedIntent
    <3>2. CASE c.op = "cancel"
      BY <1>1, <2>1, <3>2 DEF Edited, Cancelled, CancelledIntent
    <3>. QED  BY <1>3, <3>1, <3>2
  <2>4. IntentsGrow
    <3>1. \A j \in DOMAIN intents : intents[j].revision \in Nat
      BY <1>1 DEF IntentRecord
    <3>. HIDE DEF i
    <3>. QED  BY <2>1, <2>3, <3>1 DEF IntentsGrow
  <2>5. ASSUME NEW a \in Ids, NEW k \in DOMAIN effects["intent"][a],
               effects["intent"][a][k] = EffectOf(c)
        PROVE  FALSE
    <3>1. intents[i].revision + 1 <= intents[i].revision
      BY <2>2, <2>5 DEF EditInv, EditsReached
    <3>. QED  BY <1>1, <2>1, <3>1 DEF IntentRecord
  <2>. QED  BY <2>1, <2>2, <2>3, <2>4, <2>5
<1>. QED  BY <1>2, <1>3 DEF IntentCommand

\* Steps that touch neither the intents, the stored commands nor the edits.
LEMMA QuietStep ==
    ASSUME IInv, EditInv, IInv',
           UNCHANGED <<intents, commands>>, effects'["intent"] = effects["intent"]
    PROVE  EditInv'
<1>1. \A i \in DOMAIN intents : intents[i] \in IntentRecord
  BY DEF IInv, Types
<1>2. IntentsGrow
  BY <1>1 DEF IntentsGrow, IntentRecord
<1>. QED  BY <1>2, NoEditStep

\* Queueing stores a command only where no edit was made.
LEMMA EnqueueKeepsEdits ==
    ASSUME IInv, EditInv, IInv', Enqueue
    PROVE  EditInv'
<1>1. request \in Request /\ UNCHANGED <<intents, effects>>
  BY DEF Enqueue, IInv, Types
<1>2. ASSUME NEW id \in Ids, effects["intent"][id] # <<>>
      PROVE  commands'["intent"][id] = commands["intent"][id]
  <2>1. "intent" \in Queues
    BY DEF Queues
  <2>2. commands["intent"][id] # NoCommand
    BY <1>2, <2>1 DEF IInv, QueueInv
  <2>3. CASE request.queue = "intent" /\ request.id = id
    BY <2>2, <2>3 DEF Enqueue, Accepts
  <2>4. CASE ~(request.queue = "intent" /\ request.id = id)
    <3>1. \/ UNCHANGED commands
          \/ commands' = [commands EXCEPT ![request.queue][request.id] =
                            [command |-> request.command, episode |-> request.episode]]
      <4>1. CASE Accepts(request.queue, request.id)
        BY <4>1 DEF Enqueue
      <4>2. CASE ~Accepts(request.queue, request.id)
        BY <4>2 DEF Enqueue
      <4>. QED  BY <4>1, <4>2
    <3>2. commands \in [Queues -> [Ids -> Stored \cup {NoCommand}]]
          /\ request.queue \in Queues /\ request.id \in Ids
      BY <1>1 DEF IInv, Types, Request
    <3>3. CASE commands' = [commands EXCEPT ![request.queue][request.id] =
                              [command |-> request.command, episode |-> request.episode]]
      <4>1. CASE request.queue = "intent"
        BY <2>1, <2>4, <3>2, <3>3, <4>1
      <4>2. CASE request.queue # "intent"
        BY <2>1, <3>2, <3>3, <4>2
      <4>. QED  BY <4>1, <4>2
    <3>. QED  BY <3>1, <3>3
  <2>. QED  BY <2>3, <2>4
<1>3. \A i \in DOMAIN intents : intents[i] \in IntentRecord
  BY DEF IInv, Types
<1>4. IntentsGrow
  BY <1>1, <1>3 DEF IntentsGrow, IntentRecord
<1>. QED  BY <1>1, <1>2, <1>4, NoEditStep

\* Applying an intent command adds one edit, to an id that had none, at a
\* revision nobody reached.
LEMMA ApplyIntentKeepsEdits ==
    ASSUME IInv, EditInv, IInv', ApplyIntent
    PROVE  EditInv'
<1>. DEFINE f == effects["intent"]
            head == Head(thread.batch)
            c == Given("intent").command
            edit == EffectOf(c)
<1>1. "intent" \in Queues /\ thread.at = "intent" /\ thread.batch # <<>> /\ commands' = commands
  BY DEF ApplyIntent, Queues
<1>2. head \in Ids /\ results["intent"][head] = "queued" /\ c \in IntentCommand
      /\ c = commands["intent"][head].command
  BY <1>1, HeadWaits DEF CommandsOf, Given
<1>3. CASE Reject("intent") /\ UNCHANGED intents
  BY <1>1, <1>3, QuietStep DEF Reject
<1>4. CASE MayEdit(Given("intent")) /\ Apply("intent", edit) /\ intents' = Edited(c)
  <2>1. /\ IntentsGrow
        /\ edit.revision = c.expected + 1
        /\ edit.intent \in DOMAIN intents'
        /\ edit.revision = intents'[edit.intent].revision
        /\ \A a \in Ids : \A k \in DOMAIN f[a] : f[a][k] # edit
    BY <1>2, <1>4, EditIsNew DEF MayEdit
  <2>2. edit \in Edit
    BY <1>2, <1>4, EditTypes DEF MayEdit
  <2>3. f[head] = <<>>
    BY <1>1, <1>2 DEF IInv, QueueInv
  <2>4. /\ \A a \in Ids \ {head} : effects'["intent"][a] = f[a]
        /\ effects'["intent"][head] = <<edit>>
    <3>1. effects' = [effects EXCEPT !["intent"][head] = Append(@, edit)]
      BY <1>4 DEF Apply
    <3>2. effects'["intent"][head] = Append(f[head], edit)
      BY <1>1, <1>2, <3>1 DEF IInv, Types
    <3>3. \A a \in Ids \ {head} : effects'["intent"][a] = f[a]
      BY <1>1, <1>2, <3>1 DEF IInv, Types
    <3>. QED  BY <2>3, <3>2, <3>3
  <2>5. \A i \in DOMAIN intents' : intents'[i] \in IntentRecord
    BY DEF IInv, Types
  <2>6. \A i \in DOMAIN intents : intents[i] \in IntentRecord
    BY DEF IInv, Types
  <2>7. ASSUME NEW a \in Ids, a # head, NEW k \in DOMAIN f[a]
        PROVE  /\ f[a][k].intent \in DOMAIN intents'
               /\ f[a][k].revision <= intents'[f[a][k].intent].revision
               /\ f[a][k].revision = commands["intent"][a].command.expected + 1
    <3>1. /\ f[a][k].intent \in DOMAIN intents
          /\ f[a][k].revision <= intents[f[a][k].intent].revision
      BY <2>7 DEF EditInv, EditsReached
    <3>2. /\ f[a][k].intent \in DOMAIN intents'
          /\ intents[f[a][k].intent].revision <= intents'[f[a][k].intent].revision
      BY <2>1, <3>1 DEF IntentsGrow
    <3>3. f[a][k] \in Edit
      BY <1>1, <2>7 DEF IInv, Types
    <3>4. f[a][k].revision = commands["intent"][a].command.expected + 1
      BY <2>7 DEF EditInv, RevisionsHaveOneAuthor
    <3>. QED  BY <2>5, <2>6, <3>1, <3>2, <3>3, <3>4 DEF Edit, IntentRecord
  <2>8. EditsReached'
    <3>. SUFFICES ASSUME NEW a \in Ids, NEW k \in DOMAIN effects'["intent"][a]
                  PROVE  LET e == effects'["intent"][a][k]
                         IN  e.intent \in DOMAIN intents' /\ e.revision <= intents'[e.intent].revision
      BY DEF EditsReached
    <3>1. CASE a = head
      <4>1. effects'["intent"][a][k] = edit
        BY <2>4, <3>1
      <4>. QED  BY <2>1, <2>2, <4>1 DEF Edit
    <3>2. CASE a # head
      BY <2>4, <2>7, <3>2
    <3>. QED  BY <3>1, <3>2
  <2>9. RevisionsHaveOneAuthor'
    <3>. SUFFICES ASSUME NEW a \in Ids, NEW b \in Ids,
                         NEW k \in DOMAIN effects'["intent"][a],
                         NEW l \in DOMAIN effects'["intent"][b]
                  PROVE  /\ effects'["intent"][a][k] = effects'["intent"][b][l] => a = b /\ k = l
                         /\ effects'["intent"][a][k].revision
                              = commands["intent"][a].command.expected + 1
      BY <1>1 DEF RevisionsHaveOneAuthor
    <3>1. CASE a = head /\ b = head
      <4>1. k = 1 /\ l = 1 /\ effects'["intent"][a][k] = edit
        BY <2>4, <3>1
      <4>. QED  BY <1>2, <2>1, <3>1, <4>1
    <3>2. CASE a = head /\ b # head
      <4>1. effects'["intent"][a][k] = edit /\ effects'["intent"][b][l] = f[b][l]
            /\ l \in DOMAIN f[b]
        BY <2>4, <3>2
      <4>. QED  BY <1>2, <2>1, <3>2, <4>1
    <3>3. CASE a # head /\ b = head
      <4>1. effects'["intent"][a][k] = f[a][k] /\ effects'["intent"][b][l] = edit
            /\ k \in DOMAIN f[a]
        BY <2>4, <3>3
      <4>. QED  BY <2>1, <2>7, <3>3, <4>1
    <3>4. CASE a # head /\ b # head
      <4>1. effects'["intent"][a][k] = f[a][k] /\ effects'["intent"][b][l] = f[b][l]
            /\ k \in DOMAIN f[a] /\ l \in DOMAIN f[b]
        BY <2>4, <3>4
      <4>2. f[a][k] = f[b][l] => a = b /\ k = l
        BY <4>1 DEF EditInv, RevisionsHaveOneAuthor
      <4>. QED  BY <2>7, <3>4, <4>1, <4>2
    <3>. QED  BY <3>1, <3>2, <3>3, <3>4
  <2>. QED  BY <2>8, <2>9 DEF EditInv
<1>. QED  BY <1>3, <1>4 DEF ApplyIntent

\* Whatever happens, no edit is lost under another.
LEMMA EditInvStep == IInv /\ IInv' /\ EditInv /\ [Next]_vars => EditInv'
<1>. SUFFICES ASSUME IInv, IInv', EditInv, [Next]_vars
              PROVE  EditInv'
  OBVIOUS
<1>1. CASE \E s \in Sent : CheckRequest(s)
  BY <1>1, QuietStep DEF CheckRequest
<1>2. CASE Enqueue
  BY <1>2, EnqueueKeepsEdits
<1>3. CASE DrainRuntime \/ EndBoundary \/ RedBlocks \/ StepsRunOut \/ WallClockRunsOut \/ ResetDrain
           \/ UNCHANGED vars
  BY <1>3, QuietStep DEF DrainRuntime, EndBoundary, RedBlocks, StepsRunOut, WallClockRunsOut,
                         Finish, ResetDrain, vars
<1>4. CASE ApplyRuntime
  <2>1. effects'["intent"] = effects["intent"]
    <3>1. \/ UNCHANGED effects
          \/ effects' = [effects EXCEPT !["runtime"][Head(thread.batch)] = Append(@, NoEffect)]
      BY <1>4 DEF ApplyRuntime, Retry, Abort, Reject, Apply
    <3>. QED  BY <3>1 DEF IInv, Types, Queues
  <2>. QED  BY <1>4, <2>1, QuietStep DEF ApplyRuntime
<1>5. CASE DrainIntents
  <2>1. clock \in Nat /\ intents' = Expired(clock) /\ UNCHANGED <<commands, effects>>
    BY <1>5 DEF DrainIntents, IInv, Types
  <2>. QED  BY <2>1, ExpiredGrows, NoEditStep
<1>6. CASE Tick
  <2>1. clock + 1 \in Nat /\ intents' = Expired(clock + 1) /\ UNCHANGED <<commands, effects>>
    BY <1>6 DEF Tick, IInv, Types
  <2>. QED  BY <2>1, ExpiredGrows, NoEditStep
<1>7. CASE ApplyIntent
  BY <1>7, ApplyIntentKeepsEdits
<1>8. CASE ResetRebuild
  <2>1. \A id \in Ids : effects'["intent"][id] = <<>>
    BY <1>8 DEF ResetRebuild, FreshQueues, NoneOf, Queues
  <2>. QED  BY <2>1 DEF EditInv, EditsReached, RevisionsHaveOneAuthor
<1>. QED
  BY <1>1, <1>2, <1>3, <1>4, <1>5, <1>6, <1>7, <1>8 DEF Next, Server, Simulation

\* Two edits never leave the same intent at the same revision, and every edit
\* was made against the revision its client named.
THEOREM NoEditIsLost == Spec => []RevisionsHaveOneAuthor
<1>1. Init => EditInv
  <2>1. Init => \A id \in Ids : effects["intent"][id] = <<>>
    BY DEF Init, FreshQueues, NoneOf, Queues
  <2>. QED  BY <2>1 DEF EditInv, EditsReached, RevisionsHaveOneAuthor
<1>2. EditInv => RevisionsHaveOneAuthor
  BY DEF EditInv
<1>. QED  BY <1>1, <1>2, EditInvStep, InvariantHolds, PTL DEF Spec

-------------------------------------------------------------------------------
(* Life cycles. *)

\* An edit touches no intent that is closed.
LEMMA EditsSpareClosed ==
    ASSUME IInv, NEW c \in IntentCommand, Applicable(c), intents' = Edited(c),
           NEW i \in DOMAIN intents, intents[i].lifecycle # "active"
    PROVE  intents'[i] = intents[i]
<1>1. intents \in Seq(IntentRecord) /\ Len(intents) \in Nat /\ DOMAIN intents = 1..Len(intents)
  BY DEF IInv, Types
<1>2. CASE c.op = "create"
  BY <1>1, <1>2 DEF Edited, Created
<1>3. CASE c.op \in {"update", "cancel"}
  <2>1. c.intent # i
    BY <1>3 DEF Applicable, CurrentActive, Active
  <2>. QED  BY <1>1, <1>3, <2>1 DEF Edited, Updated, Cancelled
<1>. QED  BY <1>2, <1>3 DEF IntentCommand

\* A cancelled or expired intent never changes again.
THEOREM ClosedIntentsAreFinal == Spec => ClosedIntentsStayClosed
<1>1. ASSUME IInv, [Next]_vars, episode' = episode,
             NEW i \in DOMAIN intents, intents[i].lifecycle # "active"
      PROVE  intents'[i] = intents[i]
  <2>1. CASE UNCHANGED intents
    BY <2>1
  <2>2. CASE \E now \in {clock, clock + 1} : intents' = Expired(now)
    BY <1>1, <2>2 DEF Expired
  <2>3. CASE ApplyIntent
    <3>1. CASE MayEdit(Given("intent")) /\ intents' = Edited(Given("intent").command)
      <4>1. Given("intent").command \in IntentCommand
        BY <1>1, <2>3, HeadWaits DEF ApplyIntent, CommandsOf, Queues
      <4>. QED  BY <1>1, <3>1, <4>1, EditsSpareClosed DEF MayEdit
    <3>. QED  BY <2>3, <3>1 DEF ApplyIntent
  <2>4. UNCHANGED intents \/ (\E now \in {clock, clock + 1} : intents' = Expired(now))
          \/ ApplyIntent
    <3>1. CASE Server
      BY <3>1 DEF Server, CheckRequest, Enqueue
    <3>2. CASE Simulation
      BY <3>2 DEF Simulation, DrainRuntime, ApplyRuntime, DrainIntents, EndBoundary, RedBlocks,
                  Tick, StepsRunOut, Finish
    <3>3. CASE WallClockRunsOut \/ ResetDrain \/ UNCHANGED vars
      BY <3>3 DEF WallClockRunsOut, Finish, ResetDrain, vars
    <3>4. CASE ResetRebuild
      BY <1>1, <3>4 DEF ResetRebuild, IInv, Types
    <3>. QED  BY <1>1, <3>1, <3>2, <3>3, <3>4 DEF Next
  <2>. QED  BY <2>1, <2>2, <2>3, <2>4
<1>2. IInv /\ [Next]_vars =>
        [episode' = episode =>
           \A i \in DOMAIN intents :
             intents[i].lifecycle # "active" => intents'[i] = intents[i]]_vars
  BY <1>1
<1>. QED  BY <1>2, InvariantHolds, PTL DEF Spec, ClosedIntentsStayClosed

\* An edit leaves no active intent whose window has closed, if there was none.
LEMMA EditsAreInTime ==
    ASSUME IInv, NEW c \in IntentCommand, Applicable(c), intents' = Edited(c), clock' = clock,
           \A i \in Active : clock < intents[i].expires
    PROVE  \A i \in Active' : clock' < intents'[i].expires
<1>1. /\ intents \in Seq(IntentRecord) /\ Len(intents) \in Nat /\ DOMAIN intents = 1..Len(intents)
      /\ clock \in Nat
  BY DEF IInv, Types
<1>2. CASE c.op = "create"
  <2>1. /\ c.payload \in Payloads /\ DurationOf[c.payload] > 0
        /\ DurationOf[c.payload] \in Nat
    BY <1>2, CommandsAssumption DEF IntentCommand
  <2>2. /\ DOMAIN intents' = 1..(Len(intents) + 1)
        /\ \A i \in DOMAIN intents : intents'[i] = intents[i]
        /\ intents'[Len(intents) + 1].expires = clock + DurationOf[c.payload]
    BY <1>1, <1>2 DEF Edited, Created
  <2>. QED  BY <1>1, <2>1, <2>2 DEF Active
<1>3. CASE c.op \in {"update", "cancel"}
  <2>1. c.intent \in Active /\ c.intent \in DOMAIN intents
    BY <1>3 DEF Applicable, CurrentActive, Active
  <2>2. /\ DOMAIN intents' = DOMAIN intents
        /\ \A j \in DOMAIN intents : j # c.intent => intents'[j] = intents[j]
    BY <1>1, <1>3, <2>1 DEF Edited, Updated, Cancelled
  <2>3. c.intent \in Active' => clock < intents'[c.intent].expires
    <3>1. CASE c.op = "update"
      <4>1. DurationOf[c.payload] \in Nat
        BY <3>1, CommandsAssumption DEF IntentCommand
      <4>2. intents'[c.intent].expires =
              IF DurationOf[c.payload] > 0 THEN clock + DurationOf[c.payload]
                                           ELSE intents[c.intent].expires
        BY <1>1, <2>1, <3>1 DEF Edited, Updated, UpdatedIntent
      <4>. QED  BY <1>1, <2>1, <4>1, <4>2
    <3>2. CASE c.op = "cancel"
      BY <1>1, <2>1, <3>2 DEF Edited, Cancelled, CancelledIntent, Active
    <3>. QED  BY <1>3, <3>1, <3>2
  <2>. QED  BY <2>2, <2>3 DEF Active
<1>. QED  BY <1>2, <1>3 DEF IntentCommand

\* While commands are applied and the world is stepped, no intent is active
\* whose window has closed.
THEOREM LapsedIntentsAreClosed == Spec => []LapsedIntentsAreExpired
<1>1. Init => LapsedIntentsAreExpired
  BY DEF Init, AtBoundary, LapsedIntentsAreExpired
<1>2. ASSUME IInv, IInv', LapsedIntentsAreExpired, [Next]_vars
      PROVE  LapsedIntentsAreExpired'
  <2>1. CASE UNCHANGED <<clock, intents, thread>>
    BY <1>2, <2>1 DEF LapsedIntentsAreExpired, Active
  <2>2. CASE thread'.at \notin {"intent", "tick"}
    BY <2>2 DEF LapsedIntentsAreExpired
  <2>3. CASE DrainIntents
    <3>1. clock \in Nat /\ intents' = Expired(clock) /\ clock' = clock
      BY <1>2, <2>3 DEF DrainIntents, IInv, Types
    <3>2. ASSUME NEW i \in Active'
          PROVE  clock < intents'[i].expires
      <4>1. i \in DOMAIN intents /\ intents[i] \in IntentRecord
        BY <1>2, <3>1, <3>2 DEF Active, Expired, IInv, Types
      <4>2. ~(intents[i].lifecycle = "active" /\ clock >= intents[i].expires)
        BY <3>1, <3>2, <4>1 DEF Active, Expired, IntentRecord
      <4>3. intents'[i] = intents[i]
        BY <3>1, <4>1, <4>2 DEF Expired
      <4>. QED  BY <3>1, <3>2, <4>1, <4>2, <4>3 DEF Active, IntentRecord
    <3>. QED  BY <3>1, <3>2 DEF LapsedIntentsAreExpired
  <2>4. CASE ApplyIntent
    <3>1. /\ \A i \in Active : clock < intents[i].expires
          /\ clock' = clock
      BY <1>2, <2>4 DEF ApplyIntent, LapsedIntentsAreExpired
    <3>2. CASE MayEdit(Given("intent")) /\ intents' = Edited(Given("intent").command)
      <4>1. Given("intent").command \in IntentCommand
        BY <1>2, <2>4, HeadWaits DEF ApplyIntent, CommandsOf, Queues
      <4>. QED  BY <1>2, <3>1, <3>2, <4>1, EditsAreInTime DEF MayEdit, LapsedIntentsAreExpired
    <3>3. CASE UNCHANGED intents
      BY <3>1, <3>3 DEF LapsedIntentsAreExpired, Active
    <3>. QED  BY <2>4, <3>2, <3>3 DEF ApplyIntent
  <2>5. CASE EndBoundary
    BY <1>2, <2>5 DEF EndBoundary, LapsedIntentsAreExpired, Active
  <2>6. CASE ApplyRuntime
    <3>1. thread'.at = "runtime"
      BY <1>2, <2>6 DEF ApplyRuntime, Retry, Abort, Reject, Apply, Complete, IInv, Types
    <3>. QED  BY <2>2, <3>1
  <2>7. CASE DrainRuntime \/ RedBlocks \/ Tick \/ StepsRunOut \/ WallClockRunsOut \/ ResetDrain
               \/ ResetRebuild
    <3>1. thread'.at \in {"runtime", "boundary", "resetting"}
      <4>. thread \in [at : Queues \cup {"boundary", "tick", "resetting", "closed"},
                       batch : Seq(Ids), stepping : BOOLEAN, closing : BOOLEAN]
        BY <1>2 DEF IInv, Types
      <4>1. CASE DrainRuntime
        BY <4>1 DEF DrainRuntime, Drain
      <4>2. CASE RedBlocks \/ Tick \/ ResetRebuild
        BY <4>2 DEF RedBlocks, Tick, ResetRebuild, AtBoundary
      <4>3. CASE StepsRunOut \/ WallClockRunsOut \/ ResetDrain
        BY <4>3 DEF StepsRunOut, WallClockRunsOut, Finish, ResetDrain
      <4>. QED  BY <2>7, <4>1, <4>2, <4>3
    <3>. QED  BY <2>2, <3>1
  <2>8. CASE Server \/ UNCHANGED vars
    BY <2>1, <2>8 DEF Server, CheckRequest, Enqueue, vars
  <2>. QED  BY <1>2, <2>3, <2>4, <2>5, <2>6, <2>7, <2>8 DEF Next, Simulation
<1>3. IInv /\ IInv' /\ LapsedIntentsAreExpired /\ [Next]_vars => LapsedIntentsAreExpired'
  BY <1>2
<1>. QED  BY <1>1, <1>3, InvariantHolds, PTL DEF Spec
===============================================================================
