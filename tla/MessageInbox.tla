----------------------------- MODULE MessageInbox -----------------------------
(*****************************************************************************)
(* What the agent promises to whoever sends it a message while it works: the *)
(* messages of a queue reach the transcript in the order they were sent and  *)
(* each at most once.  A stretch of the waiting messages may be given up (a  *)
(* cleared queue, a run that fails with messages already drained), but what  *)
(* was given up never arrives later.  AgentLoop implements this              *)
(* specification.                                                            *)
(*****************************************************************************)
EXTENDS Naturals, Sequences

CONSTANTS Queues, Messages

VARIABLES
    waiting,    \* per queue: sent and neither delivered nor given up
    delivered,  \* per queue: in the transcript, in order
    sent        \* every message sent so far

Empty == [q \in Queues |-> <<>>]

Init == waiting = Empty /\ delivered = Empty /\ sent = {}

Send(q, m) ==
    /\ m \notin sent
    /\ sent' = sent \cup {m}
    /\ waiting' = [waiting EXCEPT ![q] = Append(@, m)]
    /\ UNCHANGED delivered

Deliver(q) ==
    /\ waiting[q] # <<>>
    /\ waiting' = [waiting EXCEPT ![q] = Tail(@)]
    /\ delivered' = [delivered EXCEPT ![q] = Append(@, Head(waiting[q]))]
    /\ UNCHANGED sent

\* All but the i-th to the j-th waiting message of q are given up.
GiveUp(q, i, j) ==
    /\ waiting' = [waiting EXCEPT ![q] = SubSeq(@, i, j)]
    /\ UNCHANGED <<delivered, sent>>

\* A new conversation.
StartOver == waiting' = Empty /\ delivered' = Empty /\ UNCHANGED sent

Next ==
    \/ StartOver
    \/ \E q \in Queues :
        \/ Deliver(q)
        \/ \E m \in Messages : Send(q, m)
        \/ \E i \in 1..(Len(waiting[q]) + 1), j \in 0..Len(waiting[q]) : GiveUp(q, i, j)

Spec == Init /\ [][Next]_<<waiting, delivered, sent>>
===============================================================================
