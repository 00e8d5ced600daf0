---------------------------- MODULE CommandReceipts ----------------------------
(*****************************************************************************)
(* What the command queues promise to an operator's client: a command that   *)
(* was accepted is carried out at most once, however often its request is    *)
(* repeated, and its receipt says which of the two ends it came to and never *)
(* changes again within the episode.  A new episode forgets the old one.     *)
(* Each queue has a namespace of command ids of its own.                     *)
(*****************************************************************************)
EXTENDS Naturals

CONSTANTS Namespaces, Ids

VARIABLES
    receipt,        \* what a client is told about each command
    done            \* how many times each command was carried out

Every(v) == [n \in Namespaces |-> [id \in Ids |-> v]]

Init == receipt = Every("none") /\ done = Every(0)

Accept(n, id) ==
    /\ receipt[n][id] = "none"
    /\ receipt' = [receipt EXCEPT ![n][id] = "queued"]
    /\ UNCHANGED done

CarryOut(n, id) ==
    /\ receipt[n][id] = "queued"
    /\ receipt' = [receipt EXCEPT ![n][id] = "applied"]
    /\ done' = [done EXCEPT ![n][id] = @ + 1]

Refuse(refused) ==
    /\ \A n \in Namespaces : \A id \in refused[n] : receipt[n][id] = "queued"
    /\ receipt' = [n \in Namespaces |-> [id \in Ids |->
                      IF id \in refused[n] THEN "rejected" ELSE receipt[n][id]]]
    /\ UNCHANGED done

Forget == receipt' = Every("none") /\ done' = Every(0)

Next ==
    \/ \E n \in Namespaces, id \in Ids : Accept(n, id) \/ CarryOut(n, id)
    \/ \E refused \in [Namespaces -> SUBSET Ids] : Refuse(refused)
    \/ Forget

Spec == Init /\ [][Next]_<<receipt, done>>
=================================================================================
