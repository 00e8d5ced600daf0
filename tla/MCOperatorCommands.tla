-------------------------- MODULE MCOperatorCommands --------------------------
(*****************************************************************************)
(* OperatorCommands with a few command ids and one payload, which lasts two  *)
(* minutes.                                                                  *)
(*****************************************************************************)
EXTENDS OperatorCommands

CONSTANTS c1, c2, c3, r1, brief, none

MCDurationOf == [p \in Payloads \cup {NoPayload} |-> IF p = brief THEN 2 ELSE 0]

Requests(q, ids, ops, episodes) ==
    [queue : {q}, id : ids, command : {c \in CommandsOf(q) : c.op \in ops},
     episode : episodes]

\* Two clients edit the intent a third one creates; the simulation is steered too.
\* In the second episode the ids of the first are used again, or come late.
CompetingEdits ==
    Requests("intent", {c1}, {"create"}, {1, 2})
      \cup Requests("intent", {c2, c3}, {"update", "cancel"}, {1})
      \cup Requests("runtime", {r1}, {"retry", "abort"}, {1, 2})

\* Every command under every id, in both queues.
AllRequests ==
    UNION {Requests(q, Ids, {c.op : c \in CommandsOf(q)}, 1..MaxEpisodes) : q \in Queues}
===============================================================================
