------------------------------ MODULE MCAgentLoop ------------------------------
(*****************************************************************************)
(* AgentLoop with the steering queue handed over one message at a time and   *)
(* the follow-up queue all at once.                                          *)
(*****************************************************************************)
EXTENDS AgentLoop

MCMode == [q \in Queues |-> IF q = "steer" THEN "one-at-a-time" ELSE "all"]
===============================================================================
