------------------------------- MODULE MCPiWorker -------------------------------
(*****************************************************************************)
(* PiWorker with small budgets.                                              *)
(*****************************************************************************)
EXTENDS PiWorker

CONSTANTS f1, none
===============================================================================
