-------------------------- MODULE MCControlOwnership --------------------------
(*****************************************************************************)
(* Two callers (the simulation step and a second component that holds a      *)
(* lease) that race for two UAVs, one controller id besides "system".        *)
(*****************************************************************************)
EXTENDS ControlOwnership

CONSTANTS u1, u2, c1, c2, k1

TwoUAVs == {u1, u2}
TwoCallers == {c1, c2}
OneController == {k1}
===============================================================================
