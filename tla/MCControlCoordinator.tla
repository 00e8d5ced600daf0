------------------------- MODULE MCControlCoordinator -------------------------
(*****************************************************************************)
(* A small fleet for the coordinator: one heuristic UAV driven through a     *)
(* long history.                                                             *)
(*****************************************************************************)
EXTENDS ControlCoordinator

CONSTANTS u1, r1, r2, c1, p1, p2, none

OneUAV == {u1}
NoneLearned == {}
OneRegion == {r1}
TwoRegions == {r1, r2}
OneContact == {c1}
OneProbe == {p1}
TwoProbes == {p1, p2}
===============================================================================
