------------------------------ MODULE LeaseTable ------------------------------
(*****************************************************************************)
(* What the control ownership of the UAVs promises, without its callers: one *)
(* lease per UAV, whose generation moves by exactly one each time the lease  *)
(* changes hands, and a LEARNING controller that can only be put in charge   *)
(* of a UAV nobody is working.  ControlOwnership (the lock-protected lease   *)
(* store) and ControlCoordinator (every operation of the coordinator) are    *)
(* both shown to implement this specification.                               *)
(*****************************************************************************)
EXTENDS Naturals

CONSTANT UAVs

VARIABLE table        \* table[u]: the owner of u and the lease's generation

Owners == {"SYSTEM", "HEURISTIC", "LEARNING"}

TableType == table \in [UAVs -> [owner : Owners, gen : Nat]]

Init == table = [u \in UAVs |-> [owner |-> "SYSTEM", gen |-> 0]]

\* The UAVs of the set moved change hands together; the others keep their lease.
Move(moved, grant) ==
  /\ \A u \in moved : grant[u] = "LEARNING" => table[u].owner = "SYSTEM"
  /\ table' = [u \in UAVs |->
                 IF u \in moved
                   THEN [owner |-> grant[u], gen |-> table[u].gen + 1]
                   ELSE table[u]]

Next == \E moved \in SUBSET UAVs, grant \in [UAVs -> Owners] : Move(moved, grant)

Spec == Init /\ [][Next]_table
===============================================================================
