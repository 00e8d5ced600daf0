--------------------------- MODULE ControlOwnership ---------------------------
(*****************************************************************************)
(* src/src/control/common/ownership.py: the lease store.  Every method runs  *)
(* under one lock, so each is one action; what interleaves is the callers,   *)
(* who keep a lease they read or were given and present it later.  A call    *)
(* whose lease is no longer the stored one raises and changes nothing, so it *)
(* has no action.                                                            *)
(*                                                                           *)
(* Bound: MaxGen, the generation after which no more leases are written.     *)
(*****************************************************************************)
EXTENDS Naturals

CONSTANTS UAVs,          \* the UAV ids
          Callers,       \* the threads or components that hold leases
          Controllers,   \* controller ids, without the store's own "system"
          MaxGen         \* bound on the generations

ASSUME MaxGenAssumption == MaxGen \in Nat

VARIABLES leases,        \* leases[u]: the authoritative lease of u
          seen           \* seen[c][u]: the last lease of u that c was handed

vars == <<leases, seen>>

Owners == {"SYSTEM", "HEURISTIC", "LEARNING"}

Lease == [owner : Owners, ctl : Controllers \cup {"system"}, gen : Nat]

FreshLease == [owner |-> "SYSTEM", ctl |-> "system", gen |-> 0]

Init ==
  /\ leases = [u \in UAVs |-> FreshLease]
  /\ seen = [c \in Callers |-> [u \in UAVs |-> FreshLease]]

\* (mutant) only the UAV of the presented lease is looked at.
AcceptsAnyLease(c, u) == TRUE

\* accepts and _require_current: the lease that c presents is the stored one.
Accepts(c, u) == seen[c][u] = leases[u]

\* (mutant) the generation is not moved on.
SuccessorSameGeneration(u, owner, ctl) ==
  [owner |-> owner, ctl |-> ctl, gen |-> leases[u].gen]

Successor(u, owner, ctl) ==
  [owner |-> owner, ctl |-> ctl, gen |-> leases[u].gen + 1]

\* Store a new lease for u and hand it to the caller c.
Install(c, u, owner, ctl) ==
  /\ leases[u].gen < MaxGen
  /\ leases' = [leases EXCEPT ![u] = Successor(u, owner, ctl)]
  /\ seen' = [seen EXCEPT ![c][u] = Successor(u, owner, ctl)]

Current(c, u) ==
  /\ seen' = [seen EXCEPT ![c][u] = leases[u]]
  /\ UNCHANGED leases

\* (mutant) the owner is not looked at.
AcquireFromAnyOwner(c, u, owner, ctl) == Install(c, u, owner, ctl)

Acquire(c, u, owner, ctl) ==
  /\ leases[u].owner = "SYSTEM"
  /\ Install(c, u, owner, ctl)

\* The callers replace a lease by heuristic work or by a SYSTEM task.
Replace(c, u, owner, ctl) ==
  /\ Accepts(c, u)
  /\ owner \in {"SYSTEM", "HEURISTIC"}
  /\ Install(c, u, owner, ctl)

ReleaseToSystem(c, u) ==
  /\ Accepts(c, u)
  /\ Install(c, u, "SYSTEM", "system")

\* All leases of the batch are checked before the first one is written.
TransitionBatch(c, batch, ctl) ==
  /\ \A u \in batch : Accepts(c, u) /\ leases[u].gen < MaxGen
  /\ leases' = [u \in UAVs |->
                  IF u \in batch THEN Successor(u, "HEURISTIC", ctl) ELSE leases[u]]
  /\ seen' = [seen EXCEPT ![c] =
                [u \in UAVs |-> IF u \in batch THEN Successor(u, "HEURISTIC", ctl)
                                               ELSE seen[c][u]]]

Next ==
  \E c \in Callers :
    \/ \E u \in UAVs : Current(c, u)
    \/ \E u \in UAVs, owner \in {"HEURISTIC", "LEARNING"}, ctl \in Controllers :
         Acquire(c, u, owner, ctl)
    \/ \E u \in UAVs, owner \in {"SYSTEM", "HEURISTIC"}, ctl \in Controllers :
         Replace(c, u, owner, ctl)
    \/ \E u \in UAVs : ReleaseToSystem(c, u)
    \/ \E batch \in (SUBSET UAVs) \ {{}}, ctl \in Controllers :
         TransitionBatch(c, batch, ctl)

Spec == Init /\ [][Next]_vars

-------------------------------------------------------------------------------
\* Every lease, stored or remembered, is a lease of this store.
TypeOK ==
  /\ leases \in [UAVs -> Lease]
  /\ seen \in [Callers -> [UAVs -> Lease]]

\* The generation alone identifies a lease: a caller whose remembered lease has
\* the stored generation holds the stored lease, owner and controller included.
\* The coordinator's batch relies on it when it compares generations only
\* (expected_generation, coordinator.py:395).
GenerationIdentifiesLease ==
  \A c \in Callers, u \in UAVs :
    /\ seen[c][u].gen <= leases[u].gen
    /\ seen[c][u].gen = leases[u].gen => seen[c][u] = leases[u]

\* A UAV under a work lease changes hands only through a caller that holds that
\* very lease: of two callers that read the same lease and both try to move the
\* UAV on, the second is refused (ownership.py: _require_current).
WorkLeaseIsFenced ==
  [][\A u \in UAVs :
       leases'[u] # leases[u] /\ leases[u].owner # "SYSTEM" =>
         \E c \in Callers : seen[c][u] = leases[u] /\ seen'[c][u] = leases'[u]]_vars

\* The store implements the lease table.
Table == INSTANCE LeaseTable WITH
           table <- [u \in UAVs |-> [owner |-> leases[u].owner, gen |-> leases[u].gen]]

\* Seen from outside, each call moves the leases of the UAVs it names by one
\* generation and no other, and hands a UAV to a learned policy only when the
\* SYSTEM holds it.
ImplementsLeaseTable == Table!Spec
===============================================================================
