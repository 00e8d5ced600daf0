------------------------ MODULE ControlOwnershipProofs ------------------------
(*****************************************************************************)
(* The lease store for any set of UAVs, callers and controllers: the fence   *)
(* holds, and the store implements the lease table.                          *)
(*****************************************************************************)
EXTENDS ControlOwnership, TLAPS

\* Every stored or remembered lease stays a lease of the store.
THEOREM TypeCorrect == Spec => []TypeOK
<1>1. Init => TypeOK
  BY DEF Init, TypeOK, FreshLease, Lease, Owners
<1>2. TypeOK /\ [Next]_vars => TypeOK'
  <2> SUFFICES ASSUME TypeOK, [Next]_vars PROVE TypeOK'
    OBVIOUS
  <2> USE DEF TypeOK, Lease, Owners
  <2>1. ASSUME NEW c \in Callers, NEW u \in UAVs, Current(c, u) PROVE TypeOK'
    BY <2>1 DEF Current
  <2>2. ASSUME NEW c \in Callers, NEW u \in UAVs, NEW owner \in Owners,
               NEW ctl \in Controllers \cup {"system"}, Install(c, u, owner, ctl)
        PROVE  TypeOK'
    BY <2>2 DEF Install, Successor
  <2>3. ASSUME NEW c \in Callers, NEW batch \in SUBSET UAVs, NEW ctl \in Controllers,
               TransitionBatch(c, batch, ctl)
        PROVE  TypeOK'
    <3>1. \A u \in UAVs : Successor(u, "HEURISTIC", ctl) \in Lease
      BY DEF Successor
    <3>2. leases' \in [UAVs -> Lease]
      BY <2>3, <3>1 DEF TransitionBatch
    <3>3. seen' \in [Callers -> [UAVs -> Lease]]
      BY <2>3, <3>1 DEF TransitionBatch
    <3> QED BY <3>2, <3>3
  <2>4. CASE UNCHANGED vars
    BY <2>4 DEF vars
  <2>5. ASSUME NEW c \in Callers, NEW u \in UAVs, NEW owner \in {"HEURISTIC", "LEARNING"},
               NEW ctl \in Controllers, Acquire(c, u, owner, ctl)
        PROVE  TypeOK'
    BY ONLY <2>2, <2>5 DEF Acquire, Owners
  <2>6. ASSUME NEW c \in Callers, NEW u \in UAVs, NEW owner \in {"SYSTEM", "HEURISTIC"},
               NEW ctl \in Controllers, Replace(c, u, owner, ctl)
        PROVE  TypeOK'
    BY ONLY <2>2, <2>6 DEF Replace, Owners
  <2>7. ASSUME NEW c \in Callers, NEW u \in UAVs, ReleaseToSystem(c, u) PROVE TypeOK'
    BY ONLY <2>2, <2>7 DEF ReleaseToSystem, Owners
  <2> QED
    BY ONLY <2>1, <2>3, <2>4, <2>5, <2>6, <2>7, [Next]_vars DEF Next
<1> QED
  BY <1>1, <1>2, PTL DEF Spec

\* The generation of a remembered lease says whether it is the stored one.
THEOREM GenerationIdentifies == Spec => []GenerationIdentifiesLease
<1>1. Init => GenerationIdentifiesLease
  <2>1. FreshLease.gen <= FreshLease.gen
    BY DEF FreshLease
  <2> QED BY <2>1 DEF Init, GenerationIdentifiesLease
<1>2. TypeOK /\ GenerationIdentifiesLease /\ [Next]_vars => GenerationIdentifiesLease'
  <2> SUFFICES ASSUME TypeOK, GenerationIdentifiesLease, [Next]_vars
               PROVE  GenerationIdentifiesLease'
    OBVIOUS
  <2> USE DEF TypeOK, Lease, GenerationIdentifiesLease
  <2>1. ASSUME NEW c \in Callers, NEW u \in UAVs, Current(c, u)
        PROVE  GenerationIdentifiesLease'
    BY <2>1 DEF Current
  <2>2. ASSUME NEW c \in Callers, NEW u \in UAVs, NEW owner, NEW ctl,
               Install(c, u, owner, ctl)
        PROVE  GenerationIdentifiesLease'
    BY <2>2 DEF Install, Successor
  <2>3. ASSUME NEW c \in Callers, NEW batch \in SUBSET UAVs, NEW ctl \in Controllers,
               TransitionBatch(c, batch, ctl)
        PROVE  GenerationIdentifiesLease'
    BY <2>3 DEF TransitionBatch, Successor
  <2>4. CASE UNCHANGED vars
    BY <2>4 DEF vars
  <2> QED
    BY <2>1, <2>2, <2>3, <2>4 DEF Next, Acquire, Replace, ReleaseToSystem
<1> QED
  BY <1>1, <1>2, TypeCorrect, PTL DEF Spec

\* Of the callers that read one work lease, at most one moves the UAV on with it.
THEOREM WorkLeaseFenced == Spec => WorkLeaseIsFenced
<1>1. TypeOK /\ [Next]_vars =>
        [\A u \in UAVs :
           leases'[u] # leases[u] /\ leases[u].owner # "SYSTEM" =>
             \E c \in Callers : seen[c][u] = leases[u] /\ seen'[c][u] = leases'[u]]_vars
  <2> SUFFICES ASSUME TypeOK, Next, NEW u \in UAVs,
                      leases'[u] # leases[u], leases[u].owner # "SYSTEM"
               PROVE  \E c \in Callers : seen[c][u] = leases[u] /\ seen'[c][u] = leases'[u]
    OBVIOUS
  <2> USE DEF TypeOK
  <2>1. ASSUME NEW c \in Callers, NEW v \in UAVs, Current(c, v) PROVE FALSE
    BY <2>1 DEF Current
  <2>2. ASSUME NEW c \in Callers, NEW v \in UAVs, NEW owner, NEW ctl,
               Install(c, v, owner, ctl)
        PROVE  u = v /\ seen'[c][u] = leases'[u]
    BY <2>2 DEF Install
  <2>3. ASSUME NEW c \in Callers, NEW v \in UAVs, NEW owner, NEW ctl,
               Accepts(c, v), Install(c, v, owner, ctl)
        PROVE  \E d \in Callers : seen[d][u] = leases[u] /\ seen'[d][u] = leases'[u]
    BY <2>2, <2>3 DEF Accepts
  <2>4. ASSUME NEW c \in Callers, NEW v \in UAVs, NEW owner, NEW ctl,
               Acquire(c, v, owner, ctl)
        PROVE  FALSE
    BY <2>2, <2>4 DEF Acquire
  <2>5. ASSUME NEW c \in Callers, NEW batch \in SUBSET UAVs, NEW ctl \in Controllers,
               TransitionBatch(c, batch, ctl)
        PROVE  seen[c][u] = leases[u] /\ seen'[c][u] = leases'[u]
    BY <2>5 DEF TransitionBatch, Accepts
  <2> QED
    BY <2>1, <2>3, <2>4, <2>5 DEF Next, Replace, ReleaseToSystem
<1> QED
  BY <1>1, TypeCorrect, PTL DEF Spec, WorkLeaseIsFenced

\* Every step of the store is a step of the lease table, or none.
THEOREM ImplementsTable == Spec => ImplementsLeaseTable
<1> DEFINE Row(u) == [owner |-> leases[u].owner, gen |-> leases[u].gen]
           table == [u \in UAVs |-> Row(u)]
<1>1. Init => Table!Init
  BY DEF Init, FreshLease, Table!Init
<1>2. TypeOK /\ [Next]_vars => [Table!Next]_table
  <2> SUFFICES ASSUME TypeOK, [Next]_vars PROVE [Table!Next]_table
    OBVIOUS
  <2> USE DEF TypeOK, Lease
  <2>1. ASSUME NEW batch \in SUBSET UAVs, NEW grant \in [UAVs -> Owners],
               \A u \in batch : grant[u] = "LEARNING" => leases[u].owner = "SYSTEM",
               \A u \in batch : /\ leases'[u].owner = grant[u]
                                /\ leases'[u].gen = leases[u].gen + 1,
               \A u \in UAVs \ batch : leases'[u] = leases[u]
        PROVE  Table!Next
    <3>1. Table!Move(batch, grant)
      BY <2>1 DEF Table!Move
    <3> QED BY <3>1 DEF Table!Next, Table!Owners, Owners
  <2>2. ASSUME NEW c \in Callers, NEW u \in UAVs, NEW owner \in Owners, NEW ctl,
               owner = "LEARNING" => leases[u].owner = "SYSTEM",
               Install(c, u, owner, ctl)
        PROVE  Table!Next
    <3> DEFINE grant == [v \in UAVs |-> owner]
    <3>1. /\ leases'[u].owner = grant[u]
          /\ leases'[u].gen = leases[u].gen + 1
          /\ \A v \in UAVs \ {u} : leases'[v] = leases[v]
      BY <2>2 DEF Install, Successor
    <3>2. grant \in [UAVs -> Owners] /\ {u} \in SUBSET UAVs
      OBVIOUS
    <3>3. \A v \in {u} : grant[v] = "LEARNING" => leases[v].owner = "SYSTEM"
      BY <2>2
    <3> HIDE DEF grant
    <3> QED BY <2>1, <3>1, <3>2, <3>3
  <2>3. ASSUME NEW c \in Callers, NEW batch \in SUBSET UAVs, NEW ctl \in Controllers,
               TransitionBatch(c, batch, ctl)
        PROVE  Table!Next
    <3> DEFINE grant == [v \in UAVs |-> "HEURISTIC"]
    <3>1. /\ \A v \in batch : /\ leases'[v].owner = grant[v]
                              /\ leases'[v].gen = leases[v].gen + 1
          /\ \A v \in UAVs \ batch : leases'[v] = leases[v]
      BY <2>3 DEF TransitionBatch, Successor
    <3>2. grant \in [UAVs -> Owners]
      BY DEF Owners
    <3>3. \A v \in batch : grant[v] # "LEARNING"
      OBVIOUS
    <3> HIDE DEF grant
    <3> QED BY <2>1, <3>1, <3>2, <3>3
  <2>4. ASSUME NEW c \in Callers, NEW u \in UAVs, Current(c, u) PROVE UNCHANGED table
    BY <2>4 DEF Current
  <2>5. CASE UNCHANGED vars
    BY <2>5 DEF vars
  <2>6. ASSUME NEW c \in Callers, NEW u \in UAVs, NEW owner \in {"HEURISTIC", "LEARNING"},
               NEW ctl, Acquire(c, u, owner, ctl)
        PROVE  Table!Next
    BY <2>2, <2>6 DEF Acquire, Owners
  <2>7. ASSUME NEW c \in Callers, NEW u \in UAVs, NEW owner, NEW ctl, Replace(c, u, owner, ctl)
        PROVE  Table!Next
    BY <2>2, <2>7 DEF Replace, Owners
  <2>8. ASSUME NEW c \in Callers, NEW u \in UAVs, ReleaseToSystem(c, u)
        PROVE  Table!Next
    BY <2>2, <2>8 DEF ReleaseToSystem, Owners
  <2> QED
    BY <2>3, <2>4, <2>5, <2>6, <2>7, <2>8 DEF Next
<1> QED
  BY <1>1, <1>2, TypeCorrect, PTL DEF Spec, ImplementsLeaseTable, Table!Spec
===============================================================================
