---------------------------- MODULE SessionLogProofs ----------------------------
(*******************************************************************************)
(* Proofs about SessionLog, for every number of files, ids, kinds of entries,  *)
(* faults and files of earlier processes.                                      *)
(*******************************************************************************)
EXTENDS SessionLog, TLAPS, FiniteSetTheorems, WellFoundedInduction
-------------------------------------------------------------------------------
(* What is picked from a sequence. *)

\* How many of some places stand up to a place.
UpTo(places, k) == {j \in places : j <= k}

\* A place has as many places up to it as its number among them, and no two places
\* have the same number (Picked, which stands for the filters of session-manager.ts).
LEMMA Ranks ==
    ASSUME NEW n \in Nat, NEW P \in SUBSET (1..n)
    PROVE  /\ IsFiniteSet(P) /\ Cardinality(P) \in Nat
           /\ \A k \in P : Cardinality(UpTo(P, k)) \in 1..Cardinality(P)
           /\ \A k, l \in P : k < l => Cardinality(UpTo(P, k)) < Cardinality(UpTo(P, l))
<1>1. IsFiniteSet(P) /\ Cardinality(P) \in Nat
  <2>1. IsFiniteSet(1..n)
    BY FS_Interval
  <2>2. IsFiniteSet(P)
    BY <2>1, FS_Subset
  <2> QED  BY <2>2, FS_CardinalityType
<1>2. ASSUME NEW k \in P
      PROVE  /\ IsFiniteSet(UpTo(P, k)) /\ Cardinality(UpTo(P, k)) \in Nat
             /\ Cardinality(UpTo(P, k)) <= Cardinality(P)
  <2>1. UpTo(P, k) \in SUBSET P
    BY DEF UpTo
  <2>2. IsFiniteSet(UpTo(P, k)) /\ Cardinality(UpTo(P, k)) <= Cardinality(P)
    BY <1>1, <2>1, FS_Subset
  <2> QED  BY <2>2, FS_CardinalityType
<1>3. ASSUME NEW k \in P
      PROVE  Cardinality(UpTo(P, k)) \in 1..Cardinality(P)
  <2>1. UpTo(P, k) # {}
    BY <1>3 DEF UpTo
  <2>2. Cardinality(UpTo(P, k)) # 0
    BY <1>2, <1>3, <2>1, FS_EmptySet
  <2> QED  BY <1>1, <1>2, <1>3, <2>2
<1>4. ASSUME NEW k \in P, NEW l \in P, k < l
      PROVE  Cardinality(UpTo(P, k)) < Cardinality(UpTo(P, l))
  <2>1. l \notin UpTo(P, k) /\ UpTo(P, k) \cup {l} \in SUBSET UpTo(P, l)
    <3>1. P \subseteq Nat
      OBVIOUS
    <3>2. \A j \in P : j <= k => j <= l
      BY <1>4, <3>1
    <3>3. ~(l <= k) /\ l <= l
      BY <1>4, <3>1
    <3> QED  BY <1>4, <3>2, <3>3 DEF UpTo
  <2>2. Cardinality(UpTo(P, k) \cup {l}) = Cardinality(UpTo(P, k)) + 1
    BY <1>2, <1>4, <2>1, FS_AddElement
  <2>3. Cardinality(UpTo(P, k) \cup {l}) <= Cardinality(UpTo(P, l))
    BY <1>2, <1>4, <2>1, FS_Subset
  <2> QED  BY <1>2, <1>4, <2>2, <2>3
<1> QED  BY <1>1, <1>3, <1>4

\* The n-th place is a place, comes before the one after it, and every place is the
\* n-th for some n.
LEMMA Places ==
    ASSUME NEW n \in Nat, NEW P \in SUBSET (1..n)
    PROVE  /\ Cardinality(P) \in Nat
           /\ \A i \in 1..Cardinality(P) :
                Nth(P, i) \in P /\ Cardinality(UpTo(P, Nth(P, i))) = i
           /\ \A i, j \in 1..Cardinality(P) : i < j => Nth(P, i) < Nth(P, j)
           /\ \A k \in P : \E i \in 1..Cardinality(P) : Nth(P, i) = k
<1> DEFINE c == Cardinality(P)
           Rank == [k \in P |-> Cardinality(UpTo(P, k))]
<1>1. /\ IsFiniteSet(P) /\ c \in Nat
      /\ \A k \in P : Cardinality(UpTo(P, k)) \in 1..c
      /\ \A k, l \in P : k < l => Cardinality(UpTo(P, k)) < Cardinality(UpTo(P, l))
  BY Ranks
<1>2. P \subseteq Nat
  OBVIOUS
<1>3. ASSUME NEW k \in P, NEW l \in P, k # l
      PROVE  Cardinality(UpTo(P, k)) # Cardinality(UpTo(P, l))
  <2>1. k < l \/ l < k
    BY <1>2, <1>3
  <2> QED  BY <1>1, <1>3, <2>1
<1>4. Rank \in Injection(P, 1..c)
  <2>1. Rank \in [P -> 1..c]
    BY <1>1
  <2>2. \A k, l \in P : Rank[k] = Rank[l] => k = l
    BY <1>3
  <2> QED  BY <2>1, <2>2 DEF Injection, IsInjective
<1>5. Rank \in Surjection(P, 1..c)
  <2>1. IsFiniteSet(1..c) /\ Cardinality(1..c) = c
    BY <1>1, FS_Interval
  <2>2. Cardinality(P) = Cardinality(1..c)
    BY <2>1
  <2> HIDE DEF c, Rank
  <2> QED  BY <1>4, <2>1, <2>2, FS_Injection
<1>6. ASSUME NEW i \in 1..c
      PROVE  Nth(P, i) \in P /\ Cardinality(UpTo(P, Nth(P, i))) = i
  <2>1. \E k \in P : Rank[k] = i
    BY <1>5 DEF Surjection
  <2>2. \E k \in P : Cardinality({j \in P : j <= k}) = i
    BY <2>1 DEF UpTo
  <2> QED  BY <2>2 DEF Nth, UpTo
<1>7. ASSUME NEW i \in 1..c, NEW j \in 1..c, i < j
      PROVE  Nth(P, i) < Nth(P, j)
  <2>1. /\ Nth(P, i) \in P /\ Cardinality(UpTo(P, Nth(P, i))) = i
        /\ Nth(P, j) \in P /\ Cardinality(UpTo(P, Nth(P, j))) = j
    BY <1>6
  <2>2. PICK k \in P : k = Nth(P, i)
    BY <2>1
  <2>3. PICK l \in P : l = Nth(P, j)
    BY <2>1
  <2>4. Cardinality(UpTo(P, k)) = i /\ Cardinality(UpTo(P, l)) = j
    BY <2>1, <2>2, <2>3
  <2>5. k # l /\ ~(l < k)
    BY <1>1, <1>7, <2>4
  <2>6. k < l
    BY <1>2, <2>5
  <2> QED  BY <2>2, <2>3, <2>6
<1>8. ASSUME NEW k \in P
      PROVE  \E i \in 1..c : Nth(P, i) = k
  <2>1. Cardinality(UpTo(P, k)) \in 1..c
    BY <1>1
  <2>2. /\ Nth(P, Cardinality(UpTo(P, k))) \in P
        /\ Cardinality(UpTo(P, Nth(P, Cardinality(UpTo(P, k))))) = Cardinality(UpTo(P, k))
    BY <1>6, <2>1
  <2>3. Nth(P, Cardinality(UpTo(P, k))) = k
    BY <1>3, <2>2
  <2> QED  BY <2>1, <2>3
<1> QED  BY <1>1, <1>6, <1>7, <1>8

\* A function on 1..n is a sequence of length n.
LEMMA SequenceOf ==
    ASSUME NEW T, NEW n \in Nat, NEW s \in [1..n -> T]
    PROVE  s \in Seq(T) /\ Len(s) = n /\ DOMAIN s = 1..n
OBVIOUS

\* Two sequences are the same if they agree at every place.
LEMMA SameSequence ==
    ASSUME NEW T, NEW s \in Seq(T), NEW t \in Seq(T), Len(s) = Len(t),
           \A k \in 1..Len(s) : s[k] = t[k]
    PROVE  s = t
OBVIOUS

\* What stands where in an appended sequence.
LEMMA AppendAt ==
    ASSUME NEW T, NEW s \in Seq(T), NEW x \in T
    PROVE  /\ Append(s, x) \in Seq(T) /\ Len(Append(s, x)) = Len(s) + 1
           /\ DOMAIN s = 1..Len(s) /\ DOMAIN Append(s, x) = 1..(Len(s) + 1)
           /\ \A k \in 1..Len(s) : Append(s, x)[k] = s[k]
           /\ Append(s, x)[Len(s) + 1] = x
OBVIOUS

\* What is picked from a sequence is a sequence of its elements, in their order.
LEMMA PickedType ==
    ASSUME NEW T, NEW s \in Seq(T), NEW P \in SUBSET (1..Len(s))
    PROVE  /\ Picked(s, P) \in Seq(T) /\ Len(Picked(s, P)) = Cardinality(P)
           /\ Cardinality(P) \in Nat /\ DOMAIN Picked(s, P) = 1..Cardinality(P)
           /\ \A i \in 1..Cardinality(P) : Nth(P, i) \in P /\ Picked(s, P)[i] = s[Nth(P, i)]
           /\ \A i, j \in 1..Cardinality(P) : i < j => Nth(P, i) < Nth(P, j)
           /\ \A k \in P : \E i \in 1..Cardinality(P) : Nth(P, i) = k
<1> DEFINE c == Cardinality(P)
<1>1. /\ c \in Nat
      /\ \A i \in 1..c : Nth(P, i) \in P
      /\ \A i, j \in 1..c : i < j => Nth(P, i) < Nth(P, j)
      /\ \A k \in P : \E i \in 1..c : Nth(P, i) = k
  <2>1. Len(s) \in Nat
    OBVIOUS
  <2> QED  BY <2>1, Places
<1>2. Picked(s, P) = [i \in 1..c |-> s[Nth(P, i)]]
  BY DEF Picked
<1>3. \A k \in P : s[k] \in T
  OBVIOUS
<1>4. Picked(s, P) \in [1..c -> T]
  BY <1>1, <1>2, <1>3
<1> HIDE DEF c
<1>5. Picked(s, P) \in Seq(T) /\ Len(Picked(s, P)) = c /\ DOMAIN Picked(s, P) = 1..c
  BY <1>1, <1>4, SequenceOf
<1> QED  BY <1>1, <1>2, <1>5 DEF c

\* The numbers of places do not change when a place behind them joins.
LEMMA PlacesGrow ==
    ASSUME NEW n \in Nat, NEW P \in SUBSET (1..n)
    PROVE  /\ Cardinality(P \cup {n + 1}) = Cardinality(P) + 1
           /\ \A i \in 1..Cardinality(P) : Nth(P \cup {n + 1}, i) = Nth(P, i)
           /\ Nth(P \cup {n + 1}, Cardinality(P) + 1) = n + 1
<1> DEFINE Q == P \cup {n + 1}
           c == Cardinality(P)
<1>1. P \subseteq Nat /\ n + 1 \notin P /\ Q \in SUBSET (1..(n + 1)) /\ n + 1 \in Nat
  OBVIOUS
<1>2. IsFiniteSet(P) /\ c \in Nat
  BY Ranks
<1>3. Cardinality(Q) = c + 1
  BY <1>1, <1>2, FS_AddElement
<1>4. /\ \A k \in Q : Cardinality(UpTo(Q, k)) \in 1..(c + 1)
      /\ \A k, l \in Q : k < l => Cardinality(UpTo(Q, k)) < Cardinality(UpTo(Q, l))
  <2> HIDE DEF Q, c
  <2> QED  BY <1>1, <1>3, Ranks
<1>5. ASSUME NEW k \in Q, NEW l \in Q, Cardinality(UpTo(Q, k)) = Cardinality(UpTo(Q, l))
      PROVE  k = l
  <2>1. ~(k < l) /\ ~(l < k)
    BY <1>4, <1>5
  <2> QED  BY <1>1, <2>1
<1>6. \A k \in P : UpTo(Q, k) = UpTo(P, k)
  <2>1. \A k \in P : ~(n + 1 <= k)
    BY <1>1
  <2> QED  BY <2>1 DEF UpTo
<1>7. /\ \A i \in 1..c : Nth(P, i) \in P /\ Cardinality(UpTo(P, Nth(P, i))) = i
      /\ \A i \in 1..(c + 1) : Nth(Q, i) \in Q /\ Cardinality(UpTo(Q, Nth(Q, i))) = i
  <2>1. \A i \in 1..c : Nth(P, i) \in P /\ Cardinality(UpTo(P, Nth(P, i))) = i
    BY Places
  <2> HIDE DEF Q, c
  <2>2. \A i \in 1..(c + 1) : Nth(Q, i) \in Q /\ Cardinality(UpTo(Q, Nth(Q, i))) = i
    BY <1>1, <1>3, Places
  <2> QED  BY <2>1, <2>2
<1>8. ASSUME NEW i \in 1..c
      PROVE  Nth(Q, i) = Nth(P, i)
  <2>1. i \in 1..(c + 1)
    BY <1>2
  <2>2. Cardinality(UpTo(Q, Nth(P, i))) = i /\ Nth(P, i) \in Q
    BY <1>6, <1>7
  <2>3. Cardinality(UpTo(Q, Nth(Q, i))) = i /\ Nth(Q, i) \in Q
    BY <1>7, <2>1
  <2> QED  BY <1>5, <2>2, <2>3
<1>9. Nth(Q, c + 1) = n + 1
  <2>1. UpTo(Q, n + 1) = Q
    <3>1. \A k \in Q : k <= n + 1
      BY <1>1
    <3> QED  BY <3>1 DEF UpTo
  <2>2. Cardinality(UpTo(Q, n + 1)) = c + 1 /\ n + 1 \in Q
    BY <1>3, <2>1
  <2>3. Cardinality(UpTo(Q, Nth(Q, c + 1))) = c + 1 /\ Nth(Q, c + 1) \in Q
    BY <1>2, <1>7
  <2> QED  BY <1>5, <2>2, <2>3
<1> QED  BY <1>3, <1>8, <1>9

\* Picking from an appended sequence.
LEMMA PickedAppend ==
    ASSUME NEW T, NEW s \in Seq(T), NEW x \in T, NEW P \in SUBSET (1..Len(s))
    PROVE  /\ Picked(Append(s, x), P) = Picked(s, P)
           /\ Picked(Append(s, x), P \cup {Len(s) + 1}) = Append(Picked(s, P), x)
<1> DEFINE t == Append(s, x)
           n == Len(s)
           Q == P \cup {n + 1}
           c == Cardinality(P)
<1>1. /\ n \in Nat /\ t \in Seq(T) /\ Len(t) = n + 1
      /\ \A k \in 1..n : t[k] = s[k]
      /\ t[n + 1] = x
  BY AppendAt
<1>2. P \in SUBSET (1..Len(t)) /\ Q \in SUBSET (1..Len(t))
  <2>1. P \in SUBSET (1..n)
    OBVIOUS
  <2> HIDE DEF t, n
  <2>2. 1..n \subseteq 1..(n + 1) /\ n + 1 \in 1..(n + 1) /\ 1..Len(t) = 1..(n + 1)
    BY <1>1
  <2> QED  BY <2>1, <2>2
<1>3. /\ Cardinality(Q) = c + 1
      /\ \A i \in 1..c : Nth(Q, i) = Nth(P, i)
      /\ Nth(Q, c + 1) = n + 1
  <2> HIDE DEF n
  <2> QED  BY <1>1, PlacesGrow
<1> HIDE DEF t, n, c, Q
<1>4. /\ c \in Nat
      /\ Picked(s, P) \in Seq(T) /\ Len(Picked(s, P)) = c
      /\ \A i \in 1..c : Nth(P, i) \in P /\ Picked(s, P)[i] = s[Nth(P, i)]
  BY PickedType DEF c
<1>5. /\ Picked(t, P) \in Seq(T) /\ Len(Picked(t, P)) = c
      /\ \A i \in 1..c : Picked(t, P)[i] = t[Nth(P, i)]
  BY <1>1, <1>2, PickedType DEF c
<1>6. /\ Picked(t, Q) \in Seq(T) /\ Len(Picked(t, Q)) = c + 1
      /\ \A i \in 1..(c + 1) : Picked(t, Q)[i] = t[Nth(Q, i)]
  BY <1>1, <1>2, <1>3, PickedType
<1>7. \A i \in 1..c : t[Nth(P, i)] = s[Nth(P, i)]
  BY <1>1, <1>4 DEF n
<1>8. Picked(t, P) = Picked(s, P)
  <2>1. \A i \in 1..c : Picked(t, P)[i] = Picked(s, P)[i]
    BY <1>4, <1>5, <1>7
  <2> QED  BY <1>4, <1>5, <2>1, SameSequence
<1>9. Picked(t, Q) = Append(Picked(s, P), x)
  <2> DEFINE u == Append(Picked(s, P), x)
  <2>1. /\ u \in Seq(T) /\ Len(u) = c + 1
        /\ \A i \in 1..c : u[i] = Picked(s, P)[i]
        /\ u[c + 1] = x
    BY <1>4, AppendAt
  <2> HIDE DEF u
  <2>2. \A i \in 1..(c + 1) : Picked(t, Q)[i] = u[i]
    <3> TAKE i \in 1..(c + 1)
    <3>1. Picked(t, Q)[i] = t[Nth(Q, i)]
      BY <1>6
    <3>2. CASE i \in 1..c
      <4>1. Picked(t, Q)[i] = s[Nth(P, i)]
        BY <1>3, <1>7, <3>1, <3>2
      <4> QED  BY <1>4, <2>1, <3>2, <4>1
    <3>3. CASE i = c + 1
      BY <1>1, <1>3, <2>1, <3>1, <3>3
    <3> QED  BY <1>4, <3>2, <3>3
  <2>3. Picked(t, Q) = u
    BY <1>6, <2>1, <2>2, SameSequence
  <2> QED  BY <2>3 DEF u
<1> QED  BY <1>8, <1>9 DEF t, Q, n

-------------------------------------------------------------------------------
(* Rows of a file. *)

Row == EntryType \cup {Header}

\* The lines of a file are rows or malformed, and the header is no entry.
LEMMA RowTypes ==
    /\ LineType = Row \cup {Malformed} /\ Malformed \notin Row
    /\ Header \in Row /\ Header \notin EntryType
    /\ \A row \in Row : row.id \in Nat /\ row.parent \in Nat
    /\ \A row \in Row : row \in EntryType <=> row.id # NoId
    /\ Header.id = NoId /\ Header.parent = NoId /\ Malformed.id = NoId
    /\ Ids \subseteq Nat /\ NoId \notin Ids
<1> USE BoundsAssumption
<1>1. Header.id = NoId /\ Header.parent = NoId /\ Malformed.id = NoId /\ Malformed.kind = "malformed"
      /\ Header.kind = "session"
  BY DEF Header, Malformed, Line
<1>2. Ids \subseteq Nat /\ NoId \notin Ids /\ NoId \in Nat
  BY DEF Ids, NoId
<1>3. \A e \in EntryType : /\ e.id \in Ids /\ e.parent \in Ids \cup {NoId}
                           /\ e.kind # "malformed" /\ e.kind # "session"
  BY DEF EntryType
<1> QED  BY <1>1, <1>2, <1>3 DEF LineType, Row

\* A line that is read is a row; what is read of no lines is nothing.
LEMMA ParsedType ==
    ASSUME NEW file, file.lines \in Seq(LineType)
    PROVE  /\ Parsed(file) \in Seq(Row)
           /\ file.lines = <<>> => Parsed(file) = <<>>
<1> DEFINE s == file.lines
           P == {k \in DOMAIN s : s[k] # Malformed}
<1>1. P \in SUBSET (1..Len(s)) /\ Parsed(file) = Picked(s, P)
  BY DEF Parsed
<1>2. \A k \in P : s[k] \in Row
  BY RowTypes
<1> HIDE DEF s, P
<1>3. /\ Picked(s, P) \in Seq(LineType) /\ Len(Picked(s, P)) = Cardinality(P)
      /\ Cardinality(P) \in Nat
      /\ \A i \in 1..Cardinality(P) : Nth(P, i) \in P /\ Picked(s, P)[i] = s[Nth(P, i)]
  BY <1>1, PickedType DEF s
<1>4. \A i \in 1..Cardinality(P) : Picked(s, P)[i] \in Row
  BY <1>2, <1>3
<1>5. Picked(s, P) \in Seq(Row)
  <2> DEFINE t == Picked(s, P)
             c == Cardinality(P)
  <2>1. t \in Seq(LineType) /\ Len(t) = c /\ c \in Nat /\ \A i \in 1..c : t[i] \in Row
    BY <1>3, <1>4
  <2> HIDE DEF t, c
  <2>2. t \in Seq(Row)
    BY <2>1
  <2> QED  BY <2>2 DEF t
<1>6. ASSUME s = <<>>  PROVE Parsed(file) = <<>>
  <2>1. P = {}
    BY <1>6 DEF P
  <2>2. Cardinality(P) = 0
    BY <2>1, FS_EmptySet
  <2> QED  BY <1>1, <1>3, <2>2
<1> QED  BY <1>1, <1>5, <1>6 DEF s

\* One more line is one more row, or none if it is malformed (parseSessionEntries).
LEMMA ParsedAppend ==
    ASSUME NEW file, file.lines \in Seq(LineType), NEW line \in LineType,
           NEW longer, longer.lines = Append(file.lines, line)
    PROVE  Parsed(longer) = IF line = Malformed THEN Parsed(file) ELSE Append(Parsed(file), line)
<1> DEFINE s == file.lines
           t == longer.lines
           n == Len(s)
           P == {k \in DOMAIN s : s[k] # Malformed}
           Q == {k \in DOMAIN t : t[k] # Malformed}
<1>1. P \in SUBSET (1..n) /\ Parsed(file) = Picked(s, P) /\ Parsed(longer) = Picked(t, Q)
  BY DEF Parsed
<1>2. /\ t = Append(s, line) /\ DOMAIN s = 1..n /\ DOMAIN t = 1..(n + 1) /\ n \in Nat
      /\ \A k \in 1..n : t[k] = s[k]
      /\ t[n + 1] = line
  BY AppendAt
<1>3. Q = IF line = Malformed THEN P ELSE P \cup {n + 1}
  BY <1>2
<1>4. s \in Seq(LineType)
  OBVIOUS
<1> HIDE DEF s, t, P, Q
<1>5. /\ Picked(Append(s, line), P) = Picked(s, P)
      /\ Picked(Append(s, line), P \cup {n + 1}) = Append(Picked(s, P), line)
  <2>1. P \in SUBSET (1..Len(s)) /\ line \in LineType
    BY <1>1
  <2> QED  BY <1>4, <2>1, PickedAppend
<1> QED  BY <1>1, <1>2, <1>3, <1>5

\* What stands where in a joined sequence.
LEMMA JoinAt ==
    ASSUME NEW T, NEW s \in Seq(T), NEW t \in Seq(T)
    PROVE  /\ s \o t \in Seq(T) /\ Len(s \o t) = Len(s) + Len(t)
           /\ Len(s) \in Nat /\ Len(t) \in Nat
           /\ DOMAIN s = 1..Len(s) /\ DOMAIN t = 1..Len(t)
           /\ DOMAIN (s \o t) = 1..(Len(s) + Len(t))
           /\ \A k \in 1..Len(s) : (s \o t)[k] = s[k]
           /\ \A k \in 1..Len(t) : (s \o t)[Len(s) + k] = t[k]
OBVIOUS

\* Joining with nothing changes nothing.
LEMMA JoinEmpty ==
    ASSUME NEW T, NEW s \in Seq(T)
    PROVE  <<>> \in Seq(T) /\ s \o <<>> = s /\ <<>> \o s = s
<1>1. <<>> \in Seq(T) /\ Len(<<>>) = 0
  OBVIOUS
<1>2. s \o <<>> = s
  <2> DEFINE u == s \o <<>>
  <2>1. u \in Seq(T) /\ Len(u) = Len(s) /\ \A k \in 1..Len(s) : u[k] = s[k]
    BY <1>1, JoinAt
  <2> HIDE DEF u
  <2>2. u = s
    BY <2>1, SameSequence
  <2> QED  BY <2>2 DEF u
<1>3. <<>> \o s = s
  <2> DEFINE u == <<>> \o s
  <2>1. u \in Seq(T) /\ Len(u) = Len(s) /\ \A k \in 1..Len(s) : u[k] = s[k]
    <3>1. /\ u \in Seq(T) /\ Len(u) = 0 + Len(s) /\ Len(s) \in Nat
          /\ \A k \in 1..Len(s) : u[0 + k] = s[k]
      BY <1>1, JoinAt
    <3> HIDE DEF u
    <3> QED  BY <3>1
  <2> HIDE DEF u
  <2>2. u = s
    BY <2>1, SameSequence
  <2> QED  BY <2>2 DEF u
<1> QED  BY <1>1, <1>2, <1>3

\* Joining is associative.
LEMMA JoinAssociative ==
    ASSUME NEW T, NEW a \in Seq(T), NEW b \in Seq(T), NEW c \in Seq(T)
    PROVE  a \o (b \o c) = (a \o b) \o c
<1> DEFINE u == b \o c
           v == a \o b
           x == a \o u
           y == v \o c
           i == Len(a)
           j == Len(b)
           l == Len(c)
<1>1. /\ u \in Seq(T) /\ Len(u) = j + l /\ j \in Nat /\ l \in Nat
      /\ \A k \in 1..j : u[k] = b[k]
      /\ \A k \in 1..l : u[j + k] = c[k]
  BY JoinAt
<1>2. /\ v \in Seq(T) /\ Len(v) = i + j /\ i \in Nat
      /\ \A k \in 1..i : v[k] = a[k]
      /\ \A k \in 1..j : v[i + k] = b[k]
  BY JoinAt
<1> HIDE DEF u, v
<1>3. /\ x \in Seq(T) /\ Len(x) = i + Len(u)
      /\ \A k \in 1..i : x[k] = a[k]
      /\ \A k \in 1..Len(u) : x[i + k] = u[k]
  <2>1. u \in Seq(T)
    BY <1>1
  <2> QED  BY <2>1, JoinAt
<1>4. /\ y \in Seq(T) /\ Len(y) = Len(v) + l
      /\ \A k \in 1..Len(v) : y[k] = v[k]
      /\ \A k \in 1..l : y[Len(v) + k] = c[k]
  <2>1. v \in Seq(T)
    BY <1>2
  <2> QED  BY <2>1, JoinAt
<1> HIDE DEF x, y, i, j, l
<1>5. Len(x) = Len(y) /\ Len(x) = i + j + l
  BY <1>1, <1>2, <1>3, <1>4
<1>6. ASSUME NEW k \in 1..(i + j + l)
      PROVE  x[k] = y[k]
  <2>1. CASE k \in 1..i
    <3>1. k \in 1..Len(v)
      BY <1>1, <1>2, <2>1
    <3> QED  BY <1>2, <1>3, <1>4, <2>1, <3>1
  <2>2. ASSUME NEW p \in 1..j, k = i + p
        PROVE  x[k] = y[k]
    <3>1. k \in 1..Len(v) /\ p \in 1..Len(u)
      BY <1>1, <1>2, <2>2
    <3>2. x[i + p] = b[p]
      BY <1>1, <1>3, <3>1
    <3>3. y[k] = v[k] /\ v[i + p] = b[p]
      BY <1>2, <1>4, <3>1
    <3> QED  BY <2>2, <3>2, <3>3
  <2>3. ASSUME NEW p \in 1..l, k = i + j + p
        PROVE  x[k] = y[k]
    <3>1. j + p \in 1..Len(u) /\ k = i + (j + p) /\ k = Len(v) + p
      BY <1>1, <1>2, <2>3
    <3>2. x[i + (j + p)] = c[p]
      BY <1>1, <1>3, <3>1
    <3>3. y[Len(v) + p] = c[p]
      BY <1>4
    <3> QED  BY <3>1, <3>2, <3>3
  <2>4. \/ k \in 1..i
        \/ k - i \in 1..j /\ k = i + (k - i)
        \/ k - i - j \in 1..l /\ k = i + j + (k - i - j)
    BY <1>1, <1>2
  <2> QED  BY <2>1, <2>2, <2>3, <2>4
<1>7. x = y
  BY <1>3, <1>4, <1>5, <1>6, SameSequence
<1> QED  BY <1>7 DEF u, v, x, y

\* The first element of a sequence, and the others.
LEMMA HeadOf ==
    ASSUME NEW T, NEW s \in Seq(T), s # <<>>
    PROVE  /\ Head(s) \in T /\ Head(s) = s[1] /\ Len(s) \in Nat \ {0}
           /\ Tail(s) \in Seq(T) /\ Len(Tail(s)) = Len(s) - 1
           /\ \A k \in 1..(Len(s) - 1) : Tail(s)[k] = s[k + 1]
OBVIOUS

\* A one-element sequence.
LEMMA OneElement ==
    ASSUME NEW T, NEW x \in T
    PROVE  <<x>> \in Seq(T) /\ Len(<<x>>) = 1 /\ <<x>>[1] = x /\ DOMAIN <<x>> = 1..1 /\ <<x>> # <<>>
OBVIOUS

\* Appending is joining with one element.
LEMMA AppendJoins ==
    ASSUME NEW T, NEW s \in Seq(T), NEW x \in T
    PROVE  s \o <<x>> = Append(s, x)
OBVIOUS

\* A line that moves from what is to be written to what is written leaves the whole as it was.
LEMMA HeadMoves ==
    ASSUME NEW T, NEW s \in Seq(T), NEW t \in Seq(T), t # <<>>
    PROVE  Append(s, Head(t)) \o Tail(t) = s \o t
<1> DEFINE r == Tail(t)
           u == Append(s, Head(t))
           v == u \o r
           w == s \o t
           n == Len(s)
           m == Len(t)
<1>1. Head(t) \in T /\ Head(t) = t[1] /\ m \in Nat \ {0} /\ r \in Seq(T) /\ Len(r) = m - 1
      /\ \A k \in 1..(m - 1) : r[k] = t[k + 1]
  BY HeadOf
<1>2. u \in Seq(T) /\ Len(u) = n + 1 /\ u[n + 1] = Head(t) /\ \A k \in 1..n : u[k] = s[k]
  BY <1>1, AppendAt
<1> HIDE DEF u, r
<1>3. /\ v \in Seq(T) /\ Len(v) = Len(u) + Len(r)
      /\ \A k \in 1..Len(u) : v[k] = u[k]
      /\ \A k \in 1..Len(r) : v[Len(u) + k] = r[k]
  <2>1. u \in Seq(T) /\ r \in Seq(T)
    BY <1>1, <1>2
  <2> QED  BY <2>1, JoinAt
<1>4. /\ w \in Seq(T) /\ Len(w) = n + m /\ n \in Nat
      /\ \A k \in 1..n : w[k] = s[k]
      /\ \A k \in 1..m : w[n + k] = t[k]
  BY JoinAt
<1> HIDE DEF v, w, n, m
<1>5. Len(v) = Len(w)
  <2>1. Len(v) = (n + 1) + (m - 1)
    BY <1>1, <1>2, <1>3
  <2>2. Len(w) = n + m
    BY <1>4
  <2> QED  BY <1>1, <1>4, <2>1, <2>2
<1>6. ASSUME NEW k \in 1..Len(w)  PROVE v[k] = w[k]
  <2>1. CASE k \in 1..n
    BY <1>2, <1>3, <1>4, <2>1
  <2>2. CASE k = n + 1
    <3>1. v[k] = t[1]
      BY <1>1, <1>2, <1>3, <1>4, <2>2
    <3>2. w[n + 1] = t[1]
      BY <1>1, <1>4
    <3> QED  BY <2>2, <3>1, <3>2
  <2>3. CASE k \in (n + 2)..(n + m)
    <3>1. PICK j \in 1..(m - 1) : k = n + 1 + j
      <4>1. k - n - 1 \in 1..(m - 1) /\ k = n + 1 + (k - n - 1)
        BY <1>1, <1>4, <2>3
      <4> QED  BY <4>1
    <3>2. v[n + 1 + j] = r[j]
      BY <1>1, <1>2, <1>3
    <3>3. j + 1 \in 1..m /\ n + (j + 1) = k
      BY <1>1, <1>4, <3>1
    <3>4. w[n + (j + 1)] = t[j + 1]
      BY <1>4, <3>3
    <3> QED  BY <1>1, <3>1, <3>2, <3>3, <3>4
  <2> QED  BY <1>4, <2>1, <2>2, <2>3
<1>7. v = w
  BY <1>3, <1>4, <1>5, <1>6, SameSequence
<1> QED  BY <1>7 DEF u, v, w, r

\* The last element of a sequence, and the others.
LEMMA FrontOf ==
    ASSUME NEW T, NEW s \in Seq(T), s # <<>>
    PROVE  /\ Front(s) \in Seq(T) /\ Last(s) \in T /\ Append(Front(s), Last(s)) = s
           /\ Last(s) = s[Len(s)]
<1> DEFINE n == Len(s)
           u == SubSeq(s, 1, n - 1)
           v == Append(u, s[n])
<1>1. n \in Nat \ {0} /\ s[n] \in T /\ \A k \in 1..n : s[k] \in T
  OBVIOUS
<1>2. u \in Seq(T) /\ Len(u) = n - 1 /\ \A k \in 1..(n - 1) : u[k] = s[k]
  <2>1. u = [k \in 1..(n - 1) |-> s[k]]
    OBVIOUS
  <2> HIDE DEF u, n
  <2>2. n - 1 \in Nat /\ \A k \in 1..(n - 1) : s[k] \in T
    BY <1>1
  <2>3. u \in [1..(n - 1) -> T] /\ \A k \in 1..(n - 1) : u[k] = s[k]
    BY <2>1, <2>2
  <2> QED  BY <2>2, <2>3, SequenceOf
<1>3. /\ v \in Seq(T) /\ Len(v) = (n - 1) + 1
      /\ \A k \in 1..(n - 1) : v[k] = u[k]
      /\ v[(n - 1) + 1] = s[n]
  <2> HIDE DEF u
  <2> QED  BY <1>1, <1>2, AppendAt
<1> HIDE DEF u, v, n
<1>4. \A k \in 1..n : v[k] = s[k]
  <2> TAKE k \in 1..n
  <2>1. k \in 1..(n - 1) \/ k = n
    BY <1>1
  <2>2. (n - 1) + 1 = n
    BY <1>1
  <2> QED  BY <1>2, <1>3, <2>1, <2>2
<1>5. v = s
  <2>1. Len(v) = Len(s)
    BY <1>1, <1>3 DEF n
  <2> QED  BY <1>3, <1>4, <2>1, SameSequence DEF n
<1> QED  BY <1>1, <1>2, <1>5 DEF u, v, n, Front, Last

\* The ids of a sequence are those at its places.
LEMMA IdsAt ==
    ASSUME NEW T, NEW s \in Seq(T)
    PROVE  /\ \A k \in 1..Len(s) : s[k].id \in IdsOf(s)
           /\ \A i \in IdsOf(s) : \E k \in 1..Len(s) : s[k].id = i
           /\ Len(s) \in Nat /\ DOMAIN s = 1..Len(s)
<1>1. DOMAIN s = 1..Len(s) /\ Len(s) \in Nat
  OBVIOUS
<1> QED  BY <1>1 DEF IdsOf

\* The ids of joined rows are those of both.
LEMMA IdsJoin ==
    ASSUME NEW T, NEW s \in Seq(T), NEW t \in Seq(T)
    PROVE  IdsOf(s \o t) = IdsOf(s) \cup IdsOf(t)
<1> DEFINE u == s \o t
           n == Len(s)
           m == Len(t)
<1>1. /\ DOMAIN u = 1..(n + m) /\ n \in Nat /\ m \in Nat
      /\ DOMAIN s = 1..n /\ DOMAIN t = 1..m
      /\ \A k \in 1..n : u[k] = s[k]
      /\ \A k \in 1..m : u[n + k] = t[k]
  BY JoinAt
<1> HIDE DEF u, n, m
<1>2. ASSUME NEW k \in 1..(n + m)
      PROVE  u[k].id \in IdsOf(s) \cup IdsOf(t)
  <2>1. CASE k \in 1..n
    BY <1>1, <2>1 DEF IdsOf
  <2>2. CASE k \notin 1..n
    <3>1. k - n \in 1..m /\ n + (k - n) = k
      BY <1>1, <2>2
    <3>2. u[k] = t[k - n]
      BY <1>1, <3>1
    <3> QED  BY <1>1, <3>1, <3>2 DEF IdsOf
  <2> QED  BY <2>1, <2>2
<1>3. ASSUME NEW k \in 1..n
      PROVE  s[k].id \in IdsOf(u)
  <2>1. k \in 1..(n + m) /\ u[k] = s[k]
    BY <1>1
  <2> QED  BY <1>1, <2>1 DEF IdsOf
<1>4. ASSUME NEW k \in 1..m
      PROVE  t[k].id \in IdsOf(u)
  <2>1. n + k \in 1..(n + m) /\ u[n + k] = t[k]
    BY <1>1
  <2> QED  BY <1>1, <2>1 DEF IdsOf
<1>5. IdsOf(u) \subseteq IdsOf(s) \cup IdsOf(t)
  BY <1>1, <1>2 DEF IdsOf
<1>6. IdsOf(s) \subseteq IdsOf(u) /\ IdsOf(t) \subseteq IdsOf(u)
  BY <1>1, <1>3, <1>4 DEF IdsOf
<1> QED  BY <1>5, <1>6 DEF u

\* The ids of one row, and of none.
LEMMA IdsOne ==
    ASSUME NEW T, NEW x \in T
    PROVE  IdsOf(<<x>>) = {x.id} /\ IdsOf(<<>>) = {}
<1>1. DOMAIN <<x>> = 1..1 /\ <<x>>[1] = x /\ DOMAIN <<>> = {}
  OBVIOUS
<1>2. 1..1 = {1}
  OBVIOUS
<1> QED  BY <1>1, <1>2 DEF IdsOf

\* An appended row adds its id.
LEMMA IdsAppend ==
    ASSUME NEW T, NEW s \in Seq(T), NEW x \in T
    PROVE  IdsOf(Append(s, x)) = IdsOf(s) \cup {x.id}
<1>1. s \o <<x>> = Append(s, x)
  BY AppendJoins
<1> DEFINE z == <<x>>
<1>2. z \in Seq(T) /\ IdsOf(z) = {x.id}
  BY OneElement, IdsOne
<1> HIDE DEF z
<1>3. IdsOf(s \o z) = IdsOf(s) \cup IdsOf(z)
  BY <1>2, IdsJoin
<1>4. IdsOf(s \o z) = IdsOf(s) \cup {x.id}
  BY <1>2, <1>3
<1> QED  BY <1>1, <1>4 DEF z

\* Entries have ids that are not NoId.
LEMMA IdsInIds ==
    ASSUME NEW es \in Seq(EntryType)
    PROVE  IdsOf(es) \subseteq Ids
<1>1. \A k \in DOMAIN es : es[k] \in EntryType
  OBVIOUS
<1> QED  BY <1>1 DEF IdsOf, EntryType

\* Soundness, place by place.
LEMMA SoundAt ==
    ASSUME NEW s
    PROVE  Sound(s) <=> /\ s \in Seq(Row)
                        /\ \A i, j \in 1..Len(s) : i < j => s[i].id < s[j].id
                        /\ \A i \in 1..Len(s) : s[i] = Header \/ s[i].parent < s[i].id
<1>1. s \in Seq(Row) => DOMAIN s = 1..Len(s)
  OBVIOUS
<1> QED  BY <1>1 DEF Sound, Row

\* Sound rows stay sound when the last ones are cut off.
LEMMA SoundPart ==
    ASSUME NEW s \in Seq(Row), NEW t \in Seq(Row), Sound(s \o t)
    PROVE  Sound(s)
<1> DEFINE u == s \o t
           n == Len(s)
           m == Len(t)
<1>1. /\ Len(u) = n + m /\ n \in Nat /\ m \in Nat
      /\ \A k \in 1..n : u[k] = s[k]
  BY JoinAt
<1>2. /\ \A i, j \in 1..Len(u) : i < j => u[i].id < u[j].id
      /\ \A i \in 1..Len(u) : u[i] = Header \/ u[i].parent < u[i].id
  BY SoundAt
<1> HIDE DEF u, n, m
<1>3. 1..n \subseteq 1..Len(u)
  BY <1>1
<1>4. /\ \A i, j \in 1..n : i < j => s[i].id < s[j].id
      /\ \A i \in 1..n : s[i] = Header \/ s[i].parent < s[i].id
  BY <1>1, <1>2, <1>3
<1> QED  BY <1>4, SoundAt DEF n

\* A row that is newer than all others, and than its parent, can be appended.
LEMMA SoundAppend ==
    ASSUME NEW s \in Seq(Row), Sound(s), NEW x \in Row,
           \A i \in IdsOf(s) : i < x.id, x = Header \/ x.parent < x.id
    PROVE  Sound(Append(s, x))
<1> DEFINE u == Append(s, x)
           n == Len(s)
<1>1. /\ u \in Seq(Row) /\ Len(u) = n + 1 /\ n \in Nat
      /\ \A k \in 1..n : u[k] = s[k]
      /\ u[n + 1] = x
  BY AppendAt
<1>2. /\ \A i, j \in 1..n : i < j => s[i].id < s[j].id
      /\ \A i \in 1..n : s[i] = Header \/ s[i].parent < s[i].id
  BY SoundAt
<1>3. \A k \in 1..n : s[k].id < x.id
  BY IdsAt
<1> HIDE DEF u, n
<1>4. ASSUME NEW i \in 1..(n + 1), NEW j \in 1..(n + 1), i < j
      PROVE  u[i].id < u[j].id
  <2>1. i \in 1..n
    BY <1>1, <1>4
  <2>2. CASE j \in 1..n
    <3>1. s[i].id < s[j].id
      BY <1>2, <1>4, <2>1, <2>2
    <3> QED  BY <1>1, <2>1, <2>2, <3>1
  <2>3. CASE j = n + 1
    BY <1>1, <1>3, <2>1, <2>3
  <2> QED  BY <1>1, <2>2, <2>3
<1>5. ASSUME NEW i \in 1..(n + 1)
      PROVE  u[i] = Header \/ u[i].parent < u[i].id
  <2>1. CASE i \in 1..n
    BY <1>1, <1>2, <2>1
  <2>2. CASE i = n + 1
    BY <1>1, <2>2
  <2> QED  BY <1>1, <2>1, <2>2
<1>6. Sound(u)
  BY <1>1, <1>4, <1>5, SoundAt
<1> QED  BY <1>6 DEF u

\* Sound rows have as many ids as there are rows.
LEMMA IdsCounted ==
    ASSUME NEW s, Sound(s)
    PROVE  IsFiniteSet(IdsOf(s)) /\ Cardinality(IdsOf(s)) = Len(s) /\ IdsOf(s) \subseteq Nat
<1> DEFINE n == Len(s)
           f == [k \in 1..n |-> s[k].id]
<1>1. /\ s \in Seq(Row) /\ n \in Nat
      /\ \A i, j \in 1..n : i < j => s[i].id < s[j].id
  BY SoundAt
<1>2. \A k \in 1..n : s[k] \in Row
  BY <1>1
<1>3. \A k \in 1..n : s[k].id \in Nat
  BY <1>2, RowTypes
<1>4. /\ \A k \in 1..n : s[k].id \in IdsOf(s)
      /\ \A i \in IdsOf(s) : \E k \in 1..n : s[k].id = i
  BY <1>1, IdsAt
<1> HIDE DEF n
<1>5. f \in [1..n -> IdsOf(s)] /\ \A k \in 1..n : f[k] = s[k].id
  BY <1>4
<1> HIDE DEF f
<1>6. ASSUME NEW i \in 1..n, NEW j \in 1..n, f[i] = f[j]
      PROVE  i = j
  <2>1. ~(i < j) /\ ~(j < i)
    BY <1>1, <1>3, <1>5, <1>6
  <2> QED  BY <1>1, <2>1
<1>7. f \in Injection(1..n, IdsOf(s)) /\ f \in Surjection(1..n, IdsOf(s))
  BY <1>4, <1>5, <1>6 DEF Injection, IsInjective, Surjection
<1>8. IsFiniteSet(1..n) /\ Cardinality(1..n) = n
  BY <1>1, FS_Interval
<1>9. IsFiniteSet(IdsOf(s)) /\ Cardinality(IdsOf(s)) = n
  <2>1. ExistsBijection(1..n, IdsOf(s))
    BY <1>7 DEF ExistsBijection, Bijection
  <2> QED  BY <1>8, <2>1, FS_Bijection
<1> QED  BY <1>3, <1>4, <1>9 DEF n

\* Where no parent is missing, none is when the last rows are cut off: a parent is older.
LEMMA CompletePart ==
    ASSUME NEW s \in Seq(EntryType), NEW t \in Seq(EntryType), Sound(s \o t), Complete(s \o t)
    PROVE  Complete(s)
<1> DEFINE u == s \o t
           n == Len(s)
           m == Len(t)
<1>1. /\ u \in Seq(EntryType) /\ Len(u) = n + m /\ n \in Nat /\ m \in Nat
      /\ DOMAIN s = 1..n /\ DOMAIN u = 1..(n + m)
      /\ \A k \in 1..n : u[k] = s[k]
  BY JoinAt
<1>2. /\ \A i, j \in 1..(n + m) : i < j => u[i].id < u[j].id
      /\ \A i \in 1..(n + m) : u[i] = Header \/ u[i].parent < u[i].id
  BY <1>1, SoundAt
<1>3. \A k \in DOMAIN u : u[k].parent \in IdsOf(u) \cup {NoId}
  BY DEF Complete
<1> HIDE DEF u, n, m
<1>4. ASSUME NEW k \in 1..n
      PROVE  s[k].parent \in IdsOf(s) \cup {NoId}
  <2>1. /\ k \in 1..(n + m) /\ u[k] = s[k] /\ s[k] \in EntryType
    BY <1>1 DEF n
  <2>2. s[k] # Header /\ s[k].id \in Nat /\ s[k].parent \in Nat
    BY <2>1, RowTypes DEF Row
  <2>3. s[k].parent < s[k].id
    BY <1>2, <2>1, <2>2
  <2>4. CASE s[k].parent \in IdsOf(u)
    <3>1. PICK j \in 1..(n + m) : u[j].id = s[k].parent
      BY <1>1, <2>4 DEF IdsOf
    <3>2. j # k /\ ~(k < j)
      BY <1>2, <2>1, <2>2, <2>3, <3>1
    <3>3. j \in 1..n
      BY <1>1, <3>2
    <3> QED  BY <1>1, <3>1, <3>3 DEF IdsOf
  <2> QED  BY <1>1, <1>3, <2>1, <2>4
<1> QED  BY <1>1, <1>4 DEF Complete

\* An entry whose parent is there can be appended.
LEMMA CompleteAppend ==
    ASSUME NEW s \in Seq(EntryType), Complete(s), NEW x \in EntryType,
           x.parent \in IdsOf(s) \cup {NoId}
    PROVE  Complete(Append(s, x))
<1> DEFINE u == Append(s, x)
           n == Len(s)
<1>1. /\ DOMAIN u = 1..(n + 1) /\ DOMAIN s = 1..n /\ n \in Nat
      /\ \A k \in 1..n : u[k] = s[k]
      /\ u[n + 1] = x
  BY AppendAt
<1>2. IdsOf(s) \subseteq IdsOf(u)
  BY IdsAppend
<1>3. \A k \in DOMAIN s : s[k].parent \in IdsOf(s) \cup {NoId}
  BY DEF Complete
<1> HIDE DEF u, n
<1>4. ASSUME NEW k \in 1..(n + 1)
      PROVE  u[k].parent \in IdsOf(u) \cup {NoId}
  <2>1. CASE k \in 1..n
    BY <1>1, <1>2, <1>3, <2>1
  <2>2. CASE k = n + 1
    BY <1>1, <1>2, <2>2
  <2> QED  BY <1>1, <2>1, <2>2
<1>5. Complete(u)
  BY <1>1, <1>4 DEF Complete
<1> QED  BY <1>5 DEF u

\* A header, and entries that are sound, make sound rows, of which they are the entries.
LEMMA HeaderFirst ==
    ASSUME NEW s \in Seq(EntryType)
    PROVE  /\ <<Header>> \o s \in Seq(Row) /\ <<Header>> \o s # <<>>
           /\ Headed(<<Header>> \o s) /\ EntriesOf(<<Header>> \o s) = s
           /\ IdsOf(<<Header>> \o s) = IdsOf(s) \cup {NoId}
           /\ Sound(s) => Sound(<<Header>> \o s)
<1> DEFINE h == <<Header>>
           u == h \o s
           n == Len(s)
<1>1. s \in Seq(Row) /\ h \in Seq(Row) /\ Len(h) = 1 /\ h[1] = Header
  BY RowTypes DEF Row
<1> HIDE DEF h
<1>2. /\ u \in Seq(Row) /\ Len(u) = 1 + n /\ n \in Nat
      /\ u[1] = Header
      /\ \A k \in 1..n : u[1 + k] = s[k]
  <2>1. /\ u \in Seq(Row) /\ Len(u) = Len(h) + n /\ n \in Nat
        /\ \A k \in 1..Len(h) : u[k] = h[k]
        /\ \A k \in 1..n : u[Len(h) + k] = s[k]
    BY <1>1, JoinAt
  <2> HIDE DEF u, n
  <2> QED  BY <1>1, <2>1
<1>3. IdsOf(u) = IdsOf(s) \cup {NoId}
  <2>1. IdsOf(h) = {NoId}
    BY IdsOne, RowTypes DEF h
  <2>2. IdsOf(u) = IdsOf(h) \cup IdsOf(s)
    BY <1>1, IdsJoin
  <2> QED  BY <2>1, <2>2
<1> HIDE DEF u
<1>4. u # <<>>
  <2>1. Len(u) # 0
    BY <1>2
  <2> QED  BY <2>1
<1>5. /\ Head(u) = u[1] /\ Tail(u) \in Seq(Row) /\ Len(Tail(u)) = Len(u) - 1
      /\ \A k \in 1..(Len(u) - 1) : Tail(u)[k] = u[k + 1]
  BY <1>2, <1>4, HeadOf
<1>6. Headed(u) /\ EntriesOf(u) = Tail(u)
  BY <1>2, <1>4, <1>5 DEF Headed, EntriesOf
<1> HIDE DEF n
<1>7. Tail(u) = s
  <2>1. Len(Tail(u)) = n
    BY <1>2, <1>5
  <2>2. \A k \in 1..n : Tail(u)[k] = s[k]
    <3> TAKE k \in 1..n
    <3>1. k \in 1..(Len(u) - 1) /\ k + 1 = 1 + k
      BY <1>2
    <3> QED  BY <1>2, <1>5, <3>1
  <2> QED  BY <1>1, <1>5, <2>1, <2>2, SameSequence DEF n
<1>8. ASSUME Sound(s)  PROVE Sound(u)
  <2>1. /\ \A i, j \in 1..n : i < j => s[i].id < s[j].id
        /\ \A i \in 1..n : s[i] = Header \/ s[i].parent < s[i].id
    BY <1>8, SoundAt DEF n
  <2>2. \A k \in 1..n : s[k].id \in Nat \ {NoId}
    <3>1. \A k \in 1..n : s[k] \in EntryType
      BY DEF n
    <3> QED  BY <3>1, RowTypes DEF Row
  <2>3. \A k \in 1..(1 + n) : k = 1 \/ \E i \in 1..n : k = 1 + i
    <3> TAKE k \in 1..(1 + n)
    <3>1. k = 1 \/ (k - 1 \in 1..n /\ k = 1 + (k - 1))
      BY <1>2
    <3> QED  BY <3>1
  <2>4. ASSUME NEW i \in 1..(1 + n), NEW j \in 1..(1 + n), i < j
        PROVE  u[i].id < u[j].id
    <3>1. PICK l \in 1..n : j = 1 + l
      BY <1>2, <2>3, <2>4
    <3>2. u[j] = s[l]
      BY <1>2, <3>1
    <3>3. CASE i = 1
      <4>1. u[i].id = 0
        BY <1>2, <3>3, RowTypes DEF NoId
      <4>2. 0 < s[l].id
        BY <2>2 DEF NoId
      <4> QED  BY <3>2, <4>1, <4>2
    <3>4. CASE i # 1
      <4>1. PICK k \in 1..n : i = 1 + k
        BY <2>3, <3>4
      <4>2. u[i] = s[k] /\ k < l
        BY <1>2, <2>4, <3>1, <4>1
      <4> QED  BY <2>1, <3>2, <4>2
    <3> QED  BY <3>3, <3>4
  <2>5. ASSUME NEW i \in 1..(1 + n)
        PROVE  u[i] = Header \/ u[i].parent < u[i].id
    <3>1. CASE i = 1
      BY <1>2, <3>1
    <3>2. CASE i # 1
      <4>1. PICK k \in 1..n : i = 1 + k
        BY <2>3, <3>2
      <4>2. u[i] = s[k]
        BY <1>2, <4>1
      <4> QED  BY <2>1, <4>2
    <3> QED  BY <3>1, <3>2
  <2> QED  BY <1>2, <2>4, <2>5, SoundAt
<1> QED  BY <1>2, <1>3, <1>4, <1>6, <1>7, <1>8 DEF u, h

\* No rows are sound, complete, and no session.
LEMMA NothingFits ==
    Sound(<<>>) /\ IdsOf(<<>>) = {} /\ Complete(<<>>) /\ ~Headed(<<>>) /\ EntriesOf(<<>>) = <<>>
<1>1. DOMAIN <<>> = {} /\ <<>> \in Seq(Row)
  OBVIOUS
<1> QED  BY <1>1 DEF Sound, IdsOf, Complete, Headed, EntriesOf, Row

\* The entries of sound rows are sound, and the rows they are read from begin with a header.
LEMMA EntriesFit ==
    ASSUME NEW s, Sound(s)
    PROVE  /\ EntriesOf(s) \in Seq(EntryType) /\ Sound(EntriesOf(s))
           /\ Headed(s) => s = <<Header>> \o EntriesOf(s) /\ IdsOf(s) = IdsOf(EntriesOf(s)) \cup {NoId}
           /\ ~Headed(s) => EntriesOf(s) = <<>>
           /\ IdsOf(EntriesOf(s)) \subseteq IdsOf(s)
<1>1. /\ s \in Seq(Row)
      /\ \A i, j \in 1..Len(s) : i < j => s[i].id < s[j].id
      /\ \A i \in 1..Len(s) : s[i] = Header \/ s[i].parent < s[i].id
  BY SoundAt
<1>2. CASE ~Headed(s)
  <2>1. EntriesOf(s) = <<>>
    BY <1>2 DEF EntriesOf
  <2>2. <<>> \in Seq(EntryType) /\ <<>> \in Seq(Row) /\ Len(<<>>) = 0
    OBVIOUS
  <2>3. Sound(<<>>) /\ IdsOf(<<>>) = {}
    BY NothingFits
  <2> QED  BY <1>2, <2>1, <2>2, <2>3
<1>3. CASE Headed(s)
  <2> DEFINE t == Tail(s)
             n == Len(t)
  <2>1. s # <<>> /\ Head(s) = Header /\ EntriesOf(s) = t
    BY <1>3 DEF Headed, EntriesOf
  <2>2. /\ s[1] = Header /\ Len(s) \in Nat \ {0}
        /\ t \in Seq(Row) /\ n = Len(s) - 1
        /\ \A k \in 1..(Len(s) - 1) : t[k] = s[k + 1]
    BY <1>1, <2>1, HeadOf
  <2> HIDE DEF t
  <2>3. ASSUME NEW k \in 1..n
        PROVE  t[k] \in EntryType /\ t[k].parent < t[k].id
    <3>1. k + 1 \in 1..Len(s) /\ 1 \in 1..Len(s) /\ 1 < k + 1 /\ t[k] = s[k + 1]
      BY <2>2
    <3>2. s[1].id < s[k + 1].id
      BY <1>1, <3>1
    <3>3. s[k + 1] \in Row
      BY <1>1, <3>1
    <3>4. s[k + 1].id # NoId
      BY <2>2, <3>2, <3>3, RowTypes DEF NoId
    <3>5. s[k + 1] \in EntryType /\ s[k + 1] # Header
      BY <3>3, <3>4, RowTypes
    <3> QED  BY <1>1, <3>1, <3>5
  <2>4. t \in Seq(EntryType)
    <3>1. t \in Seq(Row) /\ \A k \in 1..Len(t) : t[k] \in EntryType
      BY <2>2, <2>3
    <3> HIDE DEF n
    <3> QED  BY <3>1
  <2>5. ASSUME NEW i \in 1..n, NEW j \in 1..n, i < j
        PROVE  t[i].id < t[j].id
    <3>1. i + 1 \in 1..Len(s) /\ j + 1 \in 1..Len(s) /\ i + 1 < j + 1
          /\ t[i] = s[i + 1] /\ t[j] = s[j + 1]
      BY <2>2, <2>5
    <3> QED  BY <1>1, <3>1
  <2>6. Sound(t)
    BY <2>2, <2>3, <2>5, SoundAt
  <2>7. s = <<Header>> \o t
    <3> DEFINE u == <<Header>> \o t
    <3>1. /\ u \in Seq(Row) /\ Len(u) = 1 + n /\ n \in Nat
          /\ \A k \in 1..1 : u[k] = <<Header>>[k]
          /\ \A k \in 1..n : u[1 + k] = t[k]
      <4>1. <<Header>> \in Seq(Row) /\ Len(<<Header>>) = 1
        BY RowTypes
      <4> QED  BY <2>2, <4>1, JoinAt
    <3>2. u[1] = Header
      BY <3>1
    <3> HIDE DEF u, n
    <3>3. Len(u) = Len(s)
      BY <2>2, <3>1
    <3>4. \A k \in 1..Len(s) : u[k] = s[k]
      <4> TAKE k \in 1..Len(s)
      <4>1. CASE k = 1
        BY <2>2, <3>2, <4>1
      <4>2. CASE k # 1
        <5>1. k - 1 \in 1..n /\ 1 + (k - 1) = k /\ k - 1 \in 1..(Len(s) - 1) /\ (k - 1) + 1 = k
          BY <2>2, <4>2
        <5>2. u[k] = t[k - 1]
          BY <3>1, <5>1
        <5>3. t[k - 1] = s[k]
          BY <2>2, <5>1
        <5> QED  BY <5>2, <5>3
      <4> QED  BY <4>1, <4>2
    <3>5. u = s
      BY <1>1, <3>1, <3>3, <3>4, SameSequence
    <3> QED  BY <3>5 DEF u
  <2>8. IdsOf(s) = IdsOf(t) \cup {NoId}
    BY <2>4, <2>7, HeaderFirst
  <2> QED  BY <1>3, <2>1, <2>4, <2>6, <2>7, <2>8
<1> QED  BY <1>2, <1>3

\* Rows that are added behind a header are entries.
LEMMA EntriesJoin ==
    ASSUME NEW s \in Seq(Row), NEW t \in Seq(Row), Headed(s), Sound(s \o t)
    PROVE  /\ Headed(s \o t)
           /\ t \in Seq(EntryType)
           /\ EntriesOf(s \o t) = EntriesOf(s) \o t
<1> DEFINE u == s \o t
           n == Len(s)
           m == Len(t)
           a == EntriesOf(s)
<1>1. Sound(s)
  BY SoundPart
<1>2. s = <<Header>> \o a /\ a \in Seq(EntryType)
  BY <1>1, EntriesFit
<1>3. s # <<>> /\ Head(s) = Header
  BY DEF Headed
<1>4. s[1] = Header /\ n \in Nat \ {0}
  BY <1>3, HeadOf
<1>5. /\ u \in Seq(Row) /\ Len(u) = n + m /\ m \in Nat
      /\ \A k \in 1..n : u[k] = s[k]
      /\ \A k \in 1..m : u[n + k] = t[k]
  BY JoinAt
<1> HIDE DEF u
<1>6. Headed(u)
  <2>1. u[1] = Header /\ u # <<>>
    <3>1. 1 \in 1..n /\ Len(u) # 0
      BY <1>4, <1>5
    <3> QED  BY <1>4, <1>5, <3>1
  <2>2. Head(u) = u[1]
    BY <1>5, <2>1, HeadOf
  <2> QED  BY <2>1, <2>2 DEF Headed
<1>7. ASSUME NEW k \in 1..m
      PROVE  t[k] \in EntryType
  <2>1. 1 \in 1..Len(u) /\ n + k \in 1..Len(u) /\ 1 < n + k
    BY <1>4, <1>5
  <2>2. Sound(u)
    BY DEF u
  <2>3. u[1].id < u[n + k].id
    BY <2>1, <2>2, SoundAt
  <2>4. u[1] = Header /\ u[n + k] = t[k] /\ t[k] \in Row
    <3>1. 1 \in 1..n
      BY <1>4
    <3> QED  BY <1>4, <1>5, <3>1
  <2>5. t[k].id # NoId
    BY <2>3, <2>4, RowTypes DEF NoId
  <2> QED  BY <2>4, <2>5, RowTypes
<1>8. t \in Seq(EntryType)
  BY <1>7
<1> HIDE DEF a
<1>9. <<Header>> \o (a \o t) = u
  <2>1. <<Header>> \in Seq(Row) /\ a \in Seq(Row) /\ t \in Seq(Row)
    BY <1>2, RowTypes DEF Row
  <2>2. <<Header>> \o (a \o t) = (<<Header>> \o a) \o t
    BY <2>1, JoinAssociative
  <2> QED  BY <1>2, <2>2 DEF u
<1>10. a \o t \in Seq(EntryType)
  BY <1>2, <1>8
<1>11. EntriesOf(<<Header>> \o (a \o t)) = a \o t
  BY <1>10, HeaderFirst
<1> QED  BY <1>6, <1>8, <1>9, <1>11 DEF u, a

-------------------------------------------------------------------------------
(* Files that are written. *)

\* A file without its last line.
Cut(file) == [file EXCEPT !.lines = Front(file.lines)]

\* What is read depends on the lines only.
LEMMA SameParsed ==
    ASSUME NEW file, NEW other, other.lines = file.lines
    PROVE  Parsed(other) = Parsed(file)
<1> DEFINE P(s) == Picked(s, {k \in DOMAIN s : s[k] # Malformed})
<1>1. Parsed(other) = P(other.lines) /\ Parsed(file) = P(file.lines)
  BY DEF Parsed
<1> HIDE DEF P
<1> QED  BY <1>1

\* An appended row is the last, behind what was there.
LEMMA AppendFront ==
    ASSUME NEW T, NEW s \in Seq(T), NEW x \in T
    PROVE  /\ Append(s, x) # <<>> /\ Front(Append(s, x)) = s /\ Last(Append(s, x)) = x
<1> DEFINE u == Append(s, x)
<1>1. u \in Seq(T) /\ Len(u) = Len(s) + 1 /\ Len(s) \in Nat /\ u[Len(s) + 1] = x
      /\ \A k \in 1..Len(s) : u[k] = s[k]
  BY AppendAt
<1> HIDE DEF u
<1>2. u # <<>>
  <2>1. Len(u) # 0
    BY <1>1
  <2> QED  BY <2>1
<1>3. Front(u) \in Seq(T) /\ Last(u) = u[Len(u)] /\ Append(Front(u), Last(u)) = u
  BY <1>1, <1>2, FrontOf
<1>4. Last(u) = x /\ x \in T
  BY <1>1, <1>3
<1>5. /\ Len(Append(Front(u), Last(u))) = Len(Front(u)) + 1
      /\ \A k \in 1..Len(Front(u)) : Append(Front(u), Last(u))[k] = Front(u)[k]
  BY <1>3, <1>4, AppendAt
<1>6. Front(u) = s
  <2> DEFINE f == Front(u)
  <2>1. f \in Seq(T) /\ Len(f) \in Nat /\ Len(u) = Len(f) + 1 /\ \A k \in 1..Len(f) : u[k] = f[k]
    BY <1>3, <1>5
  <2> HIDE DEF f
  <2>2. Len(f) = Len(s) /\ \A k \in 1..Len(f) : f[k] = s[k]
    BY <1>1, <2>1
  <2>3. f = s
    BY <2>1, <2>2, SameSequence
  <2> QED  BY <2>3 DEF f
<1> QED  BY <1>2, <1>4, <1>6 DEF u

\* What is read of a file, and of what is left of it without its last line.
LEMMA ParsedCut ==
    ASSUME NEW file \in FileType, file.lines # <<>>
    PROVE  /\ Cut(file) \in FileType /\ Cut(file).lines = Front(file.lines)
           /\ Last(file.lines) \in LineType
           /\ Parsed(file) = IF Last(file.lines) = Malformed THEN Parsed(Cut(file))
                             ELSE Append(Parsed(Cut(file)), Last(file.lines))
<1> DEFINE s == file.lines
           c == Cut(file)
<1>1. s \in Seq(LineType) /\ s # <<>>
  BY DEF FileType
<1> HIDE DEF s
<1>2. Front(s) \in Seq(LineType) /\ Last(s) \in LineType /\ Append(Front(s), Last(s)) = s
  BY <1>1, FrontOf
<1>3. c \in FileType /\ c.lines = Front(s)
  BY <1>2 DEF Cut, FileType, s
<1> HIDE DEF c
<1>4. file.lines = Append(c.lines, Last(s)) /\ c.lines \in Seq(LineType)
  BY <1>2, <1>3 DEF s
<1>5. Parsed(file) = IF Last(s) = Malformed THEN Parsed(c) ELSE Append(Parsed(c), Last(s))
  BY <1>2, <1>4, ParsedAppend
<1> QED  BY <1>2, <1>3, <1>5 DEF s, c

\* What is written behind a torn line goes into that line, anything else behind the last.
LEMMA JoinedLines ==
    ASSUME NEW file \in FileType, file.open => file.lines # <<>>, NEW line \in LineType
    PROVE  /\ Joined(file, line) \in Seq(LineType) /\ Joined(file, line) # <<>>
           /\ Front(Joined(file, line)) = IF file.open THEN Front(file.lines) ELSE file.lines
           /\ Last(Joined(file, line)) = IF file.open THEN Malformed ELSE line
<1>1. file.lines \in Seq(LineType) /\ Malformed \in LineType
  BY RowTypes DEF FileType
<1>2. CASE file.open
  <2>1. Front(file.lines) \in Seq(LineType)
    BY <1>1, <1>2, FrontOf
  <2>2. Joined(file, line) = Append(Front(file.lines), Malformed)
    BY <1>2 DEF Joined
  <2>3. Append(Front(file.lines), Malformed) \in Seq(LineType)
    BY <1>1, <2>1, AppendAt
  <2> QED  BY <1>1, <1>2, <2>1, <2>2, <2>3, AppendFront
<1>3. CASE ~file.open
  <2>1. Joined(file, line) = Append(file.lines, line)
    BY <1>3 DEF Joined
  <2>2. Append(file.lines, line) \in Seq(LineType)
    BY <1>1, AppendAt
  <2> QED  BY <1>1, <1>3, <2>1, <2>2, AppendFront
<1> QED  BY <1>2, <1>3

\* A line that is written: a row more, unless it ends up in a line without its newline,
\* whose row it spoils (Joined stands for appendFileSync).
LEMMA ParsedJoined ==
    ASSUME NEW file \in FileType, file.open => file.lines # <<>>, NEW line \in LineType,
           NEW g \in FileType, g.lines = Joined(file, line)
    PROVE  /\ Parsed(Cut(g)) = Parsed(IF file.open THEN Cut(file) ELSE file)
           /\ Parsed(g) = IF file.open THEN Parsed(Cut(file))
                          ELSE IF line = Malformed THEN Parsed(file)
                          ELSE Append(Parsed(file), line)
<1>1. /\ g.lines # <<>>
      /\ Front(g.lines) = IF file.open THEN Front(file.lines) ELSE file.lines
      /\ Last(g.lines) = IF file.open THEN Malformed ELSE line
  BY JoinedLines
<1>2. /\ Cut(g).lines = Front(g.lines)
      /\ Parsed(g) = IF Last(g.lines) = Malformed THEN Parsed(Cut(g))
                     ELSE Append(Parsed(Cut(g)), Last(g.lines))
  BY <1>1, ParsedCut
<1>3. CASE file.open
  <2>1. Cut(file).lines = Front(file.lines)
    BY <1>3, ParsedCut
  <2>2. Parsed(Cut(g)) = Parsed(Cut(file))
    BY <1>1, <1>2, <1>3, <2>1, SameParsed
  <2> QED  BY <1>1, <1>2, <1>3, <2>2
<1>4. CASE ~file.open
  <2>1. Parsed(Cut(g)) = Parsed(file)
    BY <1>1, <1>2, <1>4, SameParsed
  <2> QED  BY <1>1, <1>2, <1>4, <2>1
<1> QED  BY <1>3, <1>4

\* A line that is written wholly.
LEMMA WrittenFits ==
    ASSUME NEW file \in FileType, file.open => file.lines # <<>>, NEW row \in Row
    PROVE  LET g == Written(file, row)
           IN  /\ g \in FileType /\ g.made /\ ~g.open /\ g.lines # <<>>
               /\ Parsed(g) = IF file.open THEN Parsed(Cut(file)) ELSE Append(Parsed(file), row)
<1> DEFINE g == Written(file, row)
<1>1. row \in LineType /\ row # Malformed
  BY RowTypes
<1>2. Joined(file, row) \in Seq(LineType) /\ Joined(file, row) # <<>>
  BY <1>1, JoinedLines
<1>3. g \in FileType /\ g.made /\ ~g.open /\ g.lines = Joined(file, row)
  BY <1>2 DEF Written, FileType
<1> HIDE DEF g
<1>4. Parsed(g) = IF file.open THEN Parsed(Cut(file)) ELSE Append(Parsed(file), row)
  BY <1>1, <1>3, ParsedJoined
<1> QED  BY <1>2, <1>3, <1>4 DEF g

\* What is left of a write that stops (Interrupted).
LEMMA InterruptedFits ==
    ASSUME NEW file \in FileType, file.open => file.lines # <<>>, NEW row \in Row,
           NEW g \in Interrupted(file, row), g # file
    PROVE  /\ g \in FileType /\ g.made /\ g.open /\ g.lines # <<>>
           /\ Last(g.lines) \in {Malformed, row}
           /\ Parsed(Cut(g)) = Parsed(IF file.open THEN Cut(file) ELSE file)
           /\ Parsed(g) \in IF file.open THEN {Parsed(Cut(file))}
                            ELSE {Parsed(file), Append(Parsed(file), row)}
<1>1. row \in LineType /\ row # Malformed /\ Malformed \in LineType
  BY RowTypes
<1>2. PICK part \in {row, Malformed} :
        g = [file EXCEPT !.made = TRUE, !.lines = Joined(file, part), !.open = TRUE]
  BY DEF Interrupted
<1>3. part \in LineType
  BY <1>1
<1>4. /\ Joined(file, part) \in Seq(LineType) /\ Joined(file, part) # <<>>
      /\ Last(Joined(file, part)) = IF file.open THEN Malformed ELSE part
  BY <1>3, JoinedLines
<1>5. g \in FileType /\ g.made /\ g.open /\ g.lines = Joined(file, part)
  BY <1>2, <1>4 DEF FileType
<1>6. /\ Parsed(Cut(g)) = Parsed(IF file.open THEN Cut(file) ELSE file)
      /\ Parsed(g) = IF file.open THEN Parsed(Cut(file))
                     ELSE IF part = Malformed THEN Parsed(file)
                     ELSE Append(Parsed(file), part)
  BY <1>3, <1>5, ParsedJoined
<1>7. Last(g.lines) \in {Malformed, row}
  BY <1>4, <1>5
<1>8. Parsed(g) \in IF file.open THEN {Parsed(Cut(file))}
                    ELSE {Parsed(file), Append(Parsed(file), row)}
  BY <1>1, <1>6
<1> QED  BY <1>4, <1>5, <1>6, <1>7, <1>8

-------------------------------------------------------------------------------
(* The inductive invariant. *)

MemoryType ==
    [entries : Seq(EntryType), leaf : Ids \cup {NoId}, file : Files \cup {NoPath}, flushed : BOOLEAN]

WriteType == [mode : Modes \cup {"none"}, todo : Seq(Row), opened : BOOLEAN]

Types ==
    /\ disk \in [Files -> FileType]
    /\ running \in BOOLEAN
    /\ memory \in MemoryType
    /\ io \in WriteType
    /\ acked \subseteq 1..(next - 1)
    /\ next \in 1..(MaxId + 1)
    /\ crashes \in Nat /\ errors \in Nat /\ atRisk \in BOOLEAN

\* Ids are below n; what a file holds is sound, and complete while no write has failed.
FileFits(file, n, whole) ==
    /\ file.open => file.lines # <<>>
    /\ ~file.made => file.lines = <<>>
    /\ Sound(Parsed(file)) /\ IdsOf(Parsed(file)) \subseteq 0..(n - 1)
    /\ whole => Complete(EntriesIn(file))

FilesFit == \A f \in Files : FileFits(disk[f], next, errors = 0)

EntriesFitIn(es, n, whole) ==
    Sound(es) /\ IdsOf(es) \subseteq 0..(n - 1) /\ (whole => Complete(es))

MemoryFits ==
    /\ ~running => memory = NoSession /\ io = NoWrite
    /\ running => memory.file \in Files
    /\ EntriesFitIn(memory.entries, next, errors = 0)
    /\ memory.leaf \in IdsOf(memory.entries) \cup {NoId}

\* What a write has written, if it began with an empty file or goes on with one.
Done == IF io.opened \/ io.mode = "append" THEN Parsed(disk[memory.file]) ELSE <<>>

\* The rows of a file that is written as a whole.
Whole == Done \o io.todo

WriteFits ==
    /\ io.mode = "none" => io = NoWrite
    /\ io.mode # "none" =>
         io.todo # <<>> /\ Sound(Whole) /\ IdsOf(Whole) \subseteq 0..(next - 1)
    /\ io.mode = "append" =>
         /\ memory.flushed /\ memory.entries # <<>> /\ io.todo = <<Last(memory.entries)>>
         /\ Last(memory.entries).id \notin acked
    /\ io.mode \in Modes \ {"append"} =>
         /\ io.mode # "copy" => Whole = <<Header>> \o memory.entries
         /\ io.opened => ~disk[memory.file].open
         /\ io.mode \notin {"fork", "migrate"} => ~memory.flushed
    /\ io.mode = "copy" => Headed(Whole) /\ (errors = 0 => Complete(EntriesOf(Whole)))
    /\ io.mode = "adopt" /\ ~io.opened => disk[memory.file].lines = <<>>
    /\ io.mode = "fork" /\ ~io.opened => ~disk[memory.file].made
    /\ io.mode = "migrate" =>
         memory.flushed /\ (~io.opened => EntriesIn(disk[memory.file]) = memory.entries)

\* A session goes on with a file that is there.
Continues == running /\ memory.flushed /\ io.mode \in {"none", "append"}

MirrorFits ==
    Continues /\ errors = 0 =>
      /\ ~disk[memory.file].open
      /\ Parsed(disk[memory.file]) \o io.todo = <<Header>> \o memory.entries

Torn == Continues /\ disk[memory.file].open

Held == OnDisk \cup (IF io.mode = "migrate" THEN IdsOf(memory.entries) ELSE {})

LossFits ==
    ~atRisk =>
      /\ Cardinality(acked \ Held) + (IF Torn THEN 1 ELSE 0) <= errors
      /\ Continues => Readable(disk[memory.file])
      /\ Torn => /\ Last(disk[memory.file].lines).id \notin acked
                 /\ Readable(Cut(disk[memory.file]))

IInv == Types /\ FilesFit /\ MemoryFits /\ WriteFits /\ MirrorFits /\ LossFits

-------------------------------------------------------------------------------
(* What the steps have in common. *)

\* What fits goes on fitting when ids are given out and writes fail.
LEMMA FitsLater ==
    ASSUME NEW n \in Nat, NEW m \in Nat, n <= m, NEW e \in Nat, NEW d \in Nat, e <= d
    PROVE  /\ \A file : FileFits(file, n, e = 0) => FileFits(file, m, d = 0)
           /\ \A es : EntriesFitIn(es, n, e = 0) => EntriesFitIn(es, m, d = 0)
<1>1. 0..(n - 1) \subseteq 0..(m - 1) /\ (d = 0 => e = 0)
  OBVIOUS
<1> QED  BY <1>1 DEF FileFits, EntriesFitIn

\* The files fit if those that change do.
LEMMA FilesStep ==
    ASSUME Types, FilesFit, Types', next <= next', errors <= errors',
           \A f \in Files : disk'[f] # disk[f] => FileFits(disk'[f], next', errors' = 0)
    PROVE  FilesFit'
<1>1. next \in Nat /\ next' \in Nat /\ errors \in Nat /\ errors' \in Nat
  BY BoundsAssumption DEF Types
<1>2. ASSUME NEW f \in Files, disk'[f] = disk[f]
      PROVE  FileFits(disk'[f], next', errors' = 0)
  <2>1. FileFits(disk[f], next, errors = 0)
    BY DEF FilesFit
  <2>2. FileFits(disk[f], next, errors = 0) => FileFits(disk[f], next', errors' = 0)
    BY <1>1, FitsLater
  <2> QED  BY <1>2, <2>1, <2>2
<1> QED  BY <1>2 DEF FilesFit

\* Less is lost if whatever is lost now was lost before.
LEMMA LostLess ==
    ASSUME Types, Types', acked' \ Held' \subseteq acked \ Held
    PROVE  /\ Cardinality(acked \ Held) \in Nat /\ Cardinality(acked' \ Held') \in Nat
           /\ Cardinality(acked' \ Held') <= Cardinality(acked \ Held)
<1>1. IsFiniteSet(acked \ Held)
  <2>1. next - 1 \in Int /\ acked \ Held \in SUBSET (1..(next - 1))
    <3>1. acked \subseteq 1..(next - 1)
      BY DEF Types
    <3>2. next \in Nat
      BY BoundsAssumption DEF Types
    <3>3. acked \ Held \subseteq 1..(next - 1)
      BY <3>1
    <3> QED  BY <3>2, <3>3
  <2>2. IsFiniteSet(1..(next - 1))
    BY <2>1, FS_Interval
  <2> QED  BY <2>1, <2>2, FS_Subset
<1>2. IsFiniteSet(acked' \ Held') /\ Cardinality(acked' \ Held') <= Cardinality(acked \ Held)
  <2>1. acked' \ Held' \in SUBSET (acked \ Held)
    OBVIOUS
  <2> QED  BY <1>1, <2>1, FS_Subset
<1> QED  BY <1>1, <1>2, FS_CardinalityType

\* What is on disk is in some file.
LEMMA OnDiskAt ==
    /\ \A f \in Files : IdsOf(EntriesIn(disk[f])) \subseteq OnDisk
    /\ \A i \in OnDisk : \E f \in Files : i \in IdsOf(EntriesIn(disk[f]))
BY DEF OnDisk

\* What the file of a session holds, as far as the invariant goes.
LEMMA AtHand ==
    ASSUME IInv, running
    PROVE  /\ memory.file \in Files /\ disk[memory.file] \in FileType
           /\ FileFits(disk[memory.file], next, errors = 0)
           /\ Parsed(disk[memory.file]) \in Seq(Row)
           /\ memory.entries \in Seq(EntryType) /\ io.todo \in Seq(Row)
           /\ next \in Nat /\ errors \in Nat
<1>1. memory.file \in Files
  BY DEF IInv, MemoryFits
<1>2. disk[memory.file] \in FileType /\ FileFits(disk[memory.file], next, errors = 0)
  BY <1>1 DEF IInv, Types, FilesFit
<1>3. disk[memory.file].lines \in Seq(LineType)
  BY <1>2 DEF FileType
<1> QED  BY <1>1, <1>2, <1>3, ParsedType, BoundsAssumption DEF IInv, Types, MemoryType, WriteType

\* Beginning an empty session, in a file that is there or not (newSession, OpenEmpty).
LEMMA BeginKeeps ==
    ASSUME IInv, io = NoWrite, NEW f \in Files, StartNew(f), UNCHANGED <<disk, acked, next, faults>>,
           \/ io' = NoWrite
           \/ io' = [mode |-> "adopt", todo |-> <<Header>>, opened |-> FALSE] /\ disk[f].lines = <<>>
    PROVE  IInv'
<1>1. /\ running' /\ running' = TRUE
      /\ memory' = [entries |-> <<>>, leaf |-> NoId, file |-> f, flushed |-> FALSE]
  BY DEF StartNew, EmptySession
<1>2. /\ memory'.entries = <<>> /\ memory'.leaf = NoId /\ memory'.file = f /\ memory'.flushed = FALSE
  BY <1>1
<1>3. disk' = disk /\ acked' = acked /\ next' = next /\ crashes' = crashes /\ errors' = errors
      /\ atRisk' = atRisk
  BY DEF faults
<1>4. io' \in WriteType /\ io'.mode \in {"none", "adopt"} /\ io'.opened = FALSE
      /\ (io'.mode = "none" => io' = NoWrite)
      /\ (io'.mode = "adopt" => io'.todo = <<Header>> /\ disk[f].lines = <<>>)
  <2>1. NoWrite.mode = "none" /\ NoWrite \in WriteType /\ NoWrite.opened = FALSE
    BY DEF NoWrite, WriteType
  <2>2. <<Header>> \in Seq(Row)
    BY RowTypes
  <2>3. CASE io' = NoWrite
    BY <2>1, <2>3
  <2>4. CASE io' = [mode |-> "adopt", todo |-> <<Header>>, opened |-> FALSE] /\ disk[f].lines = <<>>
    <3>1. io' \in WriteType
      BY <2>2, <2>4 DEF WriteType, Modes
    <3> QED  BY <2>4, <3>1
  <2> QED  BY <2>3, <2>4
<1>5. memory' \in MemoryType
  <2>1. <<>> \in Seq(EntryType)
    OBVIOUS
  <2> QED  BY <1>1, <2>1 DEF MemoryType
<1>6. Types'
  <2>1. Types
    BY DEF IInv
  <2> QED  BY <1>1, <1>3, <1>4, <1>5, <2>1 DEF Types
<1>7. FilesFit'
  BY <1>3 DEF IInv, FilesFit
<1>8. MemoryFits'
  <2>1. IdsOf(<<>>) = {} /\ Sound(<<>>) /\ Complete(<<>>)
    BY NothingFits
  <2>2. EntriesFitIn(memory'.entries, next', errors' = 0)
    BY <1>2, <2>1 DEF EntriesFitIn
  <2> QED  BY <1>1, <1>2, <2>2 DEF MemoryFits
<1>9. WriteFits'
  <2>1. CASE io'.mode = "none"
    BY <1>4, <2>1 DEF WriteFits, Modes
  <2>2. CASE io'.mode = "adopt"
    <3>1. Whole' = <<Header>>
      <4>1. Done' = <<>>
        BY <1>4, <2>2 DEF Done
      <4>2. <<>> \o <<Header>> = <<Header>>
        BY RowTypes, JoinEmpty
      <4> QED  BY <1>4, <2>2, <4>1, <4>2 DEF Whole
    <3>2. <<Header>> \o memory'.entries = <<Header>>
      BY <1>2, RowTypes, JoinEmpty
    <3>3. Sound(<<Header>>) /\ IdsOf(<<Header>>) = {NoId}
      <4>1. <<>> \in Seq(EntryType)
        OBVIOUS
      <4>2. Sound(<<Header>> \o <<>>)
        BY <4>1, NothingFits, HeaderFirst
      <4> QED  BY <1>2, <3>2, <4>2, IdsOne, RowTypes
    <3>4. NoId \in 0..(next' - 1)
      <4>1. next \in Nat \ {0}
        BY BoundsAssumption DEF IInv, Types
      <4> QED  BY <1>3, <4>1 DEF NoId
    <3>5. <<Header>> # <<>>
      OBVIOUS
    <3> QED  BY <1>2, <1>3, <1>4, <2>2, <3>1, <3>2, <3>3, <3>4, <3>5 DEF WriteFits
  <2> QED  BY <1>4, <2>1, <2>2
<1>10. ~Continues'
  BY <1>2 DEF Continues
<1>11. MirrorFits'
  BY <1>10 DEF MirrorFits
<1>12. LossFits'
  <2>1. ~Torn' /\ Held' = OnDisk /\ Held = OnDisk
    <3>1. io.mode = "none"
      BY DEF NoWrite
    <3>2. OnDisk' = OnDisk
      BY <1>3 DEF OnDisk
    <3> QED  BY <1>4, <1>10, <3>1, <3>2 DEF Torn, Held
  <2>2. Cardinality(acked \ Held) \in Nat
    <3>1. acked' \ Held' \subseteq acked \ Held
      BY <1>3, <2>1
    <3> QED  BY <1>6, <3>1, LostLess DEF IInv
  <2>3. ~atRisk => Cardinality(acked \ Held) + (IF Torn THEN 1 ELSE 0) <= errors
    BY DEF IInv, LossFits
  <2>4. ~atRisk => Cardinality(acked \ Held) + 0 <= errors
    <3>1. errors \in Nat
      BY DEF IInv, Types
    <3> QED  BY <2>2, <2>3, <3>1
  <2> QED  BY <1>3, <1>10, <2>1, <2>4 DEF LossFits
<1> QED  BY <1>6, <1>7, <1>8, <1>9, <1>11, <1>12 DEF IInv

\* Nothing more is lost, and a line is torn only by a write that fails.
LEMMA LossStep ==
    ASSUME Types, Types', LossFits, errors <= errors', ~atRisk' => ~atRisk,
           ~atRisk' =>
             /\ acked' \ Held' \subseteq acked \ Held
             /\ Torn' => Torn \/ errors + 1 <= errors'
             /\ Continues' => Readable(disk[memory.file])'
             /\ Torn' => /\ Last(disk[memory.file].lines)'.id \notin acked'
                         /\ Readable(Cut(disk[memory.file]))'
    PROVE  LossFits'
<1> SUFFICES ASSUME ~atRisk'
             PROVE  /\ Cardinality(acked' \ Held') + (IF Torn' THEN 1 ELSE 0) <= errors'
                    /\ Continues' => Readable(disk[memory.file])'
                    /\ Torn' => /\ Last(disk[memory.file].lines)'.id \notin acked'
                                /\ Readable(Cut(disk[memory.file]))'
  BY DEF LossFits
<1>1. Cardinality(acked \ Held) + (IF Torn THEN 1 ELSE 0) <= errors
  BY DEF LossFits
<1>2. /\ Cardinality(acked \ Held) \in Nat /\ Cardinality(acked' \ Held') \in Nat
      /\ Cardinality(acked' \ Held') <= Cardinality(acked \ Held)
  BY LostLess
<1>3. errors \in Nat /\ errors' \in Nat
  BY DEF Types
<1>4. Cardinality(acked' \ Held') + (IF Torn' THEN 1 ELSE 0) <= errors'
  <2> DEFINE c == Cardinality(acked \ Held)
             d == Cardinality(acked' \ Held')
  <2>1. c \in Nat /\ d \in Nat /\ d <= c
    BY <1>2
  <2>2. c + (IF Torn THEN 1 ELSE 0) <= errors
    BY <1>1
  <2> HIDE DEF c, d
  <2>3. CASE ~Torn'
    <3>1. d + 0 <= errors'
      BY <1>3, <2>1, <2>2
    <3> QED  BY <2>3, <3>1 DEF d
  <2>4. CASE Torn' /\ Torn
    <3>1. d + 1 <= errors'
      BY <1>3, <2>1, <2>2, <2>4
    <3> QED  BY <2>4, <3>1 DEF d
  <2>5. CASE Torn' /\ errors + 1 <= errors'
    <3>1. d + 1 <= errors'
      BY <1>3, <2>1, <2>2, <2>5
    <3> QED  BY <2>5, <3>1 DEF d
  <2> QED  BY <2>3, <2>4, <2>5
<1> QED  BY <1>4

\* A session that is let go, by dispose or by the end of its process, when nothing is
\* being written.
LEMMA DisposeKeeps ==
    ASSUME IInv, Dispose
    PROVE  IInv'
<1>1. running /\ io = NoWrite /\ running' = FALSE /\ memory' = NoSession
      /\ disk' = disk /\ io' = io /\ acked' = acked /\ next' = next
      /\ crashes' = crashes /\ errors' = errors /\ atRisk' = atRisk
  BY DEF Dispose, Idle, faults
<1>2. /\ memory'.entries = <<>> /\ memory'.leaf = NoId /\ memory'.file = NoPath
      /\ memory'.flushed = FALSE /\ memory' \in MemoryType
  <2>1. <<>> \in Seq(EntryType)
    OBVIOUS
  <2> QED  BY <1>1, <2>1 DEF NoSession, EmptySession, MemoryType
<1>3. Types'
  BY <1>1, <1>2 DEF IInv, Types
<1>4. FilesFit'
  BY <1>1 DEF IInv, FilesFit
<1>5. MemoryFits'
  <2>1. EntriesFitIn(memory'.entries, next', errors' = 0)
    BY <1>2, NothingFits DEF EntriesFitIn
  <2> QED  BY <1>1, <1>2, <2>1 DEF MemoryFits
<1>6. io'.mode = "none" /\ io.mode = "none"
  BY <1>1 DEF NoWrite
<1>7. WriteFits'
  BY <1>1, <1>6 DEF WriteFits, Modes
<1>8. ~Continues' /\ ~Torn'
  BY <1>1 DEF Continues, Torn
<1>9. MirrorFits'
  BY <1>8 DEF MirrorFits
<1>10. LossFits'
  <2>1. acked' \ Held' \subseteq acked \ Held
    BY <1>1, <1>6 DEF Held, OnDisk
  <2>2. errors <= errors'
    BY <1>1 DEF IInv, Types
  <2>3. Types /\ LossFits
    BY DEF IInv
  <2> QED  BY <1>1, <1>3, <1>8, <2>1, <2>2, <2>3, LossStep
<1> QED  BY <1>3, <1>4, <1>5, <1>7, <1>9, <1>10 DEF IInv

\* The leaf moves.
LEMMA BranchKeeps ==
    ASSUME IInv, NEW id, Branch(id)
    PROVE  IInv'
<1>1. running /\ io = NoWrite /\ running' = running
      /\ disk' = disk /\ io' = io /\ acked' = acked /\ next' = next
      /\ crashes' = crashes /\ errors' = errors /\ atRisk' = atRisk
      /\ id \in IdsOf(memory.entries) \cup {NoId} /\ memory' = [memory EXCEPT !.leaf = id]
  BY DEF Branch, Idle, faults
<1>2. memory \in MemoryType
  BY DEF IInv, Types
<1>3. id \in Ids \cup {NoId}
  <2>1. \A k \in DOMAIN memory.entries : memory.entries[k].id \in Ids
    <3>1. memory.entries \in Seq(EntryType)
      BY <1>2 DEF MemoryType
    <3>2. \A k \in DOMAIN memory.entries : memory.entries[k] \in EntryType
      BY <3>1
    <3> QED  BY <3>2 DEF EntryType
  <2> QED  BY <1>1, <2>1 DEF IdsOf
<1>4. /\ memory' \in MemoryType /\ memory'.entries = memory.entries /\ memory'.leaf = id
      /\ memory'.file = memory.file /\ memory'.flushed = memory.flushed
  BY <1>1, <1>2, <1>3 DEF MemoryType
<1>5. Types'
  BY <1>1, <1>4 DEF IInv, Types
<1>6. FilesFit'
  BY <1>1 DEF IInv, FilesFit
<1>7. MemoryFits'
  BY <1>1, <1>4 DEF IInv, MemoryFits
<1>8. io'.mode = "none" /\ io.mode = "none"
  BY <1>1 DEF NoWrite
<1>9. WriteFits'
  BY <1>1, <1>8 DEF WriteFits, Modes
<1>10. (Continues' <=> Continues) /\ (Torn' <=> Torn) /\ Held' = Held
  BY <1>1, <1>4, <1>8 DEF Continues, Torn, Held, OnDisk
<1>11. MirrorFits'
  BY <1>1, <1>4, <1>10 DEF IInv, MirrorFits
<1>12. LossFits'
  BY <1>1, <1>4, <1>10 DEF IInv, LossFits
<1> QED  BY <1>5, <1>6, <1>7, <1>9, <1>11, <1>12 DEF IInv

\* Ending the last line leaves what is read as it was.
LEMMA RepairedFits ==
    ASSUME NEW file \in FileType, NEW n, NEW whole, FileFits(file, n, whole)
    PROVE  /\ Repaired(file) \in FileType /\ FileFits(Repaired(file), n, whole)
           /\ ~Repaired(file).open
           /\ Parsed(Repaired(file)) = Parsed(file) /\ EntriesIn(Repaired(file)) = EntriesIn(file)
<1>1. /\ Repaired(file) \in FileType /\ ~Repaired(file).open
      /\ Repaired(file).lines = file.lines /\ Repaired(file).made = file.made
  BY DEF Repaired, FileType
<1>2. Parsed(Repaired(file)) = Parsed(file)
  BY <1>1, SameParsed
<1>3. EntriesIn(Repaired(file)) = EntriesIn(file)
  BY <1>2 DEF EntriesIn
<1> QED  BY <1>1, <1>2, <1>3 DEF FileFits

\* Ending the last line of a file of which nothing is being written.
LEMMA RepairStep ==
    ASSUME IInv, NEW f \in Files, disk' = [disk EXCEPT ![f] = Repaired(@)]
    PROVE  /\ disk' \in [Files -> FileType] /\ OnDisk' = OnDisk
           /\ disk'[f] = Repaired(disk[f])
           /\ \A g \in Files : FileFits(disk'[g], next, errors = 0)
           /\ \A g \in Files : Parsed(disk'[g]) = Parsed(disk[g])
           /\ \A g \in Files : disk'[g].made = disk[g].made /\ disk'[g].lines = disk[g].lines
<1>1. disk \in [Files -> FileType] /\ \A g \in Files : FileFits(disk[g], next, errors = 0)
  BY DEF IInv, Types, FilesFit
<1>2. /\ Repaired(disk[f]) \in FileType /\ FileFits(Repaired(disk[f]), next, errors = 0)
      /\ Parsed(Repaired(disk[f])) = Parsed(disk[f])
      /\ EntriesIn(Repaired(disk[f])) = EntriesIn(disk[f])
  BY <1>1, RepairedFits
<1>3. disk' \in [Files -> FileType] /\ disk'[f] = Repaired(disk[f])
      /\ \A g \in Files \ {f} : disk'[g] = disk[g]
  BY <1>1, <1>2
<1>4. \A g \in Files : /\ FileFits(disk'[g], next, errors = 0) /\ Parsed(disk'[g]) = Parsed(disk[g])
                       /\ EntriesIn(disk'[g]) = EntriesIn(disk[g])
  BY <1>1, <1>2, <1>3
<1>5. OnDisk' = OnDisk
  BY <1>4 DEF OnDisk
<1>6. \A g \in Files : disk'[g].made = disk[g].made /\ disk'[g].lines = disk[g].lines
  <2>1. Repaired(disk[f]).made = disk[f].made /\ Repaired(disk[f]).lines = disk[f].lines
    BY <1>1 DEF Repaired, FileType
  <2> QED  BY <1>3, <2>1
<1> QED  BY <1>3, <1>4, <1>5, <1>6

\* The leaf of a session that has been read is its last entry, if it has one.
LEMMA LeafFits ==
    ASSUME NEW es \in Seq(EntryType)
    PROVE  LeafOf(es) \in IdsOf(es) \cup {NoId} /\ LeafOf(es) \in Ids \cup {NoId}
<1>1. CASE es = <<>>
  BY <1>1 DEF LeafOf
<1>2. CASE es # <<>>
  <2>1. Last(es) = es[Len(es)] /\ Last(es) \in EntryType /\ LeafOf(es) = Last(es).id
    BY <1>2, FrontOf DEF LeafOf
  <2>2. Len(es) \in 1..Len(es)
    BY <1>2
  <2>3. Last(es).id \in IdsOf(es)
    BY <2>1, <2>2, IdsAt
  <2> QED  BY <2>1, <2>3 DEF EntryType
<1> QED  BY <1>1, <1>2

\* Loading a session from its file (_loadEntries).
LEMMA LoadKeeps ==
    ASSUME IInv, ~running, NEW f \in Files, Load(f)
    PROVE  IInv'
<1> DEFINE es == EntriesIn(disk[f])
<1>1. /\ Readable(disk[f]) /\ running' = TRUE
      /\ memory' = [entries |-> es, leaf |-> LeafOf(es), file |-> f, flushed |-> TRUE]
      /\ disk' = [disk EXCEPT ![f] = Repaired(@)]
      /\ IF disk[f].old THEN io' = [mode |-> "migrate", todo |-> <<Header>> \o es, opened |-> FALSE]
                        ELSE io' = io
      /\ acked' = acked /\ next' = next /\ crashes' = crashes /\ errors' = errors /\ atRisk' = atRisk
  BY DEF Load, Write, faults
<1>2. memory = NoSession /\ io = NoWrite /\ io.mode = "none" /\ io.opened = FALSE
  BY DEF IInv, MemoryFits, NoWrite
<1>3. /\ disk' \in [Files -> FileType] /\ OnDisk' = OnDisk /\ disk'[f] = Repaired(disk[f])
      /\ \A g \in Files : FileFits(disk'[g], next, errors = 0)
      /\ \A g \in Files : Parsed(disk'[g]) = Parsed(disk[g])
  BY <1>1, RepairStep
<1>4. disk[f] \in FileType /\ FileFits(disk[f], next, errors = 0)
  BY DEF IInv, Types, FilesFit
<1>5. /\ Sound(Parsed(disk[f])) /\ IdsOf(Parsed(disk[f])) \subseteq 0..(next - 1)
      /\ (errors = 0 => Complete(es))
  BY <1>4 DEF FileFits
<1>6. es = EntriesOf(Parsed(disk[f])) /\ Headed(Parsed(disk[f]))
  BY <1>1 DEF EntriesIn, Readable
<1> HIDE DEF es
<1>7. /\ es \in Seq(EntryType) /\ Sound(es) /\ Parsed(disk[f]) = <<Header>> \o es
      /\ IdsOf(es) \subseteq IdsOf(Parsed(disk[f]))
  BY <1>5, <1>6, EntriesFit
<1>8. LeafOf(es) \in IdsOf(es) \cup {NoId} /\ LeafOf(es) \in Ids \cup {NoId}
  BY <1>7, LeafFits
<1>9. /\ memory' \in MemoryType /\ memory'.entries = es /\ memory'.leaf = LeafOf(es)
      /\ memory'.file = f /\ memory'.flushed = TRUE
  BY <1>1, <1>7, <1>8 DEF MemoryType
<1>10. /\ io' \in WriteType /\ io'.opened = FALSE /\ io'.mode \in {"none", "migrate"}
       /\ io'.mode = "none" => io' = NoWrite
       /\ io'.mode = "migrate" => io'.todo = <<Header>> \o es
  <2>1. CASE disk[f].old
    <3>1. <<Header>> \o es \in Seq(Row)
      BY <1>7, HeaderFirst
    <3>2. io' = [mode |-> "migrate", todo |-> <<Header>> \o es, opened |-> FALSE]
      BY <1>1, <2>1
    <3> QED  BY <3>1, <3>2 DEF WriteType, Modes
  <2>2. CASE ~disk[f].old
    BY <1>1, <1>2, <2>2 DEF IInv, Types
  <2> QED  BY <2>1, <2>2
<1>11. Types'
  BY <1>1, <1>3, <1>9, <1>10 DEF IInv, Types
<1>12. FilesFit'
  BY <1>1, <1>3 DEF FilesFit
<1>13. MemoryFits'
  <2>1. EntriesFitIn(es, next, errors = 0)
    BY <1>5, <1>7 DEF EntriesFitIn
  <2> QED  BY <1>1, <1>8, <1>9, <2>1 DEF MemoryFits
<1>14. WriteFits'
  <2>1. CASE io'.mode = "none"
    BY <1>10, <2>1 DEF WriteFits, Modes
  <2>2. CASE io'.mode = "migrate"
    <3>1. Whole' = <<Header>> \o es
      <4>1. Done' = <<>>
        BY <1>10, <2>2 DEF Done
      <4>2. <<Header>> \o es \in Seq(Row)
        BY <1>7, HeaderFirst
      <4>3. <<>> \o (<<Header>> \o es) = <<Header>> \o es
        BY <4>2, JoinEmpty
      <4> QED  BY <1>10, <2>2, <4>1, <4>3 DEF Whole
    <3>2. <<Header>> \o es # <<>>
      BY <1>7, HeaderFirst
    <3>3. EntriesIn(disk'[f]) = es
      BY <1>3, <1>6 DEF EntriesIn
    <3> QED  BY <1>1, <1>5, <1>7, <1>9, <1>10, <2>2, <3>1, <3>2, <3>3 DEF WriteFits
  <2> QED  BY <1>10, <2>1, <2>2
<1>15. ~disk'[f].open
  BY <1>3, <1>4, RepairedFits
<1>16. MirrorFits'
  <2> SUFFICES ASSUME Continues', errors' = 0
               PROVE  ~disk'[f].open /\ Parsed(disk'[f]) \o io'.todo = <<Header>> \o es
    BY <1>9 DEF MirrorFits
  <2>1. io'.todo = <<>>
    BY <1>10 DEF Continues, NoWrite
  <2>2. Parsed(disk'[f]) \o <<>> = <<Header>> \o es
    <3>1. <<Header>> \o es \in Seq(Row)
      BY <1>7, HeaderFirst
    <3> QED  BY <1>3, <1>7, <3>1, JoinEmpty
  <2> QED  BY <1>15, <2>1, <2>2
<1>17. LossFits'
  <2>1. ~Torn'
    BY <1>9, <1>15 DEF Torn
  <2>2. acked' \ Held' \subseteq acked \ Held
    BY <1>1, <1>2, <1>3 DEF Held
  <2>3. Readable(disk'[f])
    BY <1>1, <1>3 DEF Readable
  <2>4. Types /\ LossFits /\ errors <= errors'
    BY <1>1 DEF IInv, Types
  <2> QED  BY <1>1, <1>9, <1>11, <2>1, <2>2, <2>3, <2>4, LossStep
<1> QED  BY <1>11, <1>12, <1>13, <1>14, <1>16, <1>17 DEF IInv

\* Copying a session into a new file (forkFrom).
LEMMA ForkFromKeeps ==
    ASSUME IInv, NEW f \in Files, NEW g \in Files, ForkFrom(f, g)
    PROVE  IInv'
<1> DEFINE es == EntriesIn(disk[f])
<1>1. /\ ~running /\ Readable(disk[f]) /\ f # g /\ ~disk[g].made
      /\ disk' = [disk EXCEPT ![f] = Repaired(@)]
      /\ running' = TRUE
      /\ memory' = [entries |-> <<>>, leaf |-> NoId, file |-> g, flushed |-> FALSE]
      /\ io' = [mode |-> "copy", todo |-> <<Header>> \o es, opened |-> FALSE]
      /\ acked' = acked /\ next' = next /\ crashes' = crashes /\ errors' = errors /\ atRisk' = atRisk
  BY DEF ForkFrom, Write, faults, EmptySession
<1>2. memory = NoSession /\ io = NoWrite /\ io.mode = "none" /\ io.opened = FALSE
  BY <1>1 DEF IInv, MemoryFits, NoWrite
<1>3. /\ disk' \in [Files -> FileType] /\ OnDisk' = OnDisk
      /\ \A h \in Files : FileFits(disk'[h], next, errors = 0)
  BY <1>1, RepairStep
<1>4. disk[f] \in FileType /\ FileFits(disk[f], next, errors = 0)
  BY DEF IInv, Types, FilesFit
<1>5. /\ Sound(Parsed(disk[f])) /\ IdsOf(Parsed(disk[f])) \subseteq 0..(next - 1)
      /\ (errors = 0 => Complete(es))
  BY <1>4 DEF FileFits
<1>6. es = EntriesOf(Parsed(disk[f])) /\ Headed(Parsed(disk[f]))
  BY <1>1 DEF EntriesIn, Readable
<1> HIDE DEF es
<1>7. es \in Seq(EntryType) /\ Sound(es) /\ Parsed(disk[f]) = <<Header>> \o es
  BY <1>5, <1>6, EntriesFit
<1>8. <<Header>> \o es \in Seq(Row) /\ <<Header>> \o es # <<>>
  BY <1>7, HeaderFirst
<1>9. /\ memory' \in MemoryType /\ memory'.entries = <<>> /\ memory'.leaf = NoId
      /\ memory'.file = g /\ memory'.flushed = FALSE
  <2>1. <<>> \in Seq(EntryType)
    OBVIOUS
  <2> QED  BY <1>1, <2>1 DEF MemoryType
<1>10. io' \in WriteType /\ io'.opened = FALSE /\ io'.mode = "copy" /\ io'.todo = <<Header>> \o es
  BY <1>1, <1>8 DEF WriteType, Modes
<1>11. Types'
  BY <1>1, <1>3, <1>9, <1>10 DEF IInv, Types
<1>12. FilesFit'
  BY <1>1, <1>3 DEF FilesFit
<1>13. MemoryFits'
  <2>1. EntriesFitIn(<<>>, next, errors = 0)
    BY NothingFits DEF EntriesFitIn
  <2> QED  BY <1>1, <1>9, <2>1 DEF MemoryFits
<1>14. WriteFits'
  <2>1. Whole' = Parsed(disk[f])
    <3>1. Done' = <<>>
      BY <1>10 DEF Done
    <3>2. <<>> \o (<<Header>> \o es) = <<Header>> \o es
      BY <1>8, JoinEmpty
    <3> QED  BY <1>7, <1>10, <3>1, <3>2 DEF Whole
  <2> QED  BY <1>1, <1>5, <1>6, <1>8, <1>9, <1>10, <2>1 DEF WriteFits
<1>15. ~Continues' /\ ~Torn'
  BY <1>9 DEF Continues, Torn
<1>16. MirrorFits'
  BY <1>15 DEF MirrorFits
<1>17. LossFits'
  <2>1. acked' \ Held' \subseteq acked \ Held
    BY <1>1, <1>2, <1>3 DEF Held
  <2>2. Types /\ LossFits /\ errors <= errors'
    BY <1>1 DEF IInv, Types
  <2> QED  BY <1>1, <1>11, <1>15, <2>1, <2>2, LossStep
<1> QED  BY <1>11, <1>12, <1>13, <1>14, <1>16, <1>17 DEF IInv

\* An entry that is appended, to the memory and to what is to be written (_appendEntry).
LEMMA AppendKeeps ==
    ASSUME IInv, Idle,
           NEW kind \in {"talk", "setup", "label", "unlabel", "compaction", "summary"},
           NEW parent \in IdsOf(memory.entries) \cup {NoId}, NEW ref \in Ids \cup {NoId},
           AppendEntry(kind, parent, ref)
    PROVE  IInv'
<1> DEFINE x == Line(next, parent, kind, ref)
           es == Append(memory.entries, x)
<1>1. running /\ io = NoWrite /\ io.mode = "none" /\ io.opened = FALSE /\ io.todo = <<>>
  BY DEF Idle, NoWrite
<1>2. /\ next <= MaxId /\ memory' = [memory EXCEPT !.entries = es, !.leaf = next]
      /\ next' = next + 1 /\ disk' = disk /\ running' = running /\ acked' = acked
      /\ crashes' = crashes /\ errors' = errors /\ atRisk' = atRisk
  BY DEF AppendEntry, faults
<1>3. /\ memory.file \in Files /\ disk[memory.file] \in FileType
      /\ FileFits(disk[memory.file], next, errors = 0)
      /\ Parsed(disk[memory.file]) \in Seq(Row)
      /\ memory.entries \in Seq(EntryType)
      /\ next \in Nat /\ errors \in Nat
  BY <1>1, AtHand
<1>4. next \in Ids /\ next # NoId /\ MaxId \in Nat
  BY <1>2, BoundsAssumption DEF IInv, Types, Ids, NoId
<1>5. /\ EntriesFitIn(memory.entries, next, errors = 0)
      /\ Sound(memory.entries) /\ IdsOf(memory.entries) \subseteq 0..(next - 1)
      /\ (errors = 0 => Complete(memory.entries))
  BY DEF IInv, MemoryFits, EntriesFitIn
<1>6. /\ x \in EntryType /\ x.id = next /\ x.parent = parent /\ x.kind = kind /\ parent < next
      /\ x \in Row
  <2>1. IdsOf(memory.entries) \subseteq Ids
    BY <1>3, IdsInIds
  <2>2. x \in EntryType /\ x.id = next /\ x.parent = parent /\ x.kind = kind
    BY <1>4, <2>1 DEF EntryType, Line
  <2>3. parent < next
    BY <1>3, <1>4, <1>5 DEF NoId
  <2> QED  BY <2>2, <2>3 DEF Row
<1> HIDE DEF x
<1>7. /\ es \in Seq(EntryType) /\ es # <<>> /\ Last(es) = x /\ IdsOf(es) = IdsOf(memory.entries) \cup {next}
      /\ Sound(es) /\ (errors = 0 => Complete(es))
  <2>1. es \in Seq(EntryType) /\ es # <<>> /\ Last(es) = x
    BY <1>3, <1>6, AppendAt, AppendFront
  <2>2. IdsOf(es) = IdsOf(memory.entries) \cup {next}
    BY <1>3, <1>6, IdsAppend
  <2>3. Sound(es)
    <3>1. memory.entries \in Seq(Row)
      BY <1>3 DEF Row
    <3>2. \A i \in IdsOf(memory.entries) : i < x.id
      BY <1>3, <1>5, <1>6
    <3>3. x.parent < x.id
      BY <1>6
    <3> QED  BY <1>5, <1>6, <3>1, <3>2, <3>3, SoundAppend
  <2>4. errors = 0 => Complete(es)
    BY <1>3, <1>5, <1>6, CompleteAppend
  <2> QED  BY <2>1, <2>2, <2>3, <2>4
<1> HIDE DEF es
<1>8. memory \in MemoryType
  BY DEF IInv, Types
<1>9. /\ memory' \in MemoryType /\ memory'.entries = es /\ memory'.leaf = next
      /\ memory'.file = memory.file /\ memory'.flushed = memory.flushed
  BY <1>2, <1>4, <1>7, <1>8 DEF MemoryType
<1>10. Persist(es)
  BY <1>9 DEF AppendEntry, es, x
<1>11. /\ io' \in WriteType /\ io'.opened = FALSE /\ io'.mode \in {"none", "append", "create"}
       /\ io'.mode = "none" => io' = io /\ ~memory.flushed
       /\ io'.mode = "append" => io'.todo = <<x>> /\ memory.flushed
       /\ io'.mode = "create" => io'.todo = <<Header>> \o es /\ ~memory.flushed
  <2>1. <<x>> \in Seq(Row) /\ <<Header>> \o es \in Seq(Row)
    BY <1>6, <1>7, HeaderFirst, OneElement
  <2>2. CASE memory.flushed
    <3>1. io' = [mode |-> "append", todo |-> <<x>>, opened |-> FALSE]
      BY <1>7, <1>10, <2>2 DEF Persist, Write
    <3> QED  BY <2>1, <2>2, <3>1 DEF WriteType, Modes
  <2>3. CASE ~memory.flushed /\ HasConversation(es)
    <3>1. io' = [mode |-> "create", todo |-> <<Header>> \o es, opened |-> FALSE]
      BY <1>10, <2>3 DEF Persist, Write
    <3> QED  BY <2>1, <2>3, <3>1 DEF WriteType, Modes
  <2>4. CASE ~memory.flushed /\ ~HasConversation(es)
    <3>1. io' = io
      BY <1>10, <2>4 DEF Persist
    <3> QED  BY <1>1, <2>4, <3>1 DEF IInv, Types
  <2> QED  BY <2>2, <2>3, <2>4
<1>12. Types'
  <2>1. next' \in 1..(MaxId + 1)
    BY <1>2, <1>3, <1>4
  <2>2. acked \subseteq 1..(next - 1)
    BY DEF IInv, Types
  <2>3. 1..(next - 1) \subseteq 1..(next' - 1)
    BY <1>2, <1>3
  <2>4. acked' \subseteq 1..(next' - 1)
    BY <1>2, <2>2, <2>3
  <2> QED  BY <1>2, <1>9, <1>11, <2>1, <2>4 DEF IInv, Types
<1>13. FilesFit'
  <2>1. Types /\ FilesFit /\ next <= next' /\ errors <= errors'
    BY <1>2, <1>3 DEF IInv
  <2> QED  BY <1>2, <1>12, <2>1, FilesStep
<1>14. IdsOf(es) \subseteq 0..(next' - 1)
  BY <1>2, <1>3, <1>5, <1>7
<1>15. MemoryFits'
  <2>1. EntriesFitIn(es, next', errors' = 0)
    BY <1>2, <1>7, <1>14 DEF EntriesFitIn
  <2>2. next \in IdsOf(es)
    BY <1>7
  <2> QED  BY <1>1, <1>2, <1>3, <1>9, <2>1, <2>2 DEF MemoryFits
<1>16. WriteFits'
  <2>1. CASE io'.mode = "none"
    BY <1>1, <1>11, <2>1 DEF WriteFits, Modes
  <2>2. CASE io'.mode = "append"
    <3> DEFINE rows == Parsed(disk[memory.file])
    <3>1. Whole' = Append(rows, x)
      <4>1. Done' = rows
        BY <1>2, <1>9, <2>2 DEF Done
      <4>2. rows \o <<x>> = Append(rows, x)
        BY <1>3, <1>6, AppendJoins
      <4> QED  BY <1>11, <2>2, <4>1, <4>2 DEF Whole
    <3>2. rows \in Seq(Row) /\ Sound(rows) /\ IdsOf(rows) \subseteq 0..(next - 1)
      BY <1>3 DEF FileFits
    <3> HIDE DEF rows
    <3>3. Sound(Append(rows, x))
      <4>1. \A i \in IdsOf(rows) : i < x.id
        BY <1>3, <1>6, <3>2
      <4>2. x.parent < x.id
        BY <1>6
      <4> QED  BY <1>6, <3>2, <4>1, <4>2, SoundAppend
    <3>4. IdsOf(Append(rows, x)) \subseteq 0..(next' - 1)
      <4>1. IdsOf(Append(rows, x)) = IdsOf(rows) \cup {next}
        BY <1>6, <3>2, IdsAppend
      <4> QED  BY <1>2, <1>3, <3>2, <4>1
    <3>5. next \notin acked
      <4>1. acked \subseteq 1..(next - 1)
        BY DEF IInv, Types
      <4> QED  BY <1>3, <4>1
    <3>6. <<x>> # <<>>
      OBVIOUS
    <3>7. Last(memory'.entries) = x /\ memory'.entries # <<>> /\ x.id = next
      BY <1>6, <1>7, <1>9
    <3>8. memory'.flushed /\ io'.todo = <<x>>
      BY <1>9, <1>11, <2>2
    <3>9. Whole' = Append(rows, x) /\ acked' = acked
      BY <1>2, <3>1
    <3> QED  BY <2>2, <3>3, <3>4, <3>5, <3>6, <3>7, <3>8, <3>9 DEF WriteFits
  <2>3. CASE io'.mode = "create"
    <3>1. Whole' = <<Header>> \o es
      <4>1. Done' = <<>>
        BY <1>11, <2>3 DEF Done
      <4>2. <<Header>> \o es \in Seq(Row)
        BY <1>7, HeaderFirst
      <4>3. <<>> \o (<<Header>> \o es) = <<Header>> \o es
        BY <4>2, JoinEmpty
      <4> QED  BY <1>11, <2>3, <4>1, <4>3 DEF Whole
    <3>2. /\ <<Header>> \o es # <<>> /\ Sound(<<Header>> \o es)
          /\ IdsOf(<<Header>> \o es) = IdsOf(es) \cup {NoId}
      BY <1>7, HeaderFirst
    <3>3. IdsOf(<<Header>> \o es) \subseteq 0..(next' - 1)
      BY <1>2, <1>3, <1>14, <3>2 DEF NoId
    <3> QED  BY <1>9, <1>11, <2>3, <3>1, <3>2, <3>3 DEF WriteFits
  <2> QED  BY <1>11, <2>1, <2>2, <2>3
<1>17. /\ Continues' <=> io'.mode = "append"
       /\ Continues' => Continues
  BY <1>1, <1>2, <1>9, <1>11 DEF Continues
<1>18. MirrorFits'
  <2> SUFFICES ASSUME Continues', errors = 0
               PROVE  /\ ~disk[memory.file].open
                      /\ Parsed(disk[memory.file]) \o <<x>> = <<Header>> \o es
    BY <1>2, <1>9, <1>11, <1>17 DEF MirrorFits
  <2>1. /\ ~disk[memory.file].open
        /\ Parsed(disk[memory.file]) \o io.todo = <<Header>> \o memory.entries
    BY <1>17 DEF IInv, MirrorFits
  <2>2. Parsed(disk[memory.file]) = <<Header>> \o memory.entries
    BY <1>1, <1>3, <2>1, JoinEmpty
  <2>3. <<x>> \in Seq(Row) /\ <<Header>> \in Seq(Row) /\ memory.entries \in Seq(Row)
    BY <1>3, <1>6, RowTypes, OneElement DEF Row
  <2>4. memory.entries \o <<x>> = es
    BY <1>3, <1>6, AppendJoins DEF es
  <2>5. <<Header>> \o (memory.entries \o <<x>>) = (<<Header>> \o memory.entries) \o <<x>>
    <3> DEFINE a == <<Header>>
               b == memory.entries
               c == <<x>>
    <3>1. a \in Seq(Row) /\ b \in Seq(Row) /\ c \in Seq(Row)
      BY <2>3
    <3> HIDE DEF a, b, c
    <3>2. a \o (b \o c) = (a \o b) \o c
      BY <3>1, JoinAssociative
    <3> QED  BY <3>2 DEF a, b, c
  <2> QED  BY <2>1, <2>2, <2>4, <2>5
<1>19. LossFits'
  <2>1. acked' \ Held' \subseteq acked \ Held
    BY <1>1, <1>2, <1>11 DEF Held, OnDisk
  <2>2. Types /\ LossFits /\ errors <= errors'
    BY <1>2 DEF IInv, Types
  <2>3. Torn' => Torn
    BY <1>2, <1>9, <1>17 DEF Torn
  <2>4. ~atRisk' =>
          /\ Continues' => Readable(disk[memory.file])'
          /\ Torn' => /\ Last(disk[memory.file].lines)'.id \notin acked'
                      /\ Readable(Cut(disk[memory.file]))'
    BY <1>2, <1>9, <1>17, <2>2, <2>3 DEF LossFits
  <2> QED  BY <1>2, <1>12, <2>1, <2>2, <2>3, <2>4, LossStep
<1> QED  BY <1>12, <1>13, <1>15, <1>16, <1>18, <1>19 DEF IInv

-------------------------------------------------------------------------------
(* Writing. *)

\* The rows that have been written when the next line is.
Then == Append(Done, Head(io.todo))

\* A write that is under way: what it has written, and what it has when the next line
\* is written too, is sound, complete while no write has failed, and part of the whole.
LEMMA AtWork ==
    ASSUME IInv, io # NoWrite
    PROVE  /\ running /\ io.mode \in Modes
           /\ io.todo # <<>> /\ Head(io.todo) \in Row /\ Tail(io.todo) \in Seq(Row)
           /\ Done \in Seq(Row) /\ Then \in Seq(Row) /\ Then \o Tail(io.todo) = Whole
           /\ Sound(Then) /\ IdsOf(Then) \subseteq 0..(next - 1)
           /\ errors = 0 => Complete(EntriesOf(Then))
           /\ IdsOf(EntriesOf(Done)) \subseteq IdsOf(EntriesOf(Then))
           /\ Headed(Done) => Headed(Then)
<1>1. running
  BY DEF IInv, MemoryFits
<1>2. io.mode \in Modes /\ io.todo # <<>> /\ Sound(Whole) /\ IdsOf(Whole) \subseteq 0..(next - 1)
  <2>1. io.mode # "none"
    BY DEF IInv, WriteFits
  <2> QED  BY <2>1 DEF IInv, WriteFits, Types, WriteType
<1>3. /\ memory.file \in Files /\ Parsed(disk[memory.file]) \in Seq(Row)
      /\ memory.entries \in Seq(EntryType) /\ io.todo \in Seq(Row)
  BY <1>1, AtHand
<1>4. Done \in Seq(Row)
  <2>1. <<>> \in Seq(Row)
    OBVIOUS
  <2> QED  BY <1>3, <2>1 DEF Done
<1>5. Head(io.todo) \in Row /\ Tail(io.todo) \in Seq(Row)
  BY <1>2, <1>3, HeadOf
<1>6. Then \in Seq(Row)
  BY <1>4, <1>5, AppendAt DEF Then
<1>7. Then \o Tail(io.todo) = Whole
  BY <1>2, <1>3, <1>4, HeadMoves DEF Then, Whole
<1>8. Sound(Then)
  BY <1>2, <1>5, <1>6, <1>7, SoundPart
<1>9. IdsOf(Then) \subseteq 0..(next - 1)
  <2>1. IdsOf(Then \o Tail(io.todo)) = IdsOf(Then) \cup IdsOf(Tail(io.todo))
    BY <1>5, <1>6, IdsJoin
  <2> QED  BY <1>2, <1>7, <2>1
<1>10. ASSUME errors = 0
       PROVE  Complete(EntriesOf(Then))
  <2>1. Complete(EntriesOf(Whole))
    <3>1. CASE io.mode = "copy"
      BY <1>10, <3>1 DEF IInv, WriteFits
    <3>2. CASE io.mode # "copy"
      <4>1. Whole = <<Header>> \o memory.entries
        <5>1. CASE io.mode = "append"
          BY <1>1, <1>10, <5>1 DEF IInv, MirrorFits, WriteFits, Continues, Whole, Done
        <5>2. CASE io.mode # "append"
          BY <1>2, <3>2, <5>2 DEF IInv, WriteFits
        <5> QED  BY <5>1, <5>2
      <4>2. EntriesOf(Whole) = memory.entries
        BY <1>3, <4>1, HeaderFirst
      <4> QED  BY <1>10, <4>2 DEF IInv, MemoryFits, EntriesFitIn
    <3> QED  BY <3>1, <3>2
  <2>2. CASE ~Headed(Then)
    BY <1>8, <2>2, EntriesFit, NothingFits
  <2>3. CASE Headed(Then)
    <3>1. Tail(io.todo) \in Seq(EntryType) /\ EntriesOf(Whole) = EntriesOf(Then) \o Tail(io.todo)
      BY <1>2, <1>5, <1>6, <1>7, <2>3, EntriesJoin
    <3>2. EntriesOf(Then) \in Seq(EntryType) /\ Sound(EntriesOf(Whole))
      BY <1>2, <1>8, EntriesFit
    <3> QED  BY <2>1, <3>1, <3>2, CompletePart
  <2> QED  BY <2>2, <2>3
<1>11. Then = Done \o <<Head(io.todo)>> /\ <<Head(io.todo)>> \in Seq(Row)
  BY <1>4, <1>5, AppendJoins, OneElement DEF Then
<1>12. Sound(Done)
  BY <1>4, <1>8, <1>11, SoundPart
<1>13. ASSUME Headed(Done)
       PROVE  Headed(Then) /\ IdsOf(EntriesOf(Done)) \subseteq IdsOf(EntriesOf(Then))
  <2> DEFINE last == <<Head(io.todo)>>
  <2>1. Then = Done \o last /\ last \in Seq(Row)
    BY <1>11
  <2> HIDE DEF last
  <2>2. Headed(Then) /\ last \in Seq(EntryType) /\ EntriesOf(Then) = EntriesOf(Done) \o last
    BY <1>4, <1>8, <1>13, <2>1, EntriesJoin
  <2>3. EntriesOf(Done) \in Seq(EntryType)
    BY <1>12, EntriesFit
  <2> QED  BY <2>2, <2>3, IdsJoin
<1>14. ~Headed(Done) => IdsOf(EntriesOf(Done)) \subseteq IdsOf(EntriesOf(Then))
  BY <1>12, EntriesFit, NothingFits
<1> QED  BY <1>1, <1>2, <1>4, <1>5, <1>6, <1>7, <1>8, <1>9, <1>10, <1>13, <1>14

\* What is left of a file without its last line.
LEMMA CutFits ==
    ASSUME NEW file \in FileType, file.lines # <<>>, NEW n, NEW whole, FileFits(file, n, whole)
    PROVE  /\ Sound(Parsed(Cut(file))) /\ IdsOf(Parsed(Cut(file))) \subseteq 0..(n - 1)
           /\ Readable(Cut(file)) =>
                IdsOf(EntriesIn(file)) \subseteq IdsOf(EntriesIn(Cut(file))) \cup {Last(file.lines).id}
<1> DEFINE cut == Parsed(Cut(file))
           rows == Parsed(file)
           line == Last(file.lines)
<1>1. /\ Cut(file) \in FileType /\ line \in LineType
      /\ rows = IF line = Malformed THEN cut ELSE Append(cut, line)
  BY ParsedCut
<1>2. cut \in Seq(Row) /\ rows \in Seq(Row)
  <2>1. Cut(file).lines \in Seq(LineType) /\ file.lines \in Seq(LineType)
    BY <1>1 DEF FileType
  <2> QED  BY <2>1, ParsedType
<1>3. Sound(rows) /\ IdsOf(rows) \subseteq 0..(n - 1)
  BY DEF FileFits
<1> HIDE DEF cut, rows, line
<1>4. CASE line = Malformed
  <2>1. Parsed(Cut(file)) = Parsed(file) /\ EntriesIn(Cut(file)) = EntriesIn(file)
    BY <1>1, <1>4 DEF cut, rows, EntriesIn
  <2> QED  BY <1>3, <2>1 DEF rows
<1>5. CASE line # Malformed
  <2>1. line \in Row
    BY <1>1, <1>5, RowTypes
  <2>2. rows = cut \o <<line>> /\ <<line>> \in Seq(Row)
    BY <1>1, <1>2, <1>5, <2>1, AppendJoins, OneElement
  <2>3. Sound(cut)
    BY <1>2, <1>3, <2>2, SoundPart
  <2>4. IdsOf(cut) \subseteq 0..(n - 1)
    <3>1. IdsOf(cut \o <<line>>) = IdsOf(cut) \cup IdsOf(<<line>>)
      BY <1>2, <2>2, IdsJoin
    <3> QED  BY <1>3, <2>2, <3>1
  <2>5. ASSUME Headed(cut)
        PROVE  IdsOf(EntriesOf(rows)) \subseteq IdsOf(EntriesOf(cut)) \cup {line.id}
    <3> DEFINE last == <<line>>
    <3>1. rows = cut \o last /\ last \in Seq(Row) /\ IdsOf(last) = {line.id}
      BY <2>1, <2>2, IdsOne
    <3> HIDE DEF last
    <3>2. last \in Seq(EntryType) /\ EntriesOf(rows) = EntriesOf(cut) \o last
      BY <1>2, <1>3, <2>5, <3>1, EntriesJoin
    <3>3. EntriesOf(cut) \in Seq(EntryType)
      BY <2>3, EntriesFit
    <3>4. IdsOf(EntriesOf(rows)) = IdsOf(EntriesOf(cut)) \cup IdsOf(last)
      BY <3>2, <3>3, IdsJoin
    <3> QED  BY <3>1, <3>4
  <2> QED  BY <2>3, <2>4, <2>5 DEF cut, rows, line, Readable, EntriesIn
<1> QED  BY <1>4, <1>5

\* A file that has no lines has no entries.
LEMMA EmptyFile ==
    ASSUME NEW file, file.lines = <<>>
    PROVE  Parsed(file) = <<>> /\ EntriesIn(file) = <<>> /\ IdsOf(EntriesIn(file)) = {}
<1>1. <<>> \in Seq(LineType)
  OBVIOUS
<1>2. Parsed(file) = <<>>
  BY <1>1, ParsedType
<1> QED  BY <1>2, NothingFits DEF EntriesIn

\* A file that changes, the others staying as they are.
LEMMA FileStep ==
    ASSUME IInv, NEW f \in Files, NEW g \in FileType, disk' = [disk EXCEPT ![f] = g]
    PROVE  /\ disk' \in [Files -> FileType] /\ disk'[f] = g
           /\ \A h \in Files : h # f => disk'[h] = disk[h]
           /\ FileFits(g, next, errors = 0) =>
                \A h \in Files : FileFits(disk'[h], next, errors = 0)
           /\ OnDisk \ OnDisk' \subseteq IdsOf(EntriesIn(disk[f])) \ IdsOf(EntriesIn(g))
           /\ IdsOf(EntriesIn(g)) \subseteq OnDisk'
<1>1. disk \in [Files -> FileType] /\ \A h \in Files : FileFits(disk[h], next, errors = 0)
  BY DEF IInv, Types, FilesFit
<1>2. /\ disk' \in [Files -> FileType] /\ disk'[f] = g
      /\ \A h \in Files : h # f => disk'[h] = disk[h]
  BY <1>1
<1>3. FileFits(g, next, errors = 0) => \A h \in Files : FileFits(disk'[h], next, errors = 0)
  BY <1>1, <1>2
<1>4. \A h \in Files : IdsOf(EntriesIn(disk'[h])) \subseteq OnDisk'
  BY DEF OnDisk
<1>5. IdsOf(EntriesIn(g)) \subseteq OnDisk'
  BY <1>2, <1>4
<1>6. ASSUME NEW i \in OnDisk, i \notin OnDisk'
      PROVE  i \in IdsOf(EntriesIn(disk[f])) \ IdsOf(EntriesIn(g))
  <2>1. PICK h \in Files : i \in IdsOf(EntriesIn(disk[h]))
    BY <1>6, OnDiskAt
  <2>2. h = f
    BY <1>2, <1>4, <1>6, <2>1
  <2> QED  BY <1>5, <1>6, <2>1, <2>2
<1> QED  BY <1>2, <1>3, <1>5, <1>6

\* Opening the file for a write (openSync): a rewrite empties it.
LEMMA OpenKeeps ==
    ASSUME IInv, OpenFile
    PROVE  IInv'
<1> DEFINE file == disk[memory.file]
           g == Opened(file)
<1>1. /\ io # NoWrite /\ io.opened = FALSE
      /\ (io.mode \in {"create", "copy"} => ~file.made)
      /\ disk' = [disk EXCEPT ![memory.file] = g] /\ io' = [io EXCEPT !.opened = TRUE]
      /\ running' = running /\ memory' = memory /\ acked' = acked /\ next' = next
      /\ crashes' = crashes /\ errors' = errors /\ atRisk' = atRisk
  <2>1. io.opened \in BOOLEAN
    BY DEF IInv, Types, WriteType
  <2> QED  BY <2>1 DEF OpenFile, faults
<1>2. /\ running /\ io.mode \in Modes /\ io.todo # <<>>
  BY <1>1, AtWork
<1>3. /\ memory.file \in Files /\ file \in FileType /\ FileFits(file, next, errors = 0)
      /\ next \in Nat /\ errors \in Nat
  BY <1>2, AtHand
<1>4. IF io.mode = "append"
      THEN g \in FileType /\ g.lines = file.lines /\ g.open = file.open /\ g.made
      ELSE g \in FileType /\ g.lines = <<>> /\ g.open = FALSE /\ g.made
  <2>1. NoFile \in FileType
    <3>1. <<>> \in Seq(LineType)
      OBVIOUS
    <3> QED  BY <3>1 DEF NoFile, FileType
  <2> QED  BY <1>3, <2>1 DEF Opened, NoFile, FileType
<1>5. IF io.mode = "append" THEN Parsed(g) = Parsed(file) ELSE Parsed(g) = <<>>
  BY <1>4, SameParsed, EmptyFile
<1>6. FileFits(g, next, errors = 0)
  <2>1. CASE io.mode = "append"
    <3>1. EntriesIn(g) = EntriesIn(file)
      BY <1>5, <2>1 DEF EntriesIn
    <3> QED  BY <1>3, <1>4, <1>5, <2>1, <3>1 DEF FileFits
  <2>2. CASE io.mode # "append"
    <3>1. EntriesIn(g) = <<>>
      BY <1>4, <2>2, EmptyFile
    <3> QED  BY <1>4, <1>5, <2>2, <3>1, NothingFits DEF FileFits
  <2> QED  BY <2>1, <2>2
<1> HIDE DEF g
<1>7. /\ disk' \in [Files -> FileType] /\ disk'[memory.file] = g
      /\ \A h \in Files : FileFits(disk'[h], next, errors = 0)
      /\ OnDisk \ OnDisk' \subseteq IdsOf(EntriesIn(file)) \ IdsOf(EntriesIn(g))
  <2>1. g \in FileType
    BY <1>4
  <2> HIDE DEF file
  <2>2. /\ disk' \in [Files -> FileType] /\ disk'[memory.file] = g
        /\ FileFits(g, next, errors = 0) =>
             \A h \in Files : FileFits(disk'[h], next, errors = 0)
        /\ OnDisk \ OnDisk' \subseteq IdsOf(EntriesIn(disk[memory.file])) \ IdsOf(EntriesIn(g))
    BY <1>1, <1>3, <2>1, FileStep
  <2> QED  BY <1>6, <2>2 DEF file
<1>8. io \in WriteType
  BY DEF IInv, Types
<1>9. io' \in WriteType /\ io'.mode = io.mode /\ io'.todo = io.todo /\ io'.opened = TRUE
  BY <1>1, <1>8 DEF WriteType
<1>10. Types'
  BY <1>1, <1>7, <1>9 DEF IInv, Types
<1>11. FilesFit'
  BY <1>1, <1>7 DEF FilesFit
<1>12. MemoryFits'
  BY <1>1, <1>2 DEF IInv, MemoryFits
<1>13. Done' = Done /\ Whole' = Whole
  <2>1. Done' = Parsed(g)
    BY <1>1, <1>7, <1>9 DEF Done
  <2>2. Done = IF io.mode = "append" THEN Parsed(file) ELSE <<>>
    BY <1>1 DEF Done
  <2> QED  BY <1>5, <1>9, <2>1, <2>2 DEF Whole
<1>14. WriteFits'
  <2>1. WriteFits
    BY DEF IInv
  <2>2. io.mode # "append" => ~disk'[memory.file].open
    BY <1>4, <1>7
  <2>3. io'.mode # "none"
    BY <1>2, <1>9 DEF Modes
  <2>4. io'.todo # <<>> /\ Sound(Whole') /\ IdsOf(Whole') \subseteq 0..(next' - 1)
    BY <1>1, <1>9, <1>13, <2>1, <2>3 DEF WriteFits
  <2>5. io'.mode = "append" =>
          /\ memory'.flushed /\ memory'.entries # <<>> /\ io'.todo = <<Last(memory'.entries)>>
          /\ Last(memory'.entries).id \notin acked'
    BY <1>1, <1>9, <2>1 DEF WriteFits
  <2>6. io'.mode \in Modes \ {"append"} =>
          /\ io'.mode # "copy" => Whole' = <<Header>> \o memory'.entries
          /\ io'.opened => ~disk'[memory'.file].open
          /\ io'.mode \notin {"fork", "migrate"} => ~memory'.flushed
    BY <1>1, <1>9, <1>13, <2>1, <2>2 DEF WriteFits
  <2>7. io'.mode = "copy" => Headed(Whole') /\ (errors' = 0 => Complete(EntriesOf(Whole')))
    BY <1>1, <1>9, <1>13, <2>1 DEF WriteFits
  <2>8. io'.mode = "migrate" => memory'.flushed
    BY <1>1, <1>9, <2>1 DEF WriteFits
  <2> QED  BY <1>9, <2>3, <2>4, <2>5, <2>6, <2>7, <2>8 DEF WriteFits
<1>15. /\ Continues' <=> Continues
       /\ Continues => io.mode = "append"
  BY <1>1, <1>2, <1>9 DEF Continues, Modes
<1>16. MirrorFits'
  <2>1. MirrorFits
    BY DEF IInv
  <2> QED  BY <1>1, <1>4, <1>5, <1>7, <1>9, <1>15, <2>1 DEF MirrorFits
<1>17. LossFits'
  <2>1. Held \subseteq Held'
    <3>1. CASE io.mode = "append"
      <4>1. EntriesIn(g) = EntriesIn(file)
        BY <1>5, <3>1 DEF EntriesIn
      <4> QED  BY <1>7, <1>9, <3>1, <4>1 DEF Held
    <3>2. CASE io.mode = "migrate"
      <4>1. EntriesIn(file) = memory.entries
        BY <1>1, <3>2 DEF IInv, WriteFits
      <4> QED  BY <1>1, <1>7, <1>9, <3>2, <4>1 DEF Held
    <3>3. CASE io.mode \notin {"append", "migrate"}
      <4>1. file.lines = <<>>
        <5>1. CASE io.mode = "adopt"
          BY <1>1, <5>1 DEF IInv, WriteFits
        <5>2. CASE io.mode # "adopt"
          <6>1. ~file.made
            <7>1. CASE io.mode = "fork"
              BY <1>1, <7>1 DEF IInv, WriteFits
            <7>2. CASE io.mode # "fork"
              BY <1>1, <1>2, <3>3, <5>2, <7>2 DEF Modes
            <7> QED  BY <7>1, <7>2
          <6> QED  BY <1>3, <6>1 DEF FileFits
        <5> QED  BY <5>1, <5>2
      <4>2. IdsOf(EntriesIn(file)) = {}
        BY <4>1, EmptyFile
      <4> QED  BY <1>7, <1>9, <3>3, <4>2 DEF Held
    <3> QED  BY <3>1, <3>2, <3>3
  <2>2. Types /\ LossFits /\ errors <= errors' /\ acked' \ Held' \subseteq acked \ Held
    BY <1>1, <1>3, <2>1 DEF IInv
  <2>3. Torn' => Torn
    BY <1>1, <1>4, <1>7, <1>15 DEF Torn
  <2>4. ~atRisk' /\ Continues' => Readable(disk[memory.file])'
    <3>1. ~atRisk /\ Continues => Headed(Parsed(file))
      BY <2>2 DEF LossFits, Readable
    <3>2. Continues => Parsed(disk'[memory.file]) = Parsed(file)
      BY <1>5, <1>7, <1>15
    <3> QED  BY <1>1, <1>15, <3>1, <3>2 DEF Readable
  <2>5. ~atRisk' /\ Torn' => /\ Last(disk[memory.file].lines)'.id \notin acked'
                             /\ Readable(Cut(disk[memory.file]))'
    <3> SUFFICES ASSUME ~atRisk', Torn'
                 PROVE  /\ Last(disk'[memory'.file].lines).id \notin acked'
                        /\ Readable(Cut(disk'[memory'.file]))
      OBVIOUS
    <3>1. io.mode = "append" /\ Torn
      BY <1>15, <2>3 DEF Torn
    <3>2. Last(file.lines).id \notin acked /\ Readable(Cut(file))
      BY <1>1, <2>2, <3>1 DEF LossFits
    <3>3. g.lines = file.lines /\ g \in FileType
      BY <1>4, <3>1
    <3>4. Cut(g).lines = Cut(file).lines
      BY <1>3, <3>3 DEF Cut, FileType
    <3>5. Parsed(Cut(g)) = Parsed(Cut(file))
      BY <3>4, SameParsed
    <3> QED  BY <1>1, <1>7, <3>2, <3>3, <3>5 DEF Readable
  <2> QED  BY <1>1, <1>10, <2>2, <2>3, <2>4, <2>5, LossStep
<1> QED  BY <1>10, <1>11, <1>12, <1>14, <1>16, <1>17 DEF IInv

\* The file of an appending session, as long as nothing is at risk, is read with what is
\* appended to it, and what a torn line spoils has not been acknowledged.
LEMMA AppendAtRisk ==
    ASSUME IInv, io.mode = "append", ~atRisk
    PROVE  /\ Continues /\ Readable(disk[memory.file])
           /\ disk[memory.file].open => /\ Last(disk[memory.file].lines).id \notin acked
                                        /\ Readable(Cut(disk[memory.file]))
           /\ Head(io.todo).id \notin acked
<1>1. io # NoWrite
  BY DEF NoWrite
<1>2. running
  BY <1>1, AtWork
<1>3. memory.flushed /\ io.todo = <<Last(memory.entries)>> /\ Last(memory.entries).id \notin acked
  BY DEF IInv, WriteFits
<1>4. Continues
  BY <1>2, <1>3 DEF Continues
<1>5. Head(io.todo) = Last(memory.entries)
  BY <1>3
<1> QED  BY <1>3, <1>4, <1>5 DEF IInv, LossFits, Torn

\* A write that stops, by a failure or with its process: the files still fit, and nothing
\* that was acknowledged is lost but what a migration had not yet written again.
LEMMA StopFits ==
    ASSUME IInv, io # NoWrite, Stops
    PROVE  /\ disk' \in [Files -> FileType]
           /\ \A h \in Files : FileFits(disk'[h], next, errors = 0)
           /\ ~atRisk /\ io.mode # "migrate" => acked \ OnDisk' \subseteq acked \ OnDisk
           /\ ~atRisk /\ io.mode = "append" =>
                /\ Readable(disk'[memory.file])
                /\ disk'[memory.file].open => /\ Last(disk'[memory.file].lines).id \notin acked
                                              /\ Readable(Cut(disk'[memory.file]))
<1> DEFINE file == disk[memory.file]
           row == Head(io.todo)
<1>1. /\ running /\ io.mode \in Modes /\ row \in Row /\ Then \in Seq(Row)
      /\ Sound(Then) /\ IdsOf(Then) \subseteq 0..(next - 1)
      /\ (errors = 0 => Complete(EntriesOf(Then)))
      /\ IdsOf(EntriesOf(Done)) \subseteq IdsOf(EntriesOf(Then))
      /\ (Headed(Done) => Headed(Then))
  BY AtWork
<1>2. memory.file \in Files /\ file \in FileType /\ FileFits(file, next, errors = 0)
  BY <1>1, AtHand
<1>3. CASE disk' = disk
  <2>1. OnDisk' = OnDisk
    BY <1>3 DEF OnDisk
  <2> QED  BY <1>3, <2>1, AppendAtRisk DEF IInv, Types, FilesFit
<1>4. CASE disk' # disk
  <2>1. io.opened /\ disk' \in {[disk EXCEPT ![memory.file] = g] : g \in Interrupted(file, row)}
    BY <1>4 DEF Stops
  <2>2. PICK g \in Interrupted(file, row) : disk' = [disk EXCEPT ![memory.file] = g]
    BY <2>1
  <2>3. g # file
    BY <1>2, <1>4, <2>2 DEF IInv, Types
  <2>4. Done = Parsed(file) /\ Then = Append(Parsed(file), row)
    BY <2>1 DEF Done, Then
  <2>5. file.open => file.lines # <<>>
    BY <1>2 DEF FileFits
  <2> HIDE DEF file, row
  <2>6. /\ g \in FileType /\ g.made /\ g.open /\ g.lines # <<>>
        /\ Last(g.lines) \in {Malformed, row}
        /\ Parsed(Cut(g)) = Parsed(IF file.open THEN Cut(file) ELSE file)
        /\ Parsed(g) \in IF file.open THEN {Parsed(Cut(file))}
                         ELSE {Parsed(file), Append(Parsed(file), row)}
    BY <1>1, <1>2, <2>2, <2>3, <2>5, InterruptedFits
  <2>7. file.open => io.mode = "append" /\ Continues /\ errors # 0
    <3>1. file.open => io.mode = "append"
      BY <1>1, <2>1 DEF IInv, WriteFits, file
    <3>2. io.mode = "append" => Continues
      BY <1>1 DEF IInv, WriteFits, Continues
    <3> QED  BY <3>1, <3>2 DEF IInv, MirrorFits, file
  <2>8. FileFits(g, next, errors = 0)
    <3>1. CASE file.open
      <4>1. Parsed(g) = Parsed(Cut(file))
        BY <2>6, <3>1
      <4>2. Sound(Parsed(Cut(file))) /\ IdsOf(Parsed(Cut(file))) \subseteq 0..(next - 1)
        BY <1>2, <2>5, <3>1, CutFits
      <4> QED  BY <2>6, <2>7, <3>1, <4>1, <4>2 DEF FileFits
    <3>2. CASE ~file.open /\ Parsed(g) = Parsed(file)
      <4>1. EntriesIn(g) = EntriesIn(file)
        BY <3>2 DEF EntriesIn
      <4> QED  BY <1>2, <2>6, <3>2, <4>1 DEF FileFits
    <3>3. CASE ~file.open /\ Parsed(g) = Then
      <4>1. EntriesIn(g) = EntriesOf(Then)
        BY <3>3 DEF EntriesIn
      <4> QED  BY <1>1, <2>6, <3>3, <4>1 DEF FileFits
    <3> QED  BY <2>4, <2>6, <3>1, <3>2, <3>3
  <2>9. /\ disk' \in [Files -> FileType] /\ disk'[memory.file] = g
        /\ \A h \in Files : FileFits(disk'[h], next, errors = 0)
        /\ OnDisk \ OnDisk' \subseteq IdsOf(EntriesIn(file)) \ IdsOf(EntriesIn(g))
    BY <1>2, <2>2, <2>6, <2>8, FileStep DEF file
  <2>10. ASSUME ~file.open
         PROVE  /\ IdsOf(EntriesIn(file)) \subseteq IdsOf(EntriesIn(g))
                /\ Readable(file) => Readable(g)
    <3>1. Parsed(g) = Done \/ Parsed(g) = Then
      BY <2>4, <2>6, <2>10
    <3> QED  BY <1>1, <2>4, <3>1 DEF EntriesIn, Readable
  <2>11. ASSUME file.open, ~atRisk
         PROVE  /\ \A i \in IdsOf(EntriesIn(file)) \ IdsOf(EntriesIn(g)) : i \notin acked
                /\ Readable(g)
    <3>1. Readable(Cut(file)) /\ Last(file.lines).id \notin acked
      BY <2>7, <2>11, AppendAtRisk DEF file
    <3>2. IdsOf(EntriesIn(file)) \subseteq IdsOf(EntriesIn(Cut(file))) \cup {Last(file.lines).id}
      BY <1>2, <2>5, <2>11, <3>1, CutFits
    <3>3. Parsed(g) = Parsed(Cut(file))
      BY <2>6, <2>11
    <3>4. EntriesIn(g) = EntriesIn(Cut(file)) /\ Readable(g)
      BY <3>1, <3>3 DEF EntriesIn, Readable
    <3> QED  BY <3>1, <3>2, <3>4
  <2>12. ~atRisk => acked \ OnDisk' \subseteq acked \ OnDisk
    BY <2>9, <2>10, <2>11
  <2>13. ASSUME ~atRisk, io.mode = "append"
         PROVE  Readable(g) /\ Last(g.lines).id \notin acked /\ Readable(Cut(g))
    <3>1. /\ Readable(file) /\ row.id \notin acked
          /\ (file.open => Readable(Cut(file)))
      BY <2>13, AppendAtRisk DEF file, row
    <3>2. Readable(g)
      BY <2>10, <2>11, <2>13, <3>1
    <3>3. Readable(Cut(g))
      BY <2>6, <3>1 DEF Readable
    <3>4. NoId \notin acked
      <4>1. acked \subseteq 1..(next - 1)
        BY DEF IInv, Types
      <4> QED  BY <4>1 DEF NoId
    <3> QED  BY <2>6, <3>1, <3>2, <3>3, <3>4, RowTypes
  <2> QED  BY <2>9, <2>12, <2>13
<1> QED  BY <1>3, <1>4

\* No session, and nothing that is being written.
LEMMA NoSessionFits ==
    /\ NoSession \in MemoryType /\ NoSession.entries = <<>> /\ NoSession.leaf = NoId
    /\ NoWrite \in WriteType /\ NoWrite.mode = "none" /\ NoWrite.opened = FALSE /\ NoWrite.todo = <<>>
    /\ \A n, whole : EntriesFitIn(<<>>, n, whole)
<1>1. <<>> \in Seq(EntryType) /\ <<>> \in Seq(Row)
  OBVIOUS
<1>2. NoSession \in MemoryType /\ NoSession.entries = <<>> /\ NoSession.leaf = NoId
  BY <1>1 DEF NoSession, EmptySession, MemoryType
<1>3. NoWrite \in WriteType /\ NoWrite.mode = "none" /\ NoWrite.opened = FALSE /\ NoWrite.todo = <<>>
  BY <1>1 DEF NoWrite, WriteType
<1>4. \A n, whole : EntriesFitIn(<<>>, n, whole)
  BY NothingFits DEF EntriesFitIn
<1> QED  BY <1>2, <1>3, <1>4

\* A write that fails.
LEMMA FailKeeps ==
    ASSUME IInv, WriteFails
    PROVE  IInv'
<1>1. /\ io # NoWrite /\ Stops /\ io' = NoWrite
      /\ acked' = acked /\ next' = next /\ crashes' = crashes
  BY DEF WriteFails
<1>2. \/ /\ ~io.opened /\ io.mode \in {"create", "copy"}
         /\ errors' = errors /\ atRisk' = atRisk
      \/ errors' = errors + 1 /\ atRisk' = (atRisk \/ io.mode \in {"migrate", "fork"})
  BY DEF WriteFails
<1>3. IF io.mode \in {"append", "create", "fork"} THEN running' = running /\ memory' = memory
      ELSE running' = FALSE /\ memory' = NoSession
  BY DEF WriteFails
<1>4. running /\ io.mode \in Modes
  BY <1>1, AtWork
<1>5. /\ disk' \in [Files -> FileType]
      /\ \A h \in Files : FileFits(disk'[h], next, errors = 0)
      /\ ~atRisk /\ io.mode # "migrate" => acked \ OnDisk' \subseteq acked \ OnDisk
      /\ ~atRisk /\ io.mode = "append" =>
           /\ Readable(disk'[memory.file])
           /\ disk'[memory.file].open => /\ Last(disk'[memory.file].lines).id \notin acked
                                         /\ Readable(Cut(disk'[memory.file]))
  BY <1>1, StopFits
<1>6. next \in Nat /\ errors \in Nat /\ errors' \in Nat /\ errors <= errors' /\ atRisk' \in BOOLEAN
  <2>1. next \in Nat
    BY <1>4, AtHand
  <2>2. errors \in Nat /\ atRisk \in BOOLEAN
    BY DEF IInv, Types
  <2>3. errors' = errors \/ errors' = errors + 1
    BY <1>2
  <2>4. errors' \in Nat /\ errors <= errors'
    BY <2>2, <2>3
  <2>5. atRisk' \in BOOLEAN
    BY <1>2, <2>2
  <2> QED  BY <2>1, <2>2, <2>4, <2>5
<1>7. Types'
  BY <1>1, <1>3, <1>5, <1>6, NoSessionFits DEF IInv, Types
<1>8. /\ \A file : FileFits(file, next, errors = 0) => FileFits(file, next, errors' = 0)
      /\ \A es : EntriesFitIn(es, next, errors = 0) => EntriesFitIn(es, next, errors' = 0)
  <2>1. next <= next
    BY <1>6
  <2>2. \A file : FileFits(file, next, errors = 0) => FileFits(file, next, errors' = 0)
    BY <1>6, <2>1, FitsLater
  <2>3. \A es : EntriesFitIn(es, next, errors = 0) => EntriesFitIn(es, next, errors' = 0)
    BY <1>6, <2>1, FitsLater
  <2> QED  BY <2>2, <2>3
<1>9. FilesFit'
  BY <1>1, <1>5, <1>8 DEF FilesFit
<1>10. MemoryFits'
  <2>1. CASE memory' = memory /\ running' = running
    BY <1>1, <1>4, <1>8, <2>1 DEF IInv, MemoryFits
  <2>2. CASE memory' = NoSession /\ running' = FALSE
    BY <1>1, <2>2, NoSessionFits DEF MemoryFits
  <2> QED  BY <1>3, <2>1, <2>2
<1>11. io'.mode = "none"
  BY <1>1, NoSessionFits
<1>12. WriteFits'
  BY <1>1, <1>11 DEF WriteFits, Modes
<1>13. ASSUME Continues'
       PROVE  memory' = memory /\ io.mode \in {"append", "fork"} /\ errors' = errors + 1
  <2>1. memory' = memory /\ io.mode \in {"append", "create", "fork"} /\ memory.flushed
    BY <1>3, <1>13 DEF Continues
  <2>2. io.mode # "create"
    BY <2>1 DEF IInv, WriteFits, Modes
  <2> QED  BY <1>2, <2>1, <2>2
<1>14. MirrorFits'
  <2>1. errors + 1 # 0
    BY <1>6
  <2> QED  BY <1>13, <2>1 DEF MirrorFits
<1>15. LossFits'
  <2>1. Types /\ LossFits
    BY DEF IInv
  <2>2. ASSUME ~atRisk'
        PROVE  /\ ~atRisk /\ io.mode # "migrate"
               /\ Continues' => io.mode = "append"
    <3>1. Continues' => io.mode \in {"append", "fork"}
      BY <1>13
    <3>2. CASE io.mode \in {"create", "copy"} /\ atRisk' = atRisk
      BY <2>2, <3>1, <3>2
    <3>3. CASE atRisk' = (atRisk \/ io.mode \in {"migrate", "fork"})
      BY <2>2, <3>1, <3>3
    <3> QED  BY <1>2, <3>2, <3>3
  <2>3. ~atRisk' => acked' \ Held' \subseteq acked \ Held
    BY <1>1, <1>5, <1>11, <2>2 DEF Held
  <2>4. Torn' => errors + 1 <= errors'
    BY <1>6, <1>13 DEF Torn
  <2>5. ~atRisk' =>
          /\ Continues' => Readable(disk[memory.file])'
          /\ Torn' => /\ Last(disk[memory.file].lines)'.id \notin acked'
                      /\ Readable(Cut(disk[memory.file]))'
    BY <1>1, <1>5, <1>13, <2>2 DEF Torn
  <2> QED  BY <1>6, <1>7, <2>1, <2>2, <2>3, <2>4, <2>5, LossStep
<1> QED  BY <1>7, <1>9, <1>10, <1>12, <1>14, <1>15 DEF IInv

\* The process dies.
LEMMA CrashKeeps ==
    ASSUME IInv, Crash
    PROVE  IInv'
<1>1. /\ running /\ Stops /\ io' = NoWrite /\ running' = FALSE /\ memory' = NoSession
      /\ acked' = acked /\ next' = next /\ errors' = errors
      /\ crashes' = crashes + 1 /\ atRisk' = (atRisk \/ io.mode = "migrate")
  BY DEF Crash
<1>2. /\ disk' \in [Files -> FileType]
      /\ \A h \in Files : FileFits(disk'[h], next, errors = 0)
      /\ ~atRisk /\ io.mode # "migrate" => acked \ OnDisk' \subseteq acked \ OnDisk
  <2>1. CASE io = NoWrite
    <3>1. disk' = disk
      BY <1>1, <2>1, NoSessionFits DEF Stops
    <3>2. OnDisk' = OnDisk
      BY <3>1 DEF OnDisk
    <3> QED  BY <3>1, <3>2 DEF IInv, Types, FilesFit
  <2>2. CASE io # NoWrite
    BY <1>1, <2>2, StopFits
  <2> QED  BY <2>1, <2>2
<1>3. Types'
  <2>1. crashes' \in Nat /\ atRisk' \in BOOLEAN
    BY <1>1 DEF IInv, Types
  <2> QED  BY <1>1, <1>2, <2>1, NoSessionFits DEF IInv, Types
<1>4. FilesFit'
  BY <1>1, <1>2 DEF FilesFit
<1>5. MemoryFits'
  BY <1>1, NoSessionFits DEF MemoryFits
<1>6. WriteFits'
  BY <1>1, NoSessionFits DEF WriteFits, Modes
<1>7. ~Continues' /\ ~Torn'
  BY <1>1 DEF Continues, Torn
<1>8. MirrorFits'
  BY <1>7 DEF MirrorFits
<1>9. LossFits'
  <2>1. Types /\ LossFits /\ errors <= errors'
    BY <1>1 DEF IInv, Types
  <2>2. ~atRisk' => ~atRisk /\ io.mode # "migrate"
    BY <1>1
  <2>3. io'.mode = "none"
    BY <1>1, NoSessionFits
  <2>4. ~atRisk' => acked' \ Held' \subseteq acked \ Held
    BY <1>1, <1>2, <2>2, <2>3 DEF Held
  <2> QED  BY <1>3, <1>7, <2>1, <2>2, <2>4, LossStep
<1> QED  BY <1>3, <1>4, <1>5, <1>6, <1>8, <1>9 DEF IInv

\* A line that is written: the file still fits, and only a torn line before it is lost.
LEMMA LineFits ==
    ASSUME IInv, io # NoWrite, io.opened,
           NEW g, g = Written(disk[memory.file], Head(io.todo)),
           disk' = [disk EXCEPT ![memory.file] = g]
    PROVE  /\ g \in FileType /\ ~g.open /\ disk'[memory.file] = g
           /\ disk' \in [Files -> FileType]
           /\ \A h \in Files : FileFits(disk'[h], next, errors = 0)
           /\ IdsOf(EntriesIn(g)) \subseteq OnDisk'
           /\ ~disk[memory.file].open =>
                /\ Parsed(g) = Then
                /\ OnDisk \subseteq OnDisk'
                /\ Readable(disk[memory.file]) => Readable(g)
           /\ disk[memory.file].open =>
                /\ io.mode = "append" /\ Continues /\ errors # 0
                /\ ~atRisk => Readable(g) /\ acked \ OnDisk' \subseteq acked \ OnDisk
<1> DEFINE file == disk[memory.file]
           row == Head(io.todo)
<1>1. /\ running /\ io.mode \in Modes /\ row \in Row /\ Then \in Seq(Row)
      /\ Sound(Then) /\ IdsOf(Then) \subseteq 0..(next - 1)
      /\ (errors = 0 => Complete(EntriesOf(Then)))
      /\ IdsOf(EntriesOf(Done)) \subseteq IdsOf(EntriesOf(Then))
      /\ (Headed(Done) => Headed(Then))
  BY AtWork
<1>2. memory.file \in Files /\ file \in FileType /\ FileFits(file, next, errors = 0)
  BY <1>1, AtHand
<1>3. Done = Parsed(file) /\ Then = Append(Parsed(file), row)
  BY DEF Done, Then
<1>4. file.open => file.lines # <<>>
  BY <1>2 DEF FileFits
<1>5. g = Written(file, row)
  OBVIOUS
<1>6. file.open => io.mode = "append" /\ Continues /\ errors # 0
  <2>1. file.open => io.mode = "append"
    BY <1>1 DEF IInv, WriteFits
  <2>2. io.mode = "append" => Continues
    BY <1>1 DEF IInv, WriteFits, Continues
  <2> QED  BY <2>1, <2>2 DEF IInv, MirrorFits
<1> HIDE DEF file, row
<1>7. /\ g \in FileType /\ g.made /\ ~g.open /\ g.lines # <<>>
      /\ Parsed(g) = IF file.open THEN Parsed(Cut(file)) ELSE Append(Parsed(file), row)
  BY <1>1, <1>2, <1>4, <1>5, WrittenFits
<1>8. FileFits(g, next, errors = 0)
  <2>1. CASE file.open
    <3>1. Parsed(g) = Parsed(Cut(file))
      BY <1>7, <2>1
    <3>2. Sound(Parsed(Cut(file))) /\ IdsOf(Parsed(Cut(file))) \subseteq 0..(next - 1)
      BY <1>2, <1>4, <2>1, CutFits
    <3> QED  BY <1>6, <1>7, <2>1, <3>1, <3>2 DEF FileFits
  <2>2. CASE ~file.open
    <3>1. Parsed(g) = Then
      BY <1>3, <1>7, <2>2
    <3>2. EntriesIn(g) = EntriesOf(Then)
      BY <3>1 DEF EntriesIn
    <3> QED  BY <1>1, <1>7, <3>1, <3>2 DEF FileFits
  <2> QED  BY <2>1, <2>2
<1>9. /\ disk' \in [Files -> FileType] /\ disk'[memory.file] = g
      /\ \A h \in Files : FileFits(disk'[h], next, errors = 0)
      /\ OnDisk \ OnDisk' \subseteq IdsOf(EntriesIn(file)) \ IdsOf(EntriesIn(g))
      /\ IdsOf(EntriesIn(g)) \subseteq OnDisk'
  BY <1>2, <1>7, <1>8, FileStep DEF file
<1>10. ASSUME ~file.open
       PROVE  /\ Parsed(g) = Then /\ OnDisk \subseteq OnDisk'
              /\ Readable(file) => Readable(g)
  <2>1. Parsed(g) = Then
    BY <1>3, <1>7, <1>10
  <2>2. IdsOf(EntriesIn(file)) \subseteq IdsOf(EntriesIn(g)) /\ (Readable(file) => Readable(g))
    BY <1>1, <1>3, <2>1 DEF EntriesIn, Readable
  <2> QED  BY <1>9, <2>1, <2>2
<1>11. ASSUME file.open, ~atRisk
       PROVE  Readable(g) /\ acked \ OnDisk' \subseteq acked \ OnDisk
  <2>1. Readable(Cut(file)) /\ Last(file.lines).id \notin acked
    BY <1>6, <1>11, AppendAtRisk DEF file
  <2>2. IdsOf(EntriesIn(file)) \subseteq IdsOf(EntriesIn(Cut(file))) \cup {Last(file.lines).id}
    BY <1>2, <1>4, <1>11, <2>1, CutFits
  <2>3. Parsed(g) = Parsed(Cut(file))
    BY <1>7, <1>11
  <2>4. EntriesIn(g) = EntriesIn(Cut(file)) /\ Readable(g)
    BY <2>1, <2>3 DEF EntriesIn, Readable
  <2> QED  BY <1>9, <2>1, <2>2, <2>4
<1> QED  BY <1>6, <1>7, <1>9, <1>10, <1>11 DEF file

\* A line that is not the last of its write.
LEMMA MoreKeeps ==
    ASSUME IInv, WriteLine, Len(io.todo) > 1
    PROVE  IInv'
<1>1. io # NoWrite /\ io.opened
  BY NoSessionFits DEF WriteLine
<1>2. /\ disk' = [disk EXCEPT ![memory.file] = Written(@, Head(io.todo))]
      /\ io' = [io EXCEPT !.todo = Tail(@)] /\ memory' = memory /\ acked' = acked
      /\ running' = running /\ next' = next
      /\ crashes' = crashes /\ errors' = errors /\ atRisk' = atRisk
  BY DEF WriteLine, faults
<1>3. /\ running /\ io.mode \in Modes /\ io.todo # <<>> /\ Tail(io.todo) \in Seq(Row)
      /\ Then \o Tail(io.todo) = Whole
  BY <1>1, AtWork
<1>4. /\ memory.file \in Files /\ io.todo \in Seq(Row)
  BY <1>3, AtHand
<1>5. io.mode # "append"
  <2> SUFFICES ASSUME io.mode = "append"
               PROVE  FALSE
    OBVIOUS
  <2>1. io.todo = <<Last(memory.entries)>>
    BY DEF IInv, WriteFits
  <2>2. Len(<<Last(memory.entries)>>) = 1
    OBVIOUS
  <2>3. Len(io.todo) = 1
    BY <2>1, <2>2
  <2> QED  BY <2>3
<1>6. ~disk[memory.file].open
  BY <1>1, <1>3, <1>5 DEF IInv, WriteFits
<1>7. PICK g : g = Written(disk[memory.file], Head(io.todo))
  OBVIOUS
<1>8. disk' = [disk EXCEPT ![memory.file] = g]
  BY <1>2, <1>7
<1>9. /\ g \in FileType /\ ~g.open /\ disk'[memory.file] = g
      /\ disk' \in [Files -> FileType]
      /\ \A h \in Files : FileFits(disk'[h], next, errors = 0)
      /\ Parsed(g) = Then /\ OnDisk \subseteq OnDisk'
  BY <1>1, <1>6, <1>7, <1>8, LineFits
<1>10. /\ io' \in WriteType /\ io'.mode = io.mode /\ io'.todo = Tail(io.todo) /\ io'.opened = io.opened
  <2>1. io \in WriteType
    BY DEF IInv, Types
  <2> QED  BY <1>2, <1>3, <2>1 DEF WriteType
<1>11. io'.todo # <<>>
  <2> DEFINE t == Tail(io.todo)
             n == Len(io.todo)
  <2>1. Len(t) = n - 1 /\ n \in Nat /\ n > 1
    BY <1>3, <1>4, HeadOf
  <2> HIDE DEF t, n
  <2>2. Len(t) # 0
    BY <2>1
  <2>3. t # <<>>
    BY <2>2
  <2> QED  BY <1>10, <2>3 DEF t
<1>12. Types'
  BY <1>2, <1>9, <1>10 DEF IInv, Types
<1>13. FilesFit'
  BY <1>2, <1>9 DEF FilesFit
<1>14. MemoryFits'
  BY <1>2, <1>3 DEF IInv, MemoryFits
<1>15. Whole' = Whole
  <2>1. Done' = Parsed(disk'[memory'.file])
    BY <1>1, <1>10 DEF Done
  <2>2. Done' = Then
    BY <1>2, <1>9, <2>1
  <2>3. Whole' = Done' \o io'.todo
    BY DEF Whole
  <2> QED  BY <1>3, <1>10, <2>2, <2>3
<1>16. WriteFits'
  <2>1. WriteFits
    BY DEF IInv
  <2>2. Sound(Whole') /\ IdsOf(Whole') \subseteq 0..(next' - 1)
    BY <1>2, <1>3, <1>15, <2>1 DEF WriteFits, Modes
  <2>3. /\ io'.mode # "copy" => Whole' = <<Header>> \o memory'.entries
        /\ ~disk'[memory'.file].open
        /\ io'.mode \notin {"fork", "migrate"} => ~memory'.flushed
    BY <1>2, <1>3, <1>5, <1>9, <1>10, <1>15, <2>1 DEF WriteFits
  <2>4. io'.mode = "copy" => Headed(Whole') /\ (errors' = 0 => Complete(EntriesOf(Whole')))
    BY <1>2, <1>10, <1>15, <2>1 DEF WriteFits
  <2>5. io'.mode = "migrate" => memory'.flushed
    BY <1>2, <1>10, <2>1 DEF WriteFits
  <2>6. io'.opened /\ io'.mode # "append" /\ io'.mode # "none"
    BY <1>1, <1>3, <1>5, <1>10 DEF Modes
  <2> QED  BY <1>11, <2>2, <2>3, <2>4, <2>5, <2>6 DEF WriteFits
<1>17. ~Continues' /\ ~Torn'
  BY <1>3, <1>5, <1>10 DEF Continues, Torn, Modes
<1>18. MirrorFits'
  BY <1>17 DEF MirrorFits
<1>19. LossFits'
  <2>1. Types /\ LossFits /\ errors <= errors'
    BY <1>2 DEF IInv, Types
  <2>2. acked' \ Held' \subseteq acked \ Held
    BY <1>2, <1>9, <1>10 DEF Held
  <2> QED  BY <1>2, <1>12, <1>17, <2>1, <2>2, LossStep
<1> QED  BY <1>12, <1>13, <1>14, <1>16, <1>18, <1>19 DEF IInv

\* The last line of a write that is not an append: the file holds the whole session.
LEMMA WholeKeeps ==
    ASSUME IInv, WriteLine, ~(Len(io.todo) > 1), io.mode # "append"
    PROVE  IInv'
<1>1. io # NoWrite /\ io.opened
  BY NoSessionFits DEF WriteLine
<1>2. PICK g : g = Written(disk[memory.file], Head(io.todo))
  OBVIOUS
<1>3. /\ disk' = [disk EXCEPT ![memory.file] = g] /\ io' = NoWrite
      /\ running' = running /\ next' = next
      /\ crashes' = crashes /\ errors' = errors /\ atRisk' = atRisk
      /\ memory' = IF io.mode = "copy"
                   THEN [entries |-> EntriesIn(disk'[memory.file]),
                         leaf |-> LeafOf(EntriesIn(disk'[memory.file])),
                         file |-> memory.file, flushed |-> TRUE]
                   ELSE [memory EXCEPT !.flushed = TRUE]
      /\ acked' = acked \cup IdsOf(memory'.entries)
  BY <1>2 DEF WriteLine, faults
<1>4. /\ running /\ io.mode \in Modes /\ io.todo # <<>> /\ Tail(io.todo) \in Seq(Row)
      /\ Then \in Seq(Row) /\ Then \o Tail(io.todo) = Whole
      /\ Sound(Then) /\ IdsOf(Then) \subseteq 0..(next - 1)
      /\ (errors = 0 => Complete(EntriesOf(Then)))
  BY <1>1, AtWork
<1>5. /\ memory.file \in Files /\ io.todo \in Seq(Row) /\ memory.entries \in Seq(EntryType)
      /\ next \in Nat
  BY <1>4, AtHand
<1>6. ~disk[memory.file].open
  BY <1>1, <1>4 DEF IInv, WriteFits
<1>7. /\ g \in FileType /\ ~g.open /\ disk'[memory.file] = g
      /\ disk' \in [Files -> FileType]
      /\ \A h \in Files : FileFits(disk'[h], next, errors = 0)
      /\ IdsOf(EntriesIn(g)) \subseteq OnDisk'
      /\ Parsed(g) = Then /\ OnDisk \subseteq OnDisk'
  BY <1>1, <1>2, <1>3, <1>6, LineFits
<1>8. Then = Whole
  <2> DEFINE t == Tail(io.todo)
             n == Len(io.todo)
  <2>1. Len(t) = n - 1 /\ n \in Nat \ {0} /\ ~(n > 1) /\ t \in Seq(Row)
    BY <1>4, <1>5, HeadOf
  <2> HIDE DEF t, n
  <2>2. Len(t) = 0
    BY <2>1
  <2>3. t = <<>>
    BY <2>1, <2>2
  <2>4. Then \o t = Then
    BY <1>4, <2>3, JoinEmpty
  <2> QED  BY <1>4, <2>4 DEF t
<1>9. PICK es : es = EntriesIn(g)
  OBVIOUS
<1>10. es = EntriesOf(Then) /\ (io.mode # "copy" => es = memory.entries) /\ Headed(Then)
  <2>1. es = EntriesOf(Then)
    BY <1>7, <1>9 DEF EntriesIn
  <2>2. io.mode = "copy" => Headed(Then)
    BY <1>8 DEF IInv, WriteFits
  <2>3. io.mode # "copy" => Then = <<Header>> \o memory.entries
    BY <1>4, <1>8 DEF IInv, WriteFits
  <2>4. EntriesOf(<<Header>> \o memory.entries) = memory.entries /\ Headed(<<Header>> \o memory.entries)
    BY <1>5, HeaderFirst
  <2> QED  BY <2>1, <2>2, <2>3, <2>4
<1>11. /\ es \in Seq(EntryType) /\ Sound(es) /\ Then = <<Header>> \o es
       /\ IdsOf(es) \subseteq 0..(next - 1) /\ (errors = 0 => Complete(es))
  BY <1>4, <1>10, EntriesFit
<1>12. /\ memory' \in MemoryType /\ memory'.entries = es /\ memory'.file = memory.file
       /\ memory'.flushed = TRUE /\ memory'.leaf \in IdsOf(es) \cup {NoId}
  <2>1. CASE io.mode = "copy"
    <3>1. memory' = [entries |-> es, leaf |-> LeafOf(es), file |-> memory.file, flushed |-> TRUE]
      BY <1>3, <1>7, <1>9, <2>1
    <3>2. LeafOf(es) \in IdsOf(es) \cup {NoId} /\ LeafOf(es) \in Ids \cup {NoId}
      BY <1>11, LeafFits
    <3> QED  BY <1>5, <1>11, <3>1, <3>2 DEF MemoryType
  <2>2. CASE io.mode # "copy"
    <3>1. memory' = [memory EXCEPT !.flushed = TRUE] /\ es = memory.entries
      BY <1>3, <1>10, <2>2
    <3>2. memory \in MemoryType /\ memory.leaf \in IdsOf(memory.entries) \cup {NoId}
      BY DEF IInv, Types, MemoryFits
    <3> QED  BY <3>1, <3>2 DEF MemoryType
  <2> QED  BY <2>1, <2>2
<1>13. acked' = acked \cup IdsOf(es)
  BY <1>3, <1>12
<1>14. Types'
  <2>1. acked \subseteq 1..(next - 1)
    BY DEF IInv, Types
  <2>2. IdsOf(es) \subseteq 1..(next - 1)
    <3>1. IdsOf(es) \subseteq Ids
      BY <1>11, IdsInIds
    <3>2. \A i \in Ids : i \in Nat /\ i # 0
      BY RowTypes DEF NoId
    <3> QED  BY <1>5, <1>11, <3>1, <3>2
  <2>3. acked' \subseteq 1..(next' - 1)
    BY <1>3, <1>13, <2>1, <2>2
  <2> QED  BY <1>3, <1>7, <1>12, <2>3, NoSessionFits DEF IInv, Types
<1>15. FilesFit'
  BY <1>3, <1>7 DEF FilesFit
<1>16. MemoryFits'
  <2>1. EntriesFitIn(es, next, errors = 0)
    BY <1>11 DEF EntriesFitIn
  <2> QED  BY <1>3, <1>4, <1>5, <1>12, <2>1 DEF MemoryFits
<1>17. WriteFits'
  BY <1>3, NoSessionFits DEF WriteFits, Modes
<1>18. Parsed(disk'[memory'.file]) = <<Header>> \o es /\ ~disk'[memory'.file].open
  BY <1>7, <1>11, <1>12
<1>19. MirrorFits'
  <2>1. <<Header>> \o es \in Seq(Row)
    BY <1>11, HeaderFirst
  <2>2. (<<Header>> \o es) \o <<>> = <<Header>> \o es
    BY <2>1, JoinEmpty
  <2> QED  BY <1>3, <1>12, <1>18, <2>2, NoSessionFits DEF MirrorFits
<1>20. LossFits'
  <2>1. Types /\ LossFits /\ errors <= errors'
    BY <1>3 DEF IInv, Types
  <2>2. IdsOf(es) \subseteq OnDisk' /\ Held' = OnDisk'
    BY <1>3, <1>7, <1>9, NoSessionFits DEF Held
  <2>3. Held \subseteq Held'
    <3>1. io.mode = "migrate" => IdsOf(memory.entries) \subseteq OnDisk'
      BY <1>10, <2>2
    <3> QED  BY <1>7, <2>2, <3>1 DEF Held
  <2>4. acked' \ Held' \subseteq acked \ Held
    BY <1>13, <2>2, <2>3
  <2>5. ~Torn'
    BY <1>18 DEF Torn
  <2>6. Readable(disk[memory.file])'
    <3>1. Headed(Parsed(disk'[memory'.file]))
      BY <1>10, <1>11, <1>18
    <3> QED  BY <3>1 DEF Readable
  <2> QED  BY <1>3, <1>14, <2>1, <2>4, <2>5, <2>6, LossStep
<1> QED  BY <1>14, <1>15, <1>16, <1>17, <1>19, <1>20 DEF IInv

\* The line of an entry that is appended: it is acknowledged, and lost if the line before
\* it was torn.
LEMMA AppendEnds ==
    ASSUME IInv, WriteLine, io.mode = "append"
    PROVE  IInv'
<1>1. io # NoWrite /\ io.opened
  BY NoSessionFits DEF WriteLine
<1>2. PICK g : g = Written(disk[memory.file], Head(io.todo))
  OBVIOUS
<1>3. PICK x : x = Last(memory.entries)
  OBVIOUS
<1>4. io.todo = <<x>> /\ memory.flushed /\ memory.entries # <<>> /\ x.id \notin acked
  BY <1>3 DEF IInv, WriteFits
<1>5. Head(io.todo) = x /\ Len(io.todo) = 1 /\ Tail(io.todo) = <<>>
  <2>1. Head(<<x>>) = x /\ Len(<<x>>) = 1 /\ Tail(<<x>>) = <<>>
    OBVIOUS
  <2> QED  BY <1>4, <2>1
<1>6. /\ disk' = [disk EXCEPT ![memory.file] = g] /\ io' = NoWrite
      /\ running' = running /\ next' = next
      /\ crashes' = crashes /\ errors' = errors /\ atRisk' = atRisk
      /\ memory' = [memory EXCEPT !.flushed = TRUE]
      /\ acked' = acked \cup {x.id}
  <2>1. ~(Len(io.todo) > 1)
    BY <1>5
  <2> QED  BY <1>2, <1>3, <2>1 DEF WriteLine, faults
<1>7. memory \in MemoryType
  BY DEF IInv, Types
<1>8. memory' = memory
  BY <1>4, <1>6, <1>7 DEF MemoryType
<1>9. /\ running /\ Then \in Seq(Row) /\ Then \o <<>> = Whole /\ Sound(Then)
      /\ (Headed(Done) => Headed(Then)) /\ Done \in Seq(Row)
  BY <1>1, <1>5, AtWork
<1>10. /\ memory.file \in Files /\ memory.entries \in Seq(EntryType) /\ next \in Nat
       /\ errors \in Nat
  BY <1>9, AtHand
<1>11. Done = Parsed(disk[memory.file]) /\ Then = Append(Done, x) /\ Then = Whole
  BY <1>1, <1>5, <1>9, JoinEmpty DEF Done, Then
<1>12. /\ g \in FileType /\ ~g.open /\ disk'[memory.file] = g
       /\ disk' \in [Files -> FileType]
       /\ \A h \in Files : FileFits(disk'[h], next, errors = 0)
       /\ IdsOf(EntriesIn(g)) \subseteq OnDisk'
       /\ ~disk[memory.file].open =>
            /\ Parsed(g) = Then
            /\ OnDisk \subseteq OnDisk'
            /\ Readable(disk[memory.file]) => Readable(g)
       /\ disk[memory.file].open /\ ~atRisk =>
            Readable(g) /\ acked \ OnDisk' \subseteq acked \ OnDisk
  BY <1>1, <1>2, <1>6, LineFits
<1>13. x \in EntryType /\ x.id \in IdsOf(memory.entries) /\ x.id \in 1..(next - 1)
  <2>1. x \in EntryType /\ x = memory.entries[Len(memory.entries)]
    BY <1>3, <1>4, <1>10, FrontOf
  <2>2. Len(memory.entries) \in 1..Len(memory.entries)
    BY <1>4, <1>10
  <2>3. x.id \in IdsOf(memory.entries)
    BY <1>10, <2>1, <2>2, IdsAt
  <2>4. x.id \in 0..(next - 1)
    BY <2>3 DEF IInv, MemoryFits, EntriesFitIn
  <2>5. x.id \in Nat /\ x.id # 0
    BY <2>1, RowTypes DEF EntryType, NoId
  <2> QED  BY <1>10, <2>1, <2>3, <2>4, <2>5
<1>14. Types'
  <2>1. acked \subseteq 1..(next - 1)
    BY DEF IInv, Types
  <2>2. acked' \subseteq 1..(next' - 1)
    BY <1>6, <1>13, <2>1
  <2> QED  BY <1>6, <1>7, <1>8, <1>12, <2>2, NoSessionFits DEF IInv, Types
<1>15. FilesFit'
  BY <1>6, <1>12 DEF FilesFit
<1>16. MemoryFits'
  BY <1>6, <1>8, <1>9 DEF IInv, MemoryFits
<1>17. WriteFits'
  BY <1>6, NoSessionFits DEF WriteFits, Modes
<1>18. Continues /\ Continues'
  BY <1>4, <1>6, <1>8, <1>9, NoSessionFits DEF Continues
<1>19. MirrorFits'
  <2> SUFFICES ASSUME errors = 0
               PROVE  /\ ~disk'[memory.file].open
                      /\ Parsed(disk'[memory.file]) \o <<>> = <<Header>> \o memory.entries
    BY <1>6, <1>8, NoSessionFits DEF MirrorFits
  <2>1. /\ ~disk[memory.file].open
        /\ Parsed(disk[memory.file]) \o io.todo = <<Header>> \o memory.entries
    BY <1>18 DEF IInv, MirrorFits
  <2>2. Whole = <<Header>> \o memory.entries
    BY <1>11, <2>1 DEF Whole
  <2>3. Parsed(g) = <<Header>> \o memory.entries
    BY <1>11, <1>12, <2>1, <2>2
  <2>4. Then \o <<>> = Then
    BY <1>9, JoinEmpty
  <2> QED  BY <1>11, <1>12, <2>2, <2>3, <2>4
<1>20. LossFits'
  <2>1. Types /\ LossFits /\ errors <= errors'
    BY <1>6 DEF IInv, Types
  <2>2. ~Torn'
    BY <1>8, <1>12 DEF Torn
  <2>3. Held = OnDisk /\ Held' = OnDisk'
    BY <1>6, NoSessionFits DEF Held
  <2>4. CASE ~disk[memory.file].open
    <3>1. ASSUME ~atRisk
          PROVE  Readable(g) /\ acked' \ Held' \subseteq acked \ Held
      <4>1. Readable(disk[memory.file])
        BY <1>18, <2>1, <3>1 DEF LossFits
      <4>2. Readable(g) /\ Headed(Done)
        BY <1>11, <1>12, <2>4, <4>1 DEF Readable
      <4>3. x.id \in IdsOf(EntriesIn(g))
        <5> DEFINE last == <<x>>
        <5>1. x \in Row
          BY <1>13 DEF Row
        <5>2. Then = Done \o last /\ last \in Seq(Row) /\ IdsOf(last) = {x.id}
          BY <1>9, <1>11, <5>1, AppendJoins, OneElement, IdsOne
        <5> HIDE DEF last
        <5>3. last \in Seq(EntryType) /\ EntriesOf(Then) = EntriesOf(Done) \o last
          BY <1>9, <4>2, <5>2, EntriesJoin
        <5>4. EntriesOf(Done) \in Seq(EntryType)
          <6>1. Sound(Done)
            BY <1>9, <5>2, SoundPart
          <6> QED  BY <6>1, EntriesFit
        <5>5. IdsOf(EntriesOf(Then)) = IdsOf(EntriesOf(Done)) \cup IdsOf(last)
          BY <5>3, <5>4, IdsJoin
        <5> QED  BY <1>12, <2>4, <5>2, <5>5 DEF EntriesIn
      <4> QED  BY <1>6, <1>12, <2>3, <2>4, <4>2, <4>3
    <3>2. ~atRisk' => Readable(disk[memory.file])' /\ acked' \ Held' \subseteq acked \ Held
      BY <1>6, <1>8, <1>12, <3>1
    <3> QED  BY <1>6, <1>14, <2>1, <2>2, <3>2, LossStep
  <2>5. CASE disk[memory.file].open
    <3> SUFFICES ASSUME ~atRisk'
                 PROVE  /\ Cardinality(acked' \ Held') + 0 <= errors'
                        /\ Readable(disk'[memory'.file])
      BY <2>2 DEF LossFits
    <3>1. ~atRisk /\ Torn
      BY <1>6, <1>18, <2>5 DEF Torn
    <3>2. Readable(g) /\ acked \ OnDisk' \subseteq acked \ OnDisk
      BY <1>12, <2>5, <3>1
    <3>3. Cardinality(acked \ Held) + 1 <= errors
      BY <2>1, <3>1 DEF LossFits
    <3>4. IsFiniteSet(acked \ Held) /\ Cardinality(acked \ Held) \in Nat
      <4>1. IsFiniteSet(1..(next - 1))
        BY <1>10, FS_Interval
      <4>2. acked \ Held \in SUBSET (1..(next - 1))
        BY DEF IInv, Types
      <4> QED  BY <4>1, <4>2, FS_Subset, FS_CardinalityType
    <3>5. /\ IsFiniteSet((acked \ Held) \cup {x.id})
          /\ Cardinality((acked \ Held) \cup {x.id}) <= Cardinality(acked \ Held) + 1
          /\ Cardinality((acked \ Held) \cup {x.id}) \in Nat
      <4> DEFINE s == acked \ Held
      <4> HIDE DEF s
      <4>1. IsFiniteSet(s) /\ Cardinality(s) \in Nat
        BY <3>4 DEF s
      <4>2. /\ IsFiniteSet(s \cup {x.id})
            /\ Cardinality(s \cup {x.id}) = IF x.id \in s THEN Cardinality(s) ELSE Cardinality(s) + 1
        BY <4>1, FS_AddElement
      <4> QED  BY <4>1, <4>2 DEF s
    <3>6. acked' \ Held' \in SUBSET ((acked \ Held) \cup {x.id})
      BY <1>6, <2>3, <3>2
    <3>7. IsFiniteSet(acked' \ Held') /\ Cardinality(acked' \ Held') <= Cardinality((acked \ Held) \cup {x.id})
      BY <3>5, <3>6, FS_Subset
    <3>8. Cardinality(acked' \ Held') \in Nat
      BY <3>7, FS_CardinalityType
    <3>9. Cardinality(acked' \ Held') + 0 <= errors'
      BY <1>6, <1>10, <3>3, <3>4, <3>5, <3>7, <3>8
    <3> QED  BY <1>8, <1>12, <3>2, <3>9
  <2> QED  BY <2>4, <2>5
<1> QED  BY <1>14, <1>15, <1>16, <1>17, <1>19, <1>20 DEF IInv

-------------------------------------------------------------------------------
(* Branches. *)

\* What holds of 0, and of n + 1 whenever it holds of n, holds of every number.
LEMMA Counting ==
    ASSUME NEW G, 0 \in G, \A n \in Nat : n \in G => n + 1 \in G
    PROVE  Nat \subseteq G
<1> DEFINE T == Nat \ G
           R == {ss \in Nat \X Nat : ss[1] < ss[2]}
<1> SUFFICES ASSUME T # {}  PROVE FALSE
  OBVIOUS
<1>1. IsWellFoundedOn(R, Nat)
  BY NatLessThanWellFounded DEF OpToRel
<1>2. PICK x \in T : \A y \in T : ~(<<y, x>> \in R)
  <2>1. T \subseteq Nat /\ T # {}
    OBVIOUS
  <2> HIDE DEF T, R
  <2> QED  BY <1>1, <2>1, WFMin
<1>3. x \in Nat /\ x # 0 /\ x \notin G
  OBVIOUS
<1>4. x - 1 \in Nat /\ (x - 1) + 1 = x /\ x - 1 < x
  BY <1>3
<1>5. x - 1 \in T
  BY <1>3, <1>4
<1>6. <<x - 1, x>> \in R
  BY <1>3, <1>4
<1> QED  BY <1>2, <1>5, <1>6

\* The function that BranchTo defines is one: the path to an entry follows from the path
\* to its parent, which stands before it.
Step(es, paths, k) ==
    IF es[k].parent \in IdsOf(es)
      THEN Append(paths[At(es, es[k].parent)], es[k]) ELSE <<es[k]>>

\* An id of a session is that of one entry.
LEMMA PlaceOf ==
    ASSUME NEW es \in Seq(EntryType), Sound(es), NEW id \in IdsOf(es)
    PROVE  /\ At(es, id) \in 1..Len(es) /\ es[At(es, id)].id = id
           /\ \A k \in 1..Len(es) : id < es[k].id => At(es, id) < k
<1>1. Len(es) \in Nat /\ \A i, j \in 1..Len(es) : i < j => es[i].id < es[j].id
  BY SoundAt
<1>2. \E k \in 1..Len(es) : es[k].id = id
  BY IdsAt
<1>3. At(es, id) \in 1..Len(es) /\ es[At(es, id)].id = id
  <2>1. DOMAIN es = 1..Len(es)
    OBVIOUS
  <2>2. \E k \in DOMAIN es : es[k].id = id
    BY <1>2, <2>1
  <2> QED  BY <2>1, <2>2 DEF At
<1>4. ASSUME NEW k \in 1..Len(es), id < es[k].id
      PROVE  At(es, id) < k
  <2>1. PICK j \in 1..Len(es) : j = At(es, id)
    BY <1>3
  <2>2. es[j].id = id
    BY <1>3, <2>1
  <2>3. id \in Nat /\ es[k].id \in Nat
    <3>1. es[j] \in Row /\ es[k] \in Row
      BY DEF Row
    <3> QED  BY <2>2, <3>1, RowTypes
  <2>4. j # k /\ ~(k < j)
    BY <1>1, <1>4, <2>2, <2>3
  <2> QED  BY <1>1, <2>1, <2>4
<1> QED  BY <1>3, <1>4

\* A parent that is there stands before its entry.
LEMMA ParentBefore ==
    ASSUME NEW es \in Seq(EntryType), Sound(es), NEW k \in 1..Len(es),
           es[k].parent \in IdsOf(es)
    PROVE  /\ At(es, es[k].parent) \in 1..Len(es) /\ At(es, es[k].parent) < k
           /\ es[At(es, es[k].parent)].id = es[k].parent /\ es[k].parent < es[k].id
<1>1. es[k] \in EntryType
  OBVIOUS
<1>2. es[k] # Header
  BY <1>1, RowTypes
<1>3. es[k].parent < es[k].id
  BY <1>2, SoundAt
<1> QED  BY <1>3, PlaceOf

\* A step looks at earlier paths only.
LEMMA StepBefore ==
    ASSUME NEW es \in Seq(EntryType), Sound(es), NEW k \in 1..Len(es), NEW p, NEW q,
           \A j \in 1..Len(es) : j < k => p[j] = q[j]
    PROVE  Step(es, p, k) = Step(es, q, k)
<1>1. CASE es[k].parent \in IdsOf(es)
  <2>1. At(es, es[k].parent) \in 1..Len(es) /\ At(es, es[k].parent) < k
    BY <1>1, ParentBefore
  <2>2. p[At(es, es[k].parent)] = q[At(es, es[k].parent)]
    BY <2>1
  <2> QED  BY <2>2 DEF Step
<1>2. CASE es[k].parent \notin IdsOf(es)
  BY <1>2 DEF Step
<1> QED  BY <1>1, <1>2

\* The paths that BranchTo defines exist: the definition is sound.
LEMMA PathsExist ==
    ASSUME NEW es \in Seq(EntryType), Sound(es)
    PROVE  \E f : f = [k \in DOMAIN es |-> Step(es, f, k)]
<1> DEFINE G == {n \in Nat : n <= Len(es) => \E f : f = [k \in 1..n |-> Step(es, f, k)]}
<1>1. Len(es) \in Nat /\ DOMAIN es = 1..Len(es)
  OBVIOUS
<1>2. 0 \in G
  <2> DEFINE f == [k \in 1..0 |-> <<>>]
  <2>1. f = [k \in 1..0 |-> Step(es, f, k)]
    <3>1. 1..0 = {}
      OBVIOUS
    <3> QED  BY <3>1
  <2> QED  BY <2>1
<1>3. ASSUME NEW n \in Nat, n \in G, n + 1 <= Len(es)
      PROVE  \E f : f = [k \in 1..(n + 1) |-> Step(es, f, k)]
  <2>1. n <= Len(es)
    BY <1>1, <1>3
  <2>2. PICK f : f = [k \in 1..n |-> Step(es, f, k)]
    BY <1>3, <2>1
  <2> DEFINE g == [k \in 1..(n + 1) |-> IF k <= n THEN f[k] ELSE Step(es, f, n + 1)]
  <2>3. \A k \in 1..n : f[k] = Step(es, f, k)
    BY <2>2
  <2>4. \A k \in 1..n : k \in 1..(n + 1) /\ k <= n
    OBVIOUS
  <2>5. \A k \in 1..n : g[k] = f[k]
    BY <2>4
  <2>6. g[n + 1] = Step(es, f, n + 1)
    OBVIOUS
  <2>7. \A k \in 1..(n + 1) : k = n + 1 \/ k \in 1..n
    OBVIOUS
  <2>8. 1..(n + 1) \subseteq 1..Len(es)
    BY <1>1, <1>3
  <2>9. g = [k \in 1..(n + 1) |-> IF k <= n THEN f[k] ELSE Step(es, f, n + 1)]
    OBVIOUS
  <2> HIDE DEF g
  <2>10. ASSUME NEW k \in 1..(n + 1)
         PROVE  Step(es, f, k) = Step(es, g, k)
    <3>1. \A j \in 1..Len(es) : j < k => f[j] = g[j]
      <4>1. \A j \in 1..Len(es) : j < k => j \in 1..n
        BY <1>1
      <4> QED  BY <2>5, <4>1
    <3> QED  BY <2>8, <3>1, StepBefore
  <2>11. \A k \in 1..(n + 1) : g[k] = Step(es, g, k)
    BY <2>3, <2>5, <2>6, <2>7, <2>10
  <2>12. g = [k \in 1..(n + 1) |-> Step(es, g, k)]
    BY <2>9, <2>11
  <2> QED  BY <2>12
<1>4. \A n \in Nat : n \in G => n + 1 \in G
  BY <1>3
<1> HIDE DEF G
<1>5. Nat \subseteq G
  BY <1>2, <1>4, Counting
<1>6. Len(es) \in G
  BY <1>1, <1>5
<1> QED  BY <1>1, <1>6 DEF G

\* The path to an entry: entries of the session, each behind its parent, up to it.
PathFits(es, path, k) ==
    /\ path \in Seq(EntryType) /\ path # <<>> /\ Last(path) = es[k]
    /\ Sound(path) /\ IdsOf(path) \subseteq 0..es[k].id
    /\ \A i \in 1..Len(path) : \E j \in 1..Len(es) : path[i] = es[j]

\* If the paths to the entries before fit, so does the path to the next.
LEMMA StepFits ==
    ASSUME NEW es \in Seq(EntryType), Sound(es), NEW k \in 1..Len(es), NEW p,
           \A j \in 1..Len(es) : j < k => PathFits(es, p[j], j)
    PROVE  PathFits(es, Step(es, p, k), k)
<1>1. es[k] \in EntryType /\ es[k] \in Row /\ es[k].id \in Nat /\ es[k].parent \in Nat /\ es[k] # Header
  <2>1. es[k] \in EntryType
    OBVIOUS
  <2> QED  BY <2>1, RowTypes DEF Row
<1>2. CASE es[k].parent \in IdsOf(es)
  <2> DEFINE q == p[At(es, es[k].parent)]
  <2>1. PICK j \in 1..Len(es) : j = At(es, es[k].parent)
    BY <1>2, ParentBefore
  <2>2. j < k /\ es[j].id = es[k].parent /\ es[k].parent < es[k].id
    BY <1>2, <2>1, ParentBefore
  <2>3. PathFits(es, q, j) /\ Step(es, p, k) = Append(q, es[k])
    BY <1>2, <2>1, <2>2 DEF Step
  <2> HIDE DEF q
  <2>4. /\ q \in Seq(EntryType) /\ q \in Seq(Row) /\ Sound(q) /\ IdsOf(q) \subseteq 0..es[k].parent
        /\ \A i \in 1..Len(q) : \E l \in 1..Len(es) : q[i] = es[l]
    BY <2>2, <2>3 DEF PathFits, Row
  <2>5. /\ Append(q, es[k]) \in Seq(EntryType) /\ Append(q, es[k]) # <<>>
        /\ Last(Append(q, es[k])) = es[k]
    BY <1>1, <2>4, AppendAt, AppendFront
  <2>6. Sound(Append(q, es[k]))
    <3>1. \A i \in IdsOf(q) : i < es[k].id
      BY <1>1, <2>2, <2>4
    <3> QED  BY <1>1, <2>2, <2>4, <3>1, SoundAppend
  <2>7. IdsOf(Append(q, es[k])) \subseteq 0..es[k].id
    <3>1. IdsOf(Append(q, es[k])) = IdsOf(q) \cup {es[k].id}
      BY <1>1, <2>4, IdsAppend
    <3> QED  BY <1>1, <2>2, <2>4, <3>1
  <2>8. \A i \in 1..Len(Append(q, es[k])) : \E l \in 1..Len(es) : Append(q, es[k])[i] = es[l]
    <3> DEFINE u == Append(q, es[k])
               n == Len(q)
    <3>1. /\ Len(u) = n + 1 /\ n \in Nat /\ u[n + 1] = es[k]
          /\ \A i \in 1..n : u[i] = q[i]
      BY <1>1, <2>4, AppendAt
    <3> HIDE DEF u
    <3>2. \A i \in 1..Len(u) : i = n + 1 \/ i \in 1..n
      BY <3>1
    <3> SUFFICES ASSUME NEW i \in 1..Len(u)
                 PROVE  \E l \in 1..Len(es) : u[i] = es[l]
      BY DEF u
    <3>3. CASE i = n + 1
      BY <3>1, <3>3
    <3>4. CASE i \in 1..n
      <4>1. u[i] = q[i] /\ \E l \in 1..Len(es) : q[i] = es[l]
        BY <2>4, <3>1, <3>4
      <4> QED  BY <4>1
    <3> QED  BY <3>2, <3>3, <3>4
  <2>9. PathFits(es, Append(q, es[k]), k)
    BY <2>5, <2>6, <2>7, <2>8 DEF PathFits
  <2> QED  BY <2>3, <2>9
<1>3. CASE es[k].parent \notin IdsOf(es)
  <2> DEFINE x == es[k]
  <2>1. Step(es, p, k) = <<x>>
    BY <1>3 DEF Step
  <2>2. x \in EntryType /\ x \in Row /\ x.id \in Nat /\ x # Header
    BY <1>1
  <2>3. x.parent < x.id
    BY <1>1, SoundAt
  <2>4. \E l \in 1..Len(es) : x = es[l]
    OBVIOUS
  <2> HIDE DEF x
  <2>5. <<x>> \in Seq(EntryType) /\ <<x>> # <<>> /\ Last(<<x>>) = x /\ Len(<<x>>) = 1 /\ <<x>>[1] = x
    BY <2>2 DEF Last
  <2>6. Append(<<>>, x) = <<x>>
    OBVIOUS
  <2>7. Sound(<<x>>)
    <3>1. <<>> \in Seq(Row)
      OBVIOUS
    <3>2. Sound(<<>>) /\ \A i \in IdsOf(<<>>) : i < x.id
      BY NothingFits
    <3>3. Sound(Append(<<>>, x))
      BY <2>2, <2>3, <3>1, <3>2, SoundAppend
    <3> QED  BY <2>6, <3>3
  <2>8. IdsOf(<<x>>) \subseteq 0..x.id
    BY <2>2, IdsOne
  <2>9. \A i \in 1..Len(<<x>>) : \E l \in 1..Len(es) : <<x>>[i] = es[l]
    BY <2>4, <2>5
  <2>10. PathFits(es, <<x>>, k)
    BY <2>5, <2>7, <2>8, <2>9 DEF PathFits, x
  <2> QED  BY <2>1, <2>10
<1> QED  BY <1>2, <1>3

\* The branch of an entry of the session (getBranch).
LEMMA BranchFits ==
    ASSUME NEW es \in Seq(EntryType), Sound(es), NEW id \in IdsOf(es)
    PROVE  PathFits(es, BranchTo(es, id), At(es, id)) /\ At(es, id) \in 1..Len(es)
<1> DEFINE path == CHOOSE f : f = [k \in DOMAIN es |-> Step(es, f, k)]
<1>1. BranchTo(es, id) = path[At(es, id)]
  BY DEF BranchTo, Step
<1>2. path = [k \in DOMAIN es |-> Step(es, path, k)]
  BY PathsExist
<1>3. Len(es) \in Nat /\ DOMAIN es = 1..Len(es)
  OBVIOUS
<1> HIDE DEF path
<1>4. \A k \in 1..Len(es) : path[k] = Step(es, path, k)
  BY <1>2, <1>3
<1> DEFINE G == {n \in Nat : \A j \in 1..Len(es) : j <= n => PathFits(es, path[j], j)}
<1>5. 0 \in G
  BY <1>3
<1>6. ASSUME NEW n \in Nat, n \in G, NEW j \in 1..Len(es), j <= n + 1
      PROVE  PathFits(es, path[j], j)
  <2>1. CASE j <= n
    BY <1>6, <2>1
  <2>2. CASE j = n + 1
    <3>1. \A i \in 1..Len(es) : i < j => PathFits(es, path[i], i)
      <4>1. \A i \in 1..Len(es) : i < j => i <= n
        BY <1>3, <2>2
      <4> QED  BY <1>6, <4>1
    <3>2. PathFits(es, Step(es, path, j), j)
      BY <3>1, StepFits
    <3> QED  BY <1>4, <3>2
  <2> QED  BY <1>3, <1>6, <2>1, <2>2
<1>7. \A n \in Nat : n \in G => n + 1 \in G
  BY <1>6
<1> HIDE DEF G
<1>8. Nat \subseteq G
  BY <1>5, <1>7, Counting
<1>9. Len(es) \in G
  BY <1>3, <1>8
<1>10. \A j \in 1..Len(es) : PathFits(es, path[j], j)
  BY <1>3, <1>9 DEF G
<1>11. At(es, id) \in 1..Len(es)
  BY PlaceOf
<1> QED  BY <1>1, <1>10, <1>11

\* What is picked from sound entries is sound.
LEMMA PickedSound ==
    ASSUME NEW s \in Seq(EntryType), Sound(s), NEW P \in SUBSET (1..Len(s))
    PROVE  /\ Picked(s, P) \in Seq(EntryType) /\ Sound(Picked(s, P))
           /\ IdsOf(Picked(s, P)) \subseteq IdsOf(s)
<1> DEFINE u == Picked(s, P)
           c == Cardinality(P)
<1>1. /\ u \in Seq(EntryType) /\ Len(u) = c /\ c \in Nat
      /\ \A i \in 1..c : Nth(P, i) \in P /\ u[i] = s[Nth(P, i)]
      /\ \A i, j \in 1..c : i < j => Nth(P, i) < Nth(P, j)
  BY PickedType
<1>2. /\ \A i, j \in 1..Len(s) : i < j => s[i].id < s[j].id
      /\ \A i \in 1..Len(s) : s[i] = Header \/ s[i].parent < s[i].id
  BY SoundAt
<1>3. \A i \in 1..Len(s) : s[i].id \in IdsOf(s)
  BY IdsAt
<1> HIDE DEF u, c
<1>4. \A i, j \in 1..c : i < j => u[i].id < u[j].id
  BY <1>1, <1>2
<1>5. \A i \in 1..c : u[i] = Header \/ u[i].parent < u[i].id
  BY <1>1, <1>2
<1>6. Sound(u)
  <2>1. u \in Seq(Row)
    BY <1>1 DEF Row
  <2> QED  BY <1>1, <1>4, <1>5, <2>1, SoundAt
<1>7. IdsOf(u) \subseteq IdsOf(s)
  <2>1. \A i \in 1..c : u[i].id \in IdsOf(s)
    BY <1>1, <1>3
  <2>2. \A x \in IdsOf(u) : \E i \in 1..c : u[i].id = x
    BY <1>1, IdsAt
  <2> QED  BY <2>1, <2>2
<1> QED  BY <1>1, <1>6, <1>7 DEF u

\* The ids of the entries that are no labels.
Lasting(s) == {s[k].id : k \in {j \in 1..Len(s) : ~IsLabel(s[j])}}

\* They are the ids that stand somewhere in an entry that is no label.
LEMMA LastingAt ==
    ASSUME NEW s, NEW i
    PROVE  i \in Lasting(s) <=> \E k \in 1..Len(s) : ~IsLabel(s[k]) /\ s[k].id = i
BY DEF Lasting

\* Without labels, what is sound stays sound.
LEMMA NonLabelsFit ==
    ASSUME NEW s \in Seq(EntryType)
    PROVE  /\ NonLabels(s) \in Seq(EntryType) /\ IdsOf(NonLabels(s)) = Lasting(s)
           /\ Sound(s) => Sound(NonLabels(s))
           /\ \A i \in 1..Len(NonLabels(s)) :
                \E k \in 1..Len(s) : ~IsLabel(s[k]) /\ NonLabels(s)[i] = s[k]
           /\ \A k \in 1..Len(s) :
                ~IsLabel(s[k]) => \E i \in 1..Len(NonLabels(s)) : NonLabels(s)[i] = s[k]
<1> DEFINE P == {k \in DOMAIN s : ~IsLabel(s[k])}
           u == NonLabels(s)
           c == Cardinality(P)
<1>1. u = Picked(s, P) /\ P \in SUBSET (1..Len(s))
  BY DEF NonLabels
<1>2. \A k \in 1..Len(s) : k \in P <=> ~IsLabel(s[k])
  OBVIOUS
<1> HIDE DEF P, u
<1>3. /\ u \in Seq(EntryType) /\ Len(u) = c /\ c \in Nat
      /\ \A i \in 1..c : Nth(P, i) \in P /\ u[i] = s[Nth(P, i)]
      /\ \A k \in P : \E i \in 1..c : Nth(P, i) = k
  BY <1>1, PickedType
<1>4. Sound(s) => Sound(u)
  BY <1>1, PickedSound
<1> HIDE DEF c
<1>5. \A i \in 1..Len(u) : \E k \in 1..Len(s) : ~IsLabel(s[k]) /\ u[i] = s[k]
  BY <1>1, <1>2, <1>3
<1>6. \A k \in 1..Len(s) : ~IsLabel(s[k]) => \E i \in 1..Len(u) : u[i] = s[k]
  BY <1>2, <1>3
<1>7. IdsOf(u) = Lasting(s)
  <2>1. \A i : i \in IdsOf(u) <=> \E k \in 1..Len(u) : u[k].id = i
    BY <1>3, IdsAt
  <2>2. ASSUME NEW i \in IdsOf(u)
        PROVE  i \in Lasting(s)
    <3>1. PICK k \in 1..Len(u) : u[k].id = i
      BY <2>1
    <3>2. PICK j \in 1..Len(s) : ~IsLabel(s[j]) /\ u[k] = s[j]
      BY <1>5
    <3> QED  BY <3>1, <3>2, LastingAt
  <2>3. ASSUME NEW i \in Lasting(s)
        PROVE  i \in IdsOf(u)
    <3>1. PICK j \in 1..Len(s) : ~IsLabel(s[j]) /\ s[j].id = i
      BY LastingAt
    <3>2. PICK k \in 1..Len(u) : u[k] = s[j]
      BY <1>6, <3>1
    <3> QED  BY <2>1, <3>1, <3>2
  <2> QED  BY <2>2, <2>3
<1> QED  BY <1>3, <1>4, <1>5, <1>6, <1>7 DEF u

\* Entries with any ids, before it is known that ids are left.
Numbered ==
    [id : Nat, parent : Nat,
     kind : {"talk", "setup", "label", "unlabel", "compaction", "summary"},
     ref : Ids \cup {NoId}]

\* Entries are numbered entries, and those whose ids are left are entries.
LEMMA NumberedTypes ==
    /\ EntryType \subseteq Numbered
    /\ \A e \in Numbered : e.id \in Ids /\ e.parent \in Ids \cup {NoId} => e \in EntryType
    /\ \A e \in Numbered, n \in Nat :
         LET f == [e EXCEPT !.parent = n]
         IN  f \in Numbered /\ f.id = e.id /\ f.parent = n /\ f.kind = e.kind /\ f.ref = e.ref
<1>1. Ids \subseteq Nat /\ NoId \in Nat
  BY BoundsAssumption DEF Ids, NoId
<1> QED  BY <1>1 DEF EntryType, Numbered

\* Chaining changes the parents only: each entry continues the one before it.
LEMMA ChainedAt ==
    ASSUME NEW s \in Seq(Numbered)
    PROVE  /\ Chained(s) \in Seq(Numbered) /\ Len(Chained(s)) = Len(s)
           /\ \A k \in 1..Len(s) :
                /\ Chained(s)[k].id = s[k].id /\ Chained(s)[k].kind = s[k].kind
                /\ Chained(s)[k].ref = s[k].ref
                /\ Chained(s)[k].parent = IF k = 1 THEN NoId ELSE s[k - 1].id
<1> DEFINE n == Len(s)
           u == Chained(s)
           parent(k) == IF k = 1 THEN NoId ELSE s[k - 1].id
<1>1. n \in Nat /\ DOMAIN s = 1..n /\ \A k \in 1..n : s[k] \in Numbered
  OBVIOUS
<1>2. u = [k \in 1..n |-> [s[k] EXCEPT !.parent = parent(k)]]
  BY <1>1 DEF Chained
<1>3. ASSUME NEW k \in 1..n
      PROVE  parent(k) \in Nat
  <2>1. CASE k = 1
    BY <2>1 DEF NoId
  <2>2. CASE k # 1
    <3>1. k - 1 \in 1..n
      BY <1>1, <2>2
    <3>2. s[k - 1] \in Numbered
      BY <1>1, <3>1
    <3> QED  BY <2>2, <3>2 DEF Numbered
  <2> QED  BY <2>1, <2>2
<1> HIDE DEF n, u
<1>4. ASSUME NEW k \in 1..n
      PROVE  /\ u[k] \in Numbered /\ u[k].id = s[k].id /\ u[k].kind = s[k].kind
             /\ u[k].ref = s[k].ref /\ u[k].parent = parent(k)
  <2>1. u[k] = [s[k] EXCEPT !.parent = parent(k)]
    BY <1>2
  <2>2. parent(k) \in Nat /\ s[k] \in Numbered
    BY <1>1, <1>3
  <2> HIDE DEF parent
  <2> QED  BY <2>1, <2>2, NumberedTypes
<1>5. u \in [1..n -> Numbered]
  <2>1. DOMAIN u = 1..n /\ u = [k \in 1..n |-> u[k]]
    BY <1>2
  <2> QED  BY <1>4, <2>1
<1>6. u \in Seq(Numbered) /\ Len(u) = n
  BY <1>1, <1>5, SequenceOf
<1> QED  BY <1>4, <1>6 DEF u, n

\* A chain of entries in the order of their ids is sound and complete.
LEMMA ChainFits ==
    ASSUME NEW s \in Seq(Numbered), NEW u \in Seq(Numbered), Len(u) = Len(s),
           \A k \in 1..Len(s) :
             u[k].id = s[k].id /\ u[k].parent = IF k = 1 THEN NoId ELSE s[k - 1].id,
           \A k \in 1..Len(s) : s[k].id \in Ids,
           \A i, j \in 1..Len(s) : i < j => s[i].id < s[j].id
    PROVE  u \in Seq(EntryType) /\ Sound(u) /\ Complete(u) /\ IdsOf(u) = IdsOf(s)
<1> DEFINE n == Len(s)
<1>1. n \in Nat /\ DOMAIN u = 1..n /\ DOMAIN s = 1..n
  OBVIOUS
<1>2. Ids \subseteq Nat /\ NoId = 0 /\ \A i \in Ids : 0 < i
  BY BoundsAssumption DEF Ids, NoId
<1>3. \A k \in 1..n : u[k] \in Numbered
  OBVIOUS
<1> HIDE DEF n
<1>4. IdsOf(u) = IdsOf(s)
  <2>1. \A k \in 1..n : u[k].id = s[k].id
    BY DEF n
  <2>2. IdsOf(u) = {u[k].id : k \in 1..n} /\ IdsOf(s) = {s[k].id : k \in 1..n}
    BY <1>1 DEF IdsOf
  <2>3. IdsOf(u) \subseteq IdsOf(s)
    BY <2>1, <2>2
  <2>4. IdsOf(s) \subseteq IdsOf(u)
    BY <2>1, <2>2
  <2> QED  BY <2>3, <2>4
<1>5. ASSUME NEW k \in 1..n
      PROVE  u[k].parent \in IdsOf(u) \cup {NoId} /\ u[k].parent \in Ids \cup {NoId}
             /\ u[k].parent < u[k].id
  <2>1. CASE k = 1
    <3>1. u[k].parent = NoId /\ u[k].id \in Ids
      BY <2>1 DEF n
    <3>2. NoId < u[k].id
      BY <1>2, <3>1
    <3> QED  BY <3>1, <3>2
  <2>2. CASE k # 1
    <3>1. k - 1 \in 1..n /\ k - 1 < k
      BY <1>1, <2>2
    <3>2. u[k].parent = s[k - 1].id /\ u[k].id = s[k].id
      BY <2>2 DEF n
    <3>3. s[k - 1].id < s[k].id /\ s[k - 1].id \in Ids
      BY <3>1 DEF n
    <3>4. s[k - 1].id \in IdsOf(u)
      BY <1>1, <1>4, <3>1 DEF IdsOf
    <3> QED  BY <3>2, <3>3, <3>4
  <2> QED  BY <2>1, <2>2
<1>6. \A k \in 1..n : u[k] \in EntryType
  <2>1. \A k \in 1..n : u[k].id \in Ids
    BY DEF n
  <2> QED  BY <1>3, <1>5, <2>1, NumberedTypes
<1>7. u \in Seq(EntryType) /\ Len(u) = n
  <2>1. Len(u) = n
    BY DEF n
  <2> QED  BY <1>6, <2>1
<1>8. Sound(u)
  <2>1. u \in Seq(Row)
    BY <1>7 DEF Row
  <2>2. \A i, j \in 1..n : i < j => u[i].id < u[j].id
    <3>1. /\ \A k \in 1..n : u[k].id = s[k].id
          /\ \A i, j \in 1..n : i < j => s[i].id < s[j].id
      BY DEF n
    <3> QED  BY <3>1
  <2>3. \A k \in 1..n : u[k].parent < u[k].id
    BY <1>5
  <2> QED  BY <1>7, <2>1, <2>2, <2>3, SoundAt
<1>9. Complete(u)
  BY <1>1, <1>5 DEF Complete
<1> QED  BY <1>4, <1>7, <1>8, <1>9

\* A set of numbers has a smallest one.
LEMMA Smallest ==
    ASSUME NEW S \in SUBSET Nat, S # {}
    PROVE  \E k \in S : \A l \in S : k <= l
<1> DEFINE R == {ss \in Nat \X Nat : ss[1] < ss[2]}
<1>1. IsWellFoundedOn(R, Nat)
  BY NatLessThanWellFounded DEF OpToRel
<1>2. PICK k \in S : \A l \in S : ~(<<l, k>> \in R)
  <2>1. S \subseteq Nat /\ S # {}
    OBVIOUS
  <2> HIDE DEF R
  <2> QED  BY <1>1, <2>1, WFMin
<1>3. ASSUME NEW l \in S
      PROVE  k <= l
  <2>1. ~(l < k) /\ l \in Nat /\ k \in Nat
    BY <1>2
  <2> QED  BY <2>1
<1> QED  BY <1>3

\* What a compaction keeps begins at an id, or nowhere, when the labels are gone.
LEMMA KeptType ==
    ASSUME NEW path \in Seq(EntryType), NEW e \in EntryType
    PROVE  KeptFrom(path, e) \in Ids \cup {NoId}
<1> DEFINE from == At(path, e.ref)
           rest == {k \in from..Len(path) : ~IsLabel(path[k])}
<1>1. e.ref \in Ids \cup {NoId}
  BY DEF EntryType
<1>2. CASE e.ref \notin IdsOf(path) \/ rest = {}
  BY <1>1, <1>2 DEF KeptFrom
<1>3. CASE e.ref \in IdsOf(path) /\ rest # {}
  <2>1. from \in 1..Len(path)
    <3>1. DOMAIN path = 1..Len(path)
      OBVIOUS
    <3>2. \E k \in 1..Len(path) : path[k].id = e.ref
      BY <1>3, IdsAt
    <3> QED  BY <3>1, <3>2 DEF At
  <2>2. Len(path) \in Nat
    OBVIOUS
  <2> DEFINE least == CHOOSE k \in rest : \A l \in rest : k <= l
  <2>3. KeptFrom(path, e) = path[least].id
    BY <1>3 DEF KeptFrom
  <2>4. rest \in SUBSET (1..Len(path))
    <3> HIDE DEF from
    <3>1. from..Len(path) \subseteq 1..Len(path)
      BY <2>1, <2>2
    <3> QED  BY <3>1
  <2> HIDE DEF rest
  <2>5. rest \in SUBSET Nat /\ rest # {}
    BY <1>3, <2>4
  <2>6. \E k \in rest : \A l \in rest : k <= l
    BY <2>5, Smallest
  <2>7. least \in rest
    BY <2>6
  <2>8. least \in 1..Len(path)
    BY <2>4, <2>7
  <2> HIDE DEF least
  <2>9. path[least] \in EntryType
    BY <2>8
  <2> QED  BY <2>3, <2>9 DEF EntryType
<1> QED  BY <1>2, <1>3

\* A compaction of the session.
Compacted(e) == e.kind = "compaction"

\* An entry of a branched session that stands for one of the path it was made from.
StandsFor(path, f, e) ==
    /\ f.id = e.id /\ f.kind = e.kind /\ ~IsLabel(e)
    /\ Compacted(e) => f.ref = KeptFrom(path, e)

\* The branch without its labels.
LEMMA WithoutLabelsFits ==
    ASSUME NEW path \in Seq(EntryType), Sound(path)
    PROVE  /\ WithoutLabels(path) \in Seq(EntryType)
           /\ Sound(WithoutLabels(path)) /\ Complete(WithoutLabels(path))
           /\ IdsOf(WithoutLabels(path)) = Lasting(path)
           /\ \A k \in 1..Len(WithoutLabels(path)) :
                \E j \in 1..Len(path) : StandsFor(path, WithoutLabels(path)[k], path[j])
<1> DEFINE es == NonLabels(path)
           n == Len(es)
           kept(e) == IF e.kind = "compaction" THEN [e EXCEPT !.ref = KeptFrom(path, e)] ELSE e
           s == [k \in DOMAIN es |-> kept(es[k])]
           u == WithoutLabels(path)
<1>2. u = Chained(s)
  BY DEF WithoutLabels
<1>3. es \in Seq(EntryType) /\ Sound(es) /\ IdsOf(es) = Lasting(path)
  BY NonLabelsFit
<1>4. \A k \in 1..n : \E j \in 1..Len(path) : ~IsLabel(path[j]) /\ es[k] = path[j]
  BY NonLabelsFit
<1>5. n \in Nat /\ DOMAIN es = 1..n /\ \A k \in 1..n : es[k] \in EntryType
  BY <1>3
<1>6. \A i, j \in 1..n : i < j => es[i].id < es[j].id
  BY <1>3, SoundAt
<1> HIDE DEF es, n
<1>7. ASSUME NEW e \in EntryType
      PROVE  /\ kept(e) \in EntryType /\ kept(e).id = e.id /\ kept(e).kind = e.kind
             /\ Compacted(e) => kept(e).ref = KeptFrom(path, e)
  <2>1. KeptFrom(path, e) \in Ids \cup {NoId}
    BY KeptType
  <2>2. [e EXCEPT !.ref = KeptFrom(path, e)] \in EntryType
    BY <2>1 DEF EntryType
  <2>3. [e EXCEPT !.ref = KeptFrom(path, e)].id = e.id
        /\ [e EXCEPT !.ref = KeptFrom(path, e)].kind = e.kind
        /\ [e EXCEPT !.ref = KeptFrom(path, e)].ref = KeptFrom(path, e)
    BY DEF EntryType
  <2> QED  BY <2>2, <2>3 DEF Compacted
<1>8. \A k \in 1..n : /\ s[k] \in EntryType /\ s[k].id = es[k].id /\ s[k].kind = es[k].kind
                      /\ Compacted(es[k]) => s[k].ref = KeptFrom(path, es[k])
  <2> HIDE DEF kept
  <2> QED  BY <1>5, <1>7
<1>9. s \in Seq(EntryType) /\ Len(s) = n
  <2>1. s = [k \in 1..n |-> s[k]]
    BY <1>5
  <2> HIDE DEF s
  <2>2. s \in [1..n -> EntryType]
    BY <1>8, <2>1
  <2> QED  BY <1>5, <2>2, SequenceOf
<1> HIDE DEF s, u, kept
<1>10. s \in Seq(Numbered)
  BY <1>9, NumberedTypes
<1>11. /\ u \in Seq(Numbered) /\ Len(u) = n
       /\ \A k \in 1..n : /\ u[k].id = s[k].id /\ u[k].kind = s[k].kind /\ u[k].ref = s[k].ref
                          /\ u[k].parent = IF k = 1 THEN NoId ELSE s[k - 1].id
  BY <1>2, <1>9, <1>10, ChainedAt
<1>12. \A k \in 1..n : s[k].id \in Ids
  BY <1>8 DEF EntryType
<1>13. \A i, j \in 1..n : i < j => s[i].id < s[j].id
  BY <1>6, <1>8
<1>14. u \in Seq(EntryType) /\ Sound(u) /\ Complete(u) /\ IdsOf(u) = IdsOf(s)
  BY <1>9, <1>10, <1>11, <1>12, <1>13, ChainFits
<1>15. IdsOf(s) = IdsOf(es)
  <2>1. DOMAIN s = 1..n
    BY <1>9
  <2> QED  BY <1>5, <1>8, <2>1 DEF IdsOf
<1>16. ASSUME NEW k \in 1..n
       PROVE  \E j \in 1..Len(path) : StandsFor(path, u[k], path[j])
  <2>1. PICK j \in 1..Len(path) : ~IsLabel(path[j]) /\ es[k] = path[j]
    BY <1>4
  <2>2. /\ u[k].id = path[j].id /\ u[k].kind = path[j].kind
        /\ Compacted(path[j]) => u[k].ref = KeptFrom(path, path[j])
    BY <1>8, <1>11, <2>1
  <2>3. StandsFor(path, u[k], path[j])
    BY <2>1, <2>2 DEF StandsFor
  <2> QED  BY <2>3
<1> QED  BY <1>3, <1>11, <1>14, <1>15, <1>16 DEF u

\* Every entry continues the one before it.
Linear(u) == \A k \in 1..Len(u) : u[k].parent = IF k = 1 THEN NoId ELSE u[k - 1].id

\* Entries that go on with those of es, and with labels behind them whose ids are new.
GoesOn(es, u, n) ==
    /\ Len(es) <= Len(u)
    /\ \A k \in 1..Len(es) :
         u[k].id = es[k].id /\ u[k].kind = es[k].kind /\ u[k].ref = es[k].ref
    /\ \A k \in 1..Len(u) : k \notin 1..Len(es) => IsLabel(u[k]) /\ n <= u[k].id

\* The labels that are hung on again: as many new entries, with the next ids.
LEMMA RelabelledFits ==
    ASSUME next \in Nat \ {0}, NEW es \in Seq(EntryType), Sound(es),
           \A k \in 1..Len(es) : ~IsLabel(es[k]),
           IdsOf(es) \subseteq 0..(next - 1), NEW targets \in Seq(EntryType), NEW u,
           u = Relabelled(es, targets), NEW c, c = Cardinality({k \in DOMAIN u : IsLabel(u[k])}),
           next + c <= MaxId + 1
    PROVE  /\ c \in Nat /\ u \in Seq(EntryType) /\ Sound(u) /\ Complete(u)
           /\ IdsOf(u) \subseteq 0..(next + c - 1) /\ Linear(u) /\ GoesOn(es, u, next)
<1> DEFINE t == Len(targets)
           m == Len(es)
           fresh == [k \in 1..t |-> Line(next + k - 1, NoId, "label", targets[k].id)]
           s == es \o fresh
<1>1. /\ t \in Nat /\ m \in Nat /\ DOMAIN targets = 1..t /\ DOMAIN es = 1..m
      /\ \A k \in 1..t : targets[k] \in EntryType
      /\ \A k \in 1..m : es[k] \in EntryType
  OBVIOUS
<1>2. MaxId \in Nat /\ next \in Nat \ {0} /\ Ids \subseteq Nat /\ \A i \in Nat \ {0} : i <= MaxId => i \in Ids
  BY BoundsAssumption DEF Ids
<1>3. u = Chained(s)
  BY <1>1 DEF Relabelled
<1>4. ASSUME NEW k \in 1..t
      PROVE  /\ fresh[k] \in Numbered /\ fresh[k].id = next + k - 1 /\ IsLabel(fresh[k])
  <2>1. fresh[k] = Line(next + k - 1, NoId, "label", targets[k].id)
    OBVIOUS
  <2>2. targets[k].id \in Ids
    BY <1>1 DEF EntryType
  <2>3. next + k - 1 \in Nat
    BY <1>1, <1>2
  <2> QED  BY <2>1, <2>2, <2>3 DEF Numbered, Line, IsLabel, NoId
<1>5. fresh \in Seq(Numbered) /\ Len(fresh) = t
  <2>1. fresh = [k \in 1..t |-> fresh[k]]
    OBVIOUS
  <2> HIDE DEF fresh, t
  <2>2. fresh \in [1..t -> Numbered]
    BY <1>4, <2>1
  <2> QED  BY <1>1, <2>2, SequenceOf
<1>6. es \in Seq(Numbered)
  BY NumberedTypes
<1> HIDE DEF fresh, t
<1>7. /\ s \in Seq(Numbered) /\ Len(s) = m + t
      /\ \A k \in 1..m : s[k] = es[k]
      /\ \A k \in 1..t : s[m + k] = fresh[k]
  <2>1. /\ Len(es \o fresh) = Len(es) + Len(fresh) /\ es \o fresh \in Seq(Numbered)
        /\ \A k \in 1..Len(es) : (es \o fresh)[k] = es[k]
        /\ \A k \in 1..Len(fresh) : (es \o fresh)[Len(es) + k] = fresh[k]
    <3>1. \A x, y \in Seq(Numbered) :
            /\ Len(x \o y) = Len(x) + Len(y) /\ x \o y \in Seq(Numbered)
            /\ \A k \in 1..Len(x) : (x \o y)[k] = x[k]
            /\ \A k \in 1..Len(y) : (x \o y)[Len(x) + k] = y[k]
      BY JoinAt
    <3> HIDE DEF m, s
    <3> QED  BY <1>5, <1>6, <3>1
  <2> QED  BY <1>5, <2>1
<1> HIDE DEF m, s
<1>8. /\ u \in Seq(Numbered) /\ Len(u) = m + t
      /\ \A k \in 1..(m + t) :
           /\ u[k].id = s[k].id /\ u[k].kind = s[k].kind /\ u[k].ref = s[k].ref
           /\ u[k].parent = IF k = 1 THEN NoId ELSE s[k - 1].id
  BY <1>3, <1>7, ChainedAt
<1>9. ASSUME NEW k \in 1..(m + t), k \notin 1..m
      PROVE  k - m \in 1..t /\ s[k] = fresh[k - m] /\ s[k].id = next + (k - m) - 1
  <2>1. k - m \in 1..t /\ m + (k - m) = k
    BY <1>1, <1>9
  <2>2. s[k] = fresh[k - m]
    BY <1>7, <2>1
  <2> QED  BY <1>4, <2>1, <2>2
<1>10. {k \in DOMAIN u : IsLabel(u[k])} = (m + 1)..(m + t)
  <2>1. DOMAIN u = 1..(m + t)
    BY <1>8
  <2>2. \A k \in 1..m : k \in 1..(m + t) /\ ~IsLabel(s[k])
    BY <1>1, <1>7 DEF m
  <2>3. \A k \in 1..(m + t) : k \notin 1..m => IsLabel(s[k])
    BY <1>4, <1>9
  <2>4. \A k \in 1..(m + t) : IsLabel(u[k]) <=> IsLabel(s[k])
    BY <1>8 DEF IsLabel
  <2>5. \A k : k \in (m + 1)..(m + t) <=> k \in 1..(m + t) /\ k \notin 1..m
    BY <1>1
  <2> QED  BY <2>1, <2>2, <2>3, <2>4, <2>5
<1>11. c = t
  <2>1. Cardinality((m + 1)..(m + t)) = t
    <3> DEFINE a == m + 1
               b == m + t
    <3>1. a \in Int /\ b \in Int
      BY <1>1
    <3>2. b - a + 1 = t /\ (a > b => t = 0)
      BY <1>1
    <3> HIDE DEF a, b
    <3>3. Cardinality(a..b) = IF a > b THEN 0 ELSE b - a + 1
      BY <3>1, FS_Interval
    <3>4. Cardinality(a..b) = t
      BY <3>2, <3>3
    <3> QED  BY <3>4 DEF a, b
  <2> QED  BY <1>10, <2>1
<1>12. \A k \in 1..m : s[k].id \in IdsOf(es) /\ s[k].id \in Ids
  <2>1. \A k \in 1..m : es[k].id \in IdsOf(es)
    BY IdsAt DEF m
  <2> QED  BY <1>1, <1>7, <2>1 DEF EntryType
<1>13. ASSUME NEW k \in 1..(m + t)
       PROVE  s[k].id \in Ids /\ s[k].id \in 0..(next + t - 1) /\ (k \in 1..m => s[k].id < next)
  <2>1. CASE k \in 1..m
    <3>1. s[k].id \in 0..(next - 1)
      BY <1>12, <2>1
    <3> QED  BY <1>1, <1>2, <1>12, <2>1, <3>1
  <2>2. CASE k \notin 1..m
    <3>1. k - m \in 1..t /\ s[k].id = next + (k - m) - 1
      BY <1>9, <2>2
    <3> DEFINE d == k - m
    <3>2. d \in 1..t /\ s[k].id = next + d - 1
      BY <3>1
    <3> HIDE DEF d
    <3>3. next + d - 1 \in Nat \ {0} /\ next + d - 1 <= MaxId /\ next + d - 1 \in 0..(next + t - 1)
      BY <1>1, <1>2, <1>11, <3>2
    <3> QED  BY <1>2, <2>2, <3>2, <3>3
  <2> QED  BY <2>1, <2>2
<1>14. ASSUME NEW i \in 1..(m + t), NEW j \in 1..(m + t), i < j
       PROVE  s[i].id < s[j].id
  <2>1. CASE j \in 1..m
    <3>1. i \in 1..m
      BY <1>1, <1>14, <2>1
    <3>2. es[i].id < es[j].id
      BY <1>14, <2>1, <3>1, SoundAt DEF m
    <3> QED  BY <1>7, <2>1, <3>1, <3>2
  <2>2. CASE j \notin 1..m /\ i \in 1..m
    <3>1. s[j].id = next + (j - m) - 1 /\ j - m \in 1..t
      BY <1>9, <2>2
    <3>2. s[i].id < next /\ s[i].id \in Nat
      BY <1>2, <1>13, <2>2
    <3> DEFINE d == j - m
    <3>3. d \in 1..t /\ s[j].id = next + d - 1
      BY <3>1
    <3> HIDE DEF d
    <3>4. next <= next + d - 1
      BY <1>1, <1>2, <3>3
    <3> QED  BY <1>1, <1>2, <3>2, <3>3, <3>4
  <2>3. CASE j \notin 1..m /\ i \notin 1..m
    <3>1. s[i].id = next + (i - m) - 1 /\ s[j].id = next + (j - m) - 1
      BY <1>9, <2>3
    <3>2. next + (i - m) - 1 < next + (j - m) - 1
      BY <1>1, <1>2, <1>14
    <3> QED  BY <3>1, <3>2
  <2> QED  BY <2>1, <2>2, <2>3
<1>15. u \in Seq(EntryType) /\ Sound(u) /\ Complete(u) /\ IdsOf(u) = IdsOf(s)
  BY <1>7, <1>8, <1>13, <1>14, ChainFits
<1>16. IdsOf(s) \subseteq 0..(next + c - 1)
  <2>1. \A x \in IdsOf(s) : \E k \in 1..(m + t) : s[k].id = x
    BY <1>7, IdsAt
  <2> QED  BY <1>11, <1>13, <2>1
<1>17. Linear(u)
  <2>1. ASSUME NEW k \in 1..(m + t)
        PROVE  u[k].parent = IF k = 1 THEN NoId ELSE u[k - 1].id
    <3>1. k # 1 => k - 1 \in 1..(m + t)
      BY <1>1
    <3>2. k # 1 => u[k - 1].id = s[k - 1].id
      BY <1>8, <3>1
    <3> QED  BY <1>8, <3>2
  <2> QED  BY <1>8, <2>1 DEF Linear
<1>18. m <= Len(u) /\ \A k \in 1..m : k \in 1..(m + t)
  BY <1>1, <1>8
<1>19. \A k \in 1..m : u[k].id = es[k].id /\ u[k].kind = es[k].kind /\ u[k].ref = es[k].ref
  BY <1>7, <1>8, <1>18
<1>20. ASSUME NEW k \in 1..(m + t), k \notin 1..m
       PROVE  IsLabel(u[k]) /\ next <= u[k].id
  <2>1. k - m \in 1..t /\ s[k] = fresh[k - m] /\ s[k].id = next + (k - m) - 1
    BY <1>9, <1>20
  <2>2. IsLabel(s[k])
    BY <1>4, <2>1
  <2>3. IsLabel(u[k]) /\ u[k].id = s[k].id
    BY <1>8, <2>2 DEF IsLabel
  <2> DEFINE d == k - m
  <2>4. d \in 1..t /\ u[k].id = next + d - 1
    BY <2>1, <2>3
  <2> HIDE DEF d
  <2>5. next <= next + d - 1
    BY <1>1, <1>2, <2>4
  <2> QED  BY <2>3, <2>4, <2>5
<1>21. \A k \in 1..Len(u) : k \notin 1..m => IsLabel(u[k]) /\ next <= u[k].id
  BY <1>8, <1>20
<1>22. GoesOn(es, u, next)
  BY <1>18, <1>19, <1>21 DEF GoesOn, m
<1> QED  BY <1>1, <1>11, <1>15, <1>16, <1>17, <1>22

\* What is labelled is picked from the path.
LEMMA LabelledType ==
    ASSUME NEW es, NEW path \in Seq(EntryType)
    PROVE  LabelledIn(es, path) \in Seq(EntryType)
<1> DEFINE labels(e) == {k \in DOMAIN es : IsLabel(es[k]) /\ es[k].ref = e.id}
           labelled(e) == /\ labels(e) # {}
                          /\ es[CHOOSE k \in labels(e) : \A l \in labels(e) : l <= k].kind = "label"
           P == {k \in DOMAIN path : labelled(path[k])}
<1>1. LabelledIn(es, path) = Picked(path, P)
  BY DEF LabelledIn
<1> HIDE DEF labelled
<1>2. P \in SUBSET (1..Len(path))
  OBVIOUS
<1> HIDE DEF P
<1>3. Picked(path, P) \in Seq(EntryType)
  BY <1>2, PickedType
<1> QED  BY <1>1, <1>3

\* A session made from a path: its entries but the labels stand for those of the path,
\* the labels follow them.
Branched(path, u) ==
    /\ Linear(u) /\ Lasting(u) = Lasting(path)
    /\ \A k \in 1..Len(u) :
         ~IsLabel(u[k]) => \E j \in 1..Len(path) : StandsFor(path, u[k], path[j])
    /\ \A j, k \in 1..Len(u) : IsLabel(u[k]) /\ ~IsLabel(u[j]) => u[j].id < u[k].id

\* What is kept of a path, with labels behind, is a session made from it.
LEMMA BranchedFrom ==
    ASSUME NEW path \in Seq(EntryType), NEW es \in Seq(EntryType), NEW u \in Seq(EntryType),
           NEW n \in Nat, IdsOf(es) = Lasting(path), IdsOf(es) \subseteq 0..(n - 1),
           \A k \in 1..Len(es) : \E j \in 1..Len(path) : StandsFor(path, es[k], path[j]),
           Linear(u), GoesOn(es, u, n)
    PROVE  Branched(path, u)
<1> USE DEF GoesOn
<1>1. Len(es) \in Nat /\ Len(u) \in Nat /\ \A k \in 1..Len(es) : k \in 1..Len(u)
  OBVIOUS
<1>2. ASSUME NEW k \in 1..Len(es)
      PROVE  ~IsLabel(u[k]) /\ \E j \in 1..Len(path) : StandsFor(path, u[k], path[j])
  <2>1. PICK j \in 1..Len(path) : StandsFor(path, es[k], path[j])
    OBVIOUS
  <2>2. u[k].id = es[k].id /\ u[k].kind = es[k].kind /\ u[k].ref = es[k].ref
    OBVIOUS
  <2>3. StandsFor(path, u[k], path[j]) /\ ~IsLabel(u[k])
    BY <2>1, <2>2 DEF StandsFor, IsLabel
  <2> QED  BY <2>3
<1>3. \A k \in 1..Len(u) : ~IsLabel(u[k]) <=> k \in 1..Len(es)
  BY <1>2
<1>4. \A i : i \in Lasting(u) <=> i \in IdsOf(es)
  <2>1. \A i : i \in IdsOf(es) <=> \E k \in 1..Len(es) : es[k].id = i
    BY IdsAt
  <2>2. \A i : i \in Lasting(u) <=> \E k \in 1..Len(u) : ~IsLabel(u[k]) /\ u[k].id = i
    BY LastingAt
  <2>3. ASSUME NEW i \in Lasting(u)
        PROVE  i \in IdsOf(es)
    <3>1. PICK k \in 1..Len(u) : ~IsLabel(u[k]) /\ u[k].id = i
      BY <2>2
    <3>2. k \in 1..Len(es)
      BY <1>3, <3>1
    <3>3. es[k].id = i
      BY <3>1, <3>2
    <3> QED  BY <2>1, <3>2, <3>3
  <2>4. ASSUME NEW i \in IdsOf(es)
        PROVE  i \in Lasting(u)
    <3>1. PICK k \in 1..Len(es) : es[k].id = i
      BY <2>1
    <3>2. k \in 1..Len(u) /\ ~IsLabel(u[k]) /\ u[k].id = i
      BY <1>1, <1>2, <3>1
    <3> QED  BY <2>2, <3>2
  <2> QED  BY <2>3, <2>4
<1>5. Lasting(u) = Lasting(path)
  BY <1>4
<1>6. \A k \in 1..Len(u) :
        ~IsLabel(u[k]) => \E j \in 1..Len(path) : StandsFor(path, u[k], path[j])
  BY <1>2, <1>3
<1>7. ASSUME NEW j \in 1..Len(u), NEW k \in 1..Len(u), IsLabel(u[k]), ~IsLabel(u[j])
      PROVE  u[j].id < u[k].id
  <2>1. n <= u[k].id
    BY <1>3, <1>7
  <2>2. j \in 1..Len(es)
    BY <1>3, <1>7
  <2>3. u[j].id \in IdsOf(es)
    <3>1. es[j].id \in IdsOf(es)
      BY <2>2, IdsAt
    <3> QED  BY <2>2, <3>1
  <2>4. u[j].id \in 0..(n - 1)
    BY <2>3
  <2>5. u[k].id \in Nat
    <3>1. u[k] \in EntryType
      OBVIOUS
    <3> QED  BY <3>1, RowTypes DEF Row
  <2> QED  BY <2>1, <2>4, <2>5
<1> QED  BY <1>5, <1>6, <1>7 DEF Branched

\* A branch that becomes a session: its ids are old ones, and new ones for its labels.
LEMMA BranchedFits ==
    ASSUME IInv, running, NEW leaf \in IdsOf(memory.entries),
           NEW u, u = BranchedSession(leaf),
           NEW c, c = Cardinality({k \in DOMAIN u : IsLabel(u[k])}), next + c <= MaxId + 1
    PROVE  /\ c \in Nat /\ u \in Seq(EntryType) /\ Sound(u) /\ Complete(u)
           /\ IdsOf(u) \subseteq 0..(next + c - 1)
           /\ Branched(BranchTo(memory.entries, leaf), u)
<1> DEFINE path == BranchTo(memory.entries, leaf)
           es == WithoutLabels(path)
           targets == LabelledIn(memory.entries, es)
<1>1. memory.entries \in Seq(EntryType) /\ next \in Nat /\ next \in Nat \ {0}
  BY AtHand, BoundsAssumption DEF IInv, Types
<1>2. Sound(memory.entries) /\ IdsOf(memory.entries) \subseteq 0..(next - 1)
  BY DEF IInv, MemoryFits, EntriesFitIn
<1>3. /\ path \in Seq(EntryType) /\ Sound(path)
      /\ \A i \in 1..Len(path) : \E j \in 1..Len(memory.entries) : path[i] = memory.entries[j]
  BY <1>1, <1>2, BranchFits DEF PathFits
<1>4. IdsOf(path) \subseteq 0..(next - 1)
  <2> HIDE DEF path
  <2>1. \A x \in IdsOf(path) : \E i \in 1..Len(path) : path[i].id = x
    BY <1>3, IdsAt
  <2>2. \A j \in 1..Len(memory.entries) : memory.entries[j].id \in IdsOf(memory.entries)
    BY <1>1, IdsAt
  <2> QED  BY <1>2, <1>3, <2>1, <2>2
<1>5. u = Relabelled(es, targets)
  BY DEF BranchedSession
<1> HIDE DEF path
<1>6. /\ es \in Seq(EntryType) /\ Sound(es) /\ IdsOf(es) = Lasting(path)
      /\ \A k \in 1..Len(es) : \E j \in 1..Len(path) : StandsFor(path, es[k], path[j])
  BY <1>3, WithoutLabelsFits
<1> HIDE DEF es
<1>7. targets \in Seq(EntryType)
  BY <1>6, LabelledType
<1> HIDE DEF targets
<1>8. IdsOf(es) \subseteq 0..(next - 1)
  <2>1. ASSUME NEW i \in Lasting(path)
        PROVE  i \in IdsOf(path)
    <3>1. PICK k \in 1..Len(path) : path[k].id = i
      BY LastingAt
    <3> QED  BY <1>3, <3>1, IdsAt
  <2> QED  BY <1>4, <1>6, <2>1
<1>9. PICK p \in Seq(EntryType) : p = path
  BY <1>3
<1>10. PICK old \in Seq(EntryType) : old = es
  BY <1>6
<1>11. PICK again \in Seq(EntryType) : again = targets
  BY <1>7
<1>12. PICK n \in Nat : n = next
  BY <1>1
<1>13. /\ Sound(old) /\ IdsOf(old) \subseteq 0..(n - 1) /\ IdsOf(old) = Lasting(p)
       /\ \A k \in 1..Len(old) : \E j \in 1..Len(p) : StandsFor(p, old[k], p[j])
  BY <1>6, <1>8, <1>9, <1>10, <1>12
<1>14. \A k \in 1..Len(old) : ~IsLabel(old[k])
  BY <1>13 DEF StandsFor, IsLabel
<1>15. u = Relabelled(old, again)
  BY <1>5, <1>10, <1>11
<1>16. IdsOf(old) \subseteq 0..(next - 1)
  BY <1>12, <1>13
<1>17. /\ c \in Nat /\ u \in Seq(EntryType) /\ Sound(u) /\ Complete(u)
       /\ IdsOf(u) \subseteq 0..(next + c - 1) /\ Linear(u) /\ GoesOn(old, u, next)
  <2>1. Sound(old) /\ next \in Nat \ {0}
    BY <1>1, <1>13
  <2> QED  BY <1>14, <1>15, <1>16, <2>1, RelabelledFits
<1>18. GoesOn(old, u, n)
  BY <1>12, <1>17
<1>19. Branched(p, u)
  BY <1>13, <1>17, <1>18, BranchedFrom
<1>20. Branched(BranchTo(memory.entries, leaf), u)
  BY <1>9, <1>19 DEF path
<1> QED  BY <1>17, <1>20

\* A branch that becomes a session of its own (createBranchedSession).
LEMMA CreateKeeps ==
    ASSUME IInv, NEW leaf, CreateBranchedSession(leaf)
    PROVE  IInv'
<1>1. running /\ io = NoWrite /\ io.mode = "none" /\ io.opened = FALSE /\ io.todo = <<>>
  BY DEF CreateBranchedSession, Idle, NoWrite
<1>2. PICK es : es = BranchedSession(leaf)
  OBVIOUS
<1>3. PICK c : c = Cardinality({k \in DOMAIN es : IsLabel(es[k])})
  OBVIOUS
<1>4. PICK f \in Files :
        /\ Unused(f) /\ next + c <= MaxId + 1 /\ next' = next + c
        /\ memory' = [entries |-> es, leaf |-> LeafOf(es), file |-> f,
                      flushed |-> IF HasConversation(es) THEN memory.flushed ELSE FALSE]
        /\ IF HasConversation(es) THEN Write("fork", <<Header>> \o es, FALSE) ELSE UNCHANGED io
  BY <1>2, <1>3 DEF CreateBranchedSession
<1>5. /\ leaf \in IdsOf(memory.entries) /\ disk' = disk /\ running' = running /\ acked' = acked
      /\ crashes' = crashes /\ errors' = errors /\ atRisk' = atRisk /\ ~disk[f].made
  BY <1>4 DEF CreateBranchedSession, faults, Unused
<1>6. /\ c \in Nat /\ es \in Seq(EntryType) /\ Sound(es) /\ Complete(es)
      /\ IdsOf(es) \subseteq 0..(next + c - 1)
  BY <1>1, <1>2, <1>3, <1>4, <1>5, BranchedFits
<1>7. /\ next \in Nat \ {0} /\ next <= next' /\ next' \in 1..(MaxId + 1) /\ MaxId \in Nat
      /\ next' \in Nat /\ next' - 1 = next + c - 1
  BY <1>4, <1>6, BoundsAssumption DEF IInv, Types
<1>8. LeafOf(es) \in IdsOf(es) \cup {NoId} /\ LeafOf(es) \in Ids \cup {NoId}
  BY <1>6, LeafFits
<1>9. /\ memory' \in MemoryType /\ memory'.entries = es /\ memory'.leaf = LeafOf(es) /\ memory'.file = f
      /\ ~HasConversation(es) => memory'.flushed = FALSE
  <2>1. memory.flushed \in BOOLEAN
    BY DEF IInv, Types, MemoryType
  <2>2. (IF HasConversation(es) THEN memory.flushed ELSE FALSE) \in BOOLEAN
    BY <2>1
  <2> QED  BY <1>4, <1>6, <1>8, <2>2 DEF MemoryType
<1>10. /\ <<Header>> \o es \in Seq(Row) /\ <<Header>> \o es # <<>> /\ Sound(<<Header>> \o es)
       /\ IdsOf(<<Header>> \o es) = IdsOf(es) \cup {NoId}
  BY <1>6, HeaderFirst
<1>11. /\ io' \in WriteType /\ io'.opened = FALSE /\ io'.mode \in {"none", "fork"}
       /\ io'.mode = "none" => io' = NoWrite /\ memory'.flushed = FALSE
       /\ io'.mode = "fork" => io'.todo = <<Header>> \o es
  <2>1. CASE HasConversation(es)
    <3>1. io' = [mode |-> "fork", todo |-> <<Header>> \o es, opened |-> FALSE]
      BY <1>4, <2>1 DEF Write
    <3> QED  BY <1>10, <3>1 DEF WriteType, Modes
  <2>2. CASE ~HasConversation(es)
    <3>1. io' = io
      BY <1>4, <2>2
    <3> QED  BY <1>1, <1>9, <2>2, <3>1 DEF IInv, Types
  <2> QED  BY <2>1, <2>2
<1>12. Types'
  <2>1. acked \subseteq 1..(next - 1)
    BY DEF IInv, Types
  <2>2. PICK m \in Nat : m = next'
    BY <1>7
  <2>3. 1..(next - 1) \subseteq 1..(m - 1)
    <3>1. next \in Nat /\ next <= m
      BY <1>7, <2>2
    <3> QED  BY <3>1
  <2>4. acked' \subseteq 1..(next' - 1)
    BY <1>5, <2>1, <2>2, <2>3
  <2> QED  BY <1>5, <1>7, <1>9, <1>11, <2>4 DEF IInv, Types
<1>13. FilesFit'
  <2>1. Types /\ FilesFit /\ errors <= errors'
    BY <1>5 DEF IInv, Types
  <2> QED  BY <1>5, <1>7, <1>12, <2>1, FilesStep
<1>14. IdsOf(es) \subseteq 0..(next' - 1)
  BY <1>6, <1>7
<1>15. MemoryFits'
  <2>1. EntriesFitIn(es, next', errors' = 0)
    BY <1>6, <1>14 DEF EntriesFitIn
  <2> QED  BY <1>1, <1>5, <1>8, <1>9, <2>1 DEF MemoryFits
<1>16. WriteFits'
  <2>1. CASE io'.mode = "none"
    BY <1>11, <2>1 DEF WriteFits, Modes
  <2>2. CASE io'.mode = "fork"
    <3>1. Whole' = <<Header>> \o es
      <4>1. Done' = <<>>
        BY <1>11, <2>2 DEF Done
      <4>2. <<>> \o (<<Header>> \o es) = <<Header>> \o es
        BY <1>10, JoinEmpty
      <4> QED  BY <1>11, <2>2, <4>1, <4>2 DEF Whole
    <3>2. IdsOf(<<Header>> \o es) \subseteq 0..(next' - 1)
      BY <1>7, <1>10, <1>14 DEF NoId
    <3>3. ~disk'[f].made
      BY <1>5
    <3> QED  BY <1>9, <1>10, <1>11, <2>2, <3>1, <3>2, <3>3 DEF WriteFits
  <2> QED  BY <1>11, <2>1, <2>2
<1>17. ~Continues' /\ ~Torn'
  BY <1>11 DEF Continues, Torn
<1>18. MirrorFits'
  BY <1>17 DEF MirrorFits
<1>19. LossFits'
  <2>1. acked' \ Held' \subseteq acked \ Held
    BY <1>1, <1>5, <1>11 DEF Held, OnDisk
  <2>2. Types /\ LossFits /\ errors <= errors'
    BY <1>5 DEF IInv, Types
  <2> QED  BY <1>5, <1>12, <1>17, <2>1, <2>2, LossStep
<1> QED  BY <1>12, <1>13, <1>15, <1>16, <1>18, <1>19 DEF IInv

-------------------------------------------------------------------------------
(* The invariant holds. *)

\* A file at the beginning: none, or one that an earlier process has left.
LEMMA EarlierFits ==
    ASSUME NEW file, file = NoFile \/ file \in Earlier
    PROVE  /\ file \in FileType /\ FileFits(file, FirstId, TRUE)
           /\ IdsOf(EntriesIn(file)) \subseteq 1..(FirstId - 1)
<1>1. FirstId \in Nat \ {0}
  BY BoundsAssumption
<1>2. CASE file = NoFile
  <2>1. file \in FileType /\ file.lines = <<>> /\ ~file.open
    <3>1. <<>> \in Seq(LineType)
      OBVIOUS
    <3> QED  BY <1>2, <3>1 DEF NoFile, FileType
  <2>2. Parsed(file) = <<>>
    <3>1. file.lines \in Seq(LineType)
      BY <2>1 DEF FileType
    <3> QED  BY <2>1, <3>1, ParsedType
  <2>3. EntriesIn(file) = <<>>
    BY <2>2, NothingFits DEF EntriesIn
  <2> QED  BY <2>1, <2>2, <2>3, NothingFits DEF FileFits
<1>3. CASE file \in Earlier
  <2>1. /\ file \in FileType /\ file.made
        /\ file.open => file.lines # <<>>
        /\ Sound(Parsed(file)) /\ IdsOf(Parsed(file)) \subseteq 0..(FirstId - 1)
        /\ Complete(EntriesIn(file))
    BY <1>3, EarlierAssumption
  <2>2. FileFits(file, FirstId, TRUE)
    BY <2>1 DEF FileFits
  <2>3. /\ EntriesIn(file) \in Seq(EntryType)
        /\ IdsOf(EntriesIn(file)) \subseteq IdsOf(Parsed(file))
    BY <2>1, EntriesFit DEF EntriesIn
  <2>4. IdsOf(EntriesIn(file)) \subseteq Ids
    BY <2>3, IdsInIds
  <2>5. IdsOf(EntriesIn(file)) \subseteq 1..(FirstId - 1)
    <3>1. \A i \in IdsOf(EntriesIn(file)) : i \in 0..(FirstId - 1) /\ i \in Nat /\ i # 0
      BY <2>1, <2>3, <2>4, RowTypes DEF NoId
    <3> QED  BY <1>1, <3>1
  <2> QED  BY <2>1, <2>2, <2>5
<1> QED  BY <1>2, <1>3

\* The invariant holds at first.
LEMMA InitFits == Init => IInv
<1> SUFFICES ASSUME Init  PROVE IInv
  OBVIOUS
<1>1. /\ running = FALSE /\ memory = NoSession /\ io = NoWrite /\ next = FirstId
      /\ crashes = 0 /\ errors = 0 /\ atRisk = FALSE /\ acked = OnDisk
  BY DEF Init, OnDisk
<1>2. /\ disk = [f \in Files |-> disk[f]]
      /\ \A f \in Files : disk[f] = NoFile \/ disk[f] \in Earlier
  <2>1. CASE disk = [f \in Files |-> NoFile]
    BY <2>1
  <2>2. ASSUME NEW g \in Files, NEW file \in Earlier, disk = [[f \in Files |-> NoFile] EXCEPT ![g] = file]
        PROVE  /\ disk = [f \in Files |-> disk[f]]
               /\ \A f \in Files : disk[f] = NoFile \/ disk[f] \in Earlier
    BY <2>2
  <2> QED  BY <2>1, <2>2 DEF Init
<1>3. \A f \in Files : /\ disk[f] \in FileType /\ FileFits(disk[f], FirstId, TRUE)
                       /\ IdsOf(EntriesIn(disk[f])) \subseteq 1..(FirstId - 1)
  BY <1>2, EarlierFits
<1>4. acked \subseteq 1..(next - 1)
  BY <1>1, <1>3 DEF OnDisk
<1>5. FirstId \in 1..(MaxId + 1)
  BY BoundsAssumption
<1>6. /\ memory.entries = <<>> /\ memory.leaf = NoId /\ memory.file = NoPath
      /\ memory.flushed = FALSE /\ memory \in MemoryType
  <2>1. <<>> \in Seq(EntryType)
    OBVIOUS
  <2> QED  BY <1>1, <2>1 DEF NoSession, EmptySession, MemoryType
<1>7. io \in WriteType /\ io.mode = "none"
  BY <1>1 DEF NoWrite, WriteType
<1>8. Types
  BY <1>1, <1>2, <1>3, <1>4, <1>5, <1>6, <1>7 DEF Types
<1>9. FilesFit
  BY <1>1, <1>3 DEF FilesFit
<1>10. MemoryFits
  <2>1. EntriesFitIn(memory.entries, next, errors = 0)
    BY <1>6, NothingFits DEF EntriesFitIn
  <2> QED  BY <1>1, <1>6, <2>1 DEF MemoryFits
<1>11. WriteFits
  BY <1>1, <1>7 DEF WriteFits, Modes
<1>12. ~Continues /\ ~Torn
  BY <1>1 DEF Continues, Torn
<1>13. MirrorFits
  BY <1>12 DEF MirrorFits
<1>14. LossFits
  <2>1. acked \ Held = {}
    BY <1>1 DEF Held
  <2>2. Cardinality(acked \ Held) = 0
    BY <2>1, FS_EmptySet
  <2> QED  BY <1>1, <1>12, <2>2 DEF LossFits
<1> QED  BY <1>8, <1>9, <1>10, <1>11, <1>13, <1>14 DEF IInv

\* Continuing or beginning a session, by a process that holds none.
LEMMA RecentKeeps ==
    ASSUME IInv, ContinueRecent
    PROVE  IInv'
<1>1. ~running /\ io = NoWrite
  BY DEF ContinueRecent, IInv, MemoryFits
<1>2. CASE \E f \in Files : Load(f)
  BY <1>1, <1>2, LoadKeeps
<1>3. CASE /\ \E f \in Files : Unused(f) /\ StartNew(f)
           /\ UNCHANGED <<disk, io, acked, next, faults>>
  <2>1. PICK f \in Files : StartNew(f)
    BY <1>3
  <2>2. UNCHANGED <<disk, acked, next, faults>> /\ io' = NoWrite
    BY <1>1, <1>3
  <2> QED  BY <1>1, <2>1, <2>2, BeginKeeps
<1> QED  BY <1>2, <1>3 DEF ContinueRecent

\* Beginning a session in a new file, or in one that is given.
LEMMA BeginsKeep ==
    ASSUME IInv, NewSession \/ \E f \in Files : OpenEmpty(f)
    PROVE  IInv'
<1>1. CASE NewSession
  <2>1. PICK f \in Files : StartNew(f)
    BY <1>1 DEF NewSession
  <2>2. UNCHANGED <<disk, acked, next, faults>> /\ io' = NoWrite /\ io = NoWrite
    BY <1>1 DEF NewSession, Idle
  <2> QED  BY <2>1, <2>2, BeginKeeps
<1>2. ASSUME NEW f \in Files, OpenEmpty(f)
      PROVE  IInv'
  <2>1. StartNew(f) /\ UNCHANGED <<disk, acked, next, faults>> /\ io = NoWrite
    BY <1>2 DEF OpenEmpty, IInv, MemoryFits
  <2>2. \/ io' = NoWrite
        \/ io' = [mode |-> "adopt", todo |-> <<Header>>, opened |-> FALSE] /\ disk[f].lines = <<>>
    BY <1>2, <2>1 DEF OpenEmpty, Write
  <2> QED  BY <2>1, <2>2, BeginKeeps
<1> QED  BY <1>1, <1>2

\* The entries that are appended.
LEMMA AppendsKeep ==
    ASSUME IInv,
           \/ \E kind \in Kinds : AppendPlain(kind)
           \/ \E kind \in Kinds, id \in Ids : AppendLabelChange(kind, id)
           \/ \E id \in Ids : AppendCompaction(id)
           \/ \E id \in Ids \cup {NoId} : BranchWithSummary(id)
    PROVE  IInv'
<1>1. memory.leaf \in IdsOf(memory.entries) \cup {NoId}
  BY DEF IInv, MemoryFits
<1>2. ASSUME NEW kind \in Kinds, AppendPlain(kind)
      PROVE  IInv'
  <2>1. Idle /\ AppendEntry(kind, memory.leaf, NoId) /\ kind \in {"talk", "setup"}
    BY <1>2 DEF AppendPlain
  <2> QED  BY <1>1, <2>1, AppendKeeps
<1>3. ASSUME NEW kind \in Kinds, NEW id \in Ids, AppendLabelChange(kind, id)
      PROVE  IInv'
  <2>1. Idle /\ AppendEntry(kind, memory.leaf, id) /\ kind \in {"label", "unlabel"}
    BY <1>3 DEF AppendLabelChange
  <2> QED  BY <1>1, <2>1, AppendKeeps
<1>4. ASSUME NEW id \in Ids, AppendCompaction(id)
      PROVE  IInv'
  <2>1. Idle /\ AppendEntry("compaction", memory.leaf, id)
    BY <1>4 DEF AppendCompaction
  <2> QED  BY <1>1, <2>1, AppendKeeps
<1>5. ASSUME NEW id \in Ids \cup {NoId}, BranchWithSummary(id)
      PROVE  IInv'
  <2>1. Idle /\ AppendEntry("summary", id, NoId) /\ id \in IdsOf(memory.entries) \cup {NoId}
    BY <1>5 DEF BranchWithSummary
  <2> QED  BY <2>1, AppendKeeps
<1> QED  BY <1>2, <1>3, <1>4, <1>5

\* The invariant holds when a line has been written, be it the last or not.
LEMMA LineKeeps ==
    ASSUME IInv, WriteLine
    PROVE  IInv'
BY MoreKeeps, WholeKeeps, AppendEnds

\* So does a step in which nothing changes.
LEMMA StutterKeeps ==
    ASSUME IInv, UNCHANGED vars
    PROVE  IInv'
<1>1. /\ disk' = disk /\ running' = running /\ memory' = memory /\ io' = io /\ acked' = acked
      /\ next' = next /\ crashes' = crashes /\ errors' = errors /\ atRisk' = atRisk
  BY DEF vars
<1>2. Types' /\ FilesFit' /\ MemoryFits'
  BY <1>1 DEF IInv, Types, FilesFit, MemoryFits
<1>3. Whole' = Whole
  BY <1>1 DEF Whole, Done
<1>4. WriteFits'
  BY <1>1, <1>3 DEF IInv, WriteFits
<1>5. (Continues' <=> Continues) /\ (Torn' <=> Torn) /\ Held' = Held
  BY <1>1 DEF Continues, Torn, Held, OnDisk
<1>6. MirrorFits' /\ LossFits'
  BY <1>1, <1>5 DEF IInv, MirrorFits, LossFits
<1> QED  BY <1>2, <1>4, <1>6 DEF IInv

\* Every step keeps the invariant.
LEMMA NextKeeps == IInv /\ [Next]_vars => IInv'
<1> SUFFICES ASSUME IInv, [Next]_vars  PROVE IInv'
  OBVIOUS
<1>1. CASE ContinueRecent
  BY <1>1, RecentKeeps
<1>2. CASE NewSession \/ \E f \in Files : OpenEmpty(f)
  BY <1>2, BeginsKeep
<1>3. CASE Dispose
  BY <1>3, DisposeKeeps
<1>4. CASE \E f, g \in Files : ForkFrom(f, g)
  BY <1>4, ForkFromKeeps
<1>5. CASE \/ \E kind \in Kinds : AppendPlain(kind)
           \/ \E kind \in Kinds, id \in Ids : AppendLabelChange(kind, id)
           \/ \E id \in Ids : AppendCompaction(id)
           \/ \E id \in Ids \cup {NoId} : BranchWithSummary(id)
  BY <1>5, AppendsKeep
<1>6. CASE \E id \in Ids : CreateBranchedSession(id)
  BY <1>6, CreateKeeps
<1>7. CASE \E id \in Ids \cup {NoId} : Branch(id)
  BY <1>7, BranchKeeps
<1>8. CASE OpenFile
  BY <1>8, OpenKeeps
<1>9. CASE WriteLine
  BY <1>9, LineKeeps
<1>10. CASE WriteFails
  BY <1>10, FailKeeps
<1>11. CASE Crash
  BY <1>11, CrashKeeps
<1>12. CASE UNCHANGED vars
  BY <1>12, StutterKeeps
<1> QED  BY <1>1, <1>2, <1>3, <1>4, <1>5, <1>6, <1>7, <1>8, <1>9, <1>10, <1>11, <1>12 DEF Next

\* The inductive invariant holds in every state: what files, memory and a write in
\* progress hold is sound, the rows written and those to come make up the session, and
\* no more is lost than writes have failed.
THEOREM Invariant == Spec => []IInv
BY InitFits, NextKeeps, PTL DEF Spec

-------------------------------------------------------------------------------
(* What follows from it. *)

\* Types, the leaf and the ids of the session, and a write that is under way exactly as
\* long as lines are left, whatever the files, ids and faults.
THEOREM TypeCorrect == Spec => []TypeOK
<1>1. ASSUME IInv  PROVE TypeOK
  <2>1. Types /\ FilesFit /\ MemoryFits /\ WriteFits
    BY <1>1 DEF IInv
  <2>2. \A f \in Files : /\ disk[f].lines \in Seq(LineType)
                         /\ disk[f].open => disk[f].lines # <<>>
    BY <2>1 DEF Types, FileType, FilesFit, FileFits
  <2>3. /\ memory.entries \in Seq(EntryType) /\ memory.file \in Files \cup {NoPath}
        /\ memory.leaf \in IdsOf(memory.entries) \cup {NoId}
    BY <2>1 DEF Types, MemoryType, MemoryFits
  <2>4. Cardinality(IdsOf(memory.entries)) = Len(memory.entries)
    <3>1. Sound(memory.entries)
      BY <2>1 DEF MemoryFits, EntriesFitIn
    <3>2. PICK es : es = memory.entries
      OBVIOUS
    <3>3. Sound(es)
      BY <3>1, <3>2
    <3> QED  BY <3>2, <3>3, IdsCounted
  <2>5. io.mode \in Modes \cup {"none"} /\ io.todo \in Seq(LineType)
    <3>1. io.todo \in Seq(Row) /\ Row \subseteq LineType
      BY <2>1, RowTypes DEF Types, WriteType
    <3>2. io.todo \in Seq(LineType)
      BY <3>1
    <3> QED  BY <2>1, <3>2 DEF Types, WriteType
  <2>6. io.mode = "none" <=> io.todo = <<>>
    BY <2>1 DEF WriteFits, NoWrite
  <2>7. acked \subseteq 1..(next - 1) /\ next \in 1..(MaxId + 1)
    BY <2>1 DEF Types
  <2> QED  BY <2>2, <2>3, <2>4, <2>5, <2>6, <2>7 DEF TypeOK
<1> QED  BY <1>1, Invariant, PTL

\* What has been acknowledged is read again, but for one entry at most for each write
\* that failed, however processes die, fail and start again.
THEOREM LossBounded == Spec => []LossIsBounded
<1>1. ASSUME IInv  PROVE LossIsBounded
  <2> SUFFICES ASSUME io.mode # "migrate", ~atRisk
               PROVE  Cardinality(acked \ OnDisk) <= errors
    BY DEF LossIsBounded
  <2>1. Held = OnDisk
    BY DEF Held
  <2>2. Cardinality(acked \ Held) + (IF Torn THEN 1 ELSE 0) <= errors
    BY <1>1 DEF IInv, LossFits
  <2>3. Cardinality(acked \ Held) \in Nat /\ errors \in Nat
    <3>1. next \in Nat /\ acked \subseteq 1..(next - 1) /\ errors \in Nat
      BY <1>1, BoundsAssumption DEF IInv, Types
    <3>2. next - 1 \in Int /\ acked \ Held \in SUBSET (1..(next - 1))
      <4>1. acked \ Held \subseteq 1..(next - 1)
        BY <3>1
      <4> QED  BY <3>1, <4>1
    <3>3. IsFiniteSet(1..(next - 1))
      BY <3>2, FS_Interval
    <3>4. IsFiniteSet(acked \ Held)
      BY <3>2, <3>3, FS_Subset
    <3> QED  BY <3>1, <3>4, FS_CardinalityType
  <2> DEFINE lost == Cardinality(acked \ Held)
  <2>4. lost \in Nat /\ lost + (IF Torn THEN 1 ELSE 0) <= errors
    BY <2>2, <2>3
  <2> HIDE DEF lost
  <2>5. lost <= errors
    BY <2>3, <2>4
  <2> QED  BY <2>1, <2>5 DEF lost
<1> QED  BY <1>1, Invariant, PTL

\* While no write has failed, a session that is written and at rest reads from its file
\* what its memory holds.
THEOREM MirrorHolds == Spec => []FileMirrorsMemory
<1>1. ASSUME IInv  PROVE FileMirrorsMemory
  <2> SUFFICES ASSUME Idle, memory.flushed, errors = 0
               PROVE  EntriesIn(disk[memory.file]) = memory.entries
    BY DEF FileMirrorsMemory
  <2>1. running /\ io.todo = <<>> /\ Continues
    BY DEF Idle, NoWrite, Continues
  <2>2. Parsed(disk[memory.file]) \in Seq(Row) /\ memory.entries \in Seq(EntryType)
    BY <1>1, <2>1, AtHand
  <2>3. Parsed(disk[memory.file]) \o io.todo = <<Header>> \o memory.entries
    BY <1>1, <2>1 DEF IInv, MirrorFits
  <2>4. Parsed(disk[memory.file]) = <<Header>> \o memory.entries
    BY <2>1, <2>2, <2>3, JoinEmpty
  <2>5. EntriesOf(<<Header>> \o memory.entries) = memory.entries
    BY <2>2, HeaderFirst
  <2> QED  BY <2>4, <2>5 DEF EntriesIn
<1> QED  BY <1>1, Invariant, PTL

\* Every walk along the parents ends at a root, whatever was read, forked, branched and
\* labelled before.
THEOREM WalksEnd == Spec => []PathsEnd
<1>1. ASSUME IInv  PROVE PathsEnd
  <2>1. PICK es : es = memory.entries
    OBVIOUS
  <2>2. es \in Seq(EntryType) /\ Sound(es) /\ (errors = 0 => Complete(es)) /\ errors \in Nat
    BY <1>1, <2>1 DEF IInv, Types, MemoryType, MemoryFits, EntriesFitIn
  <2>3. ASSUME NEW k \in DOMAIN es
        PROVE  /\ es[k].parent \notin IdsOf(SubSeq(es, k, Len(es)))
               /\ es[k].parent \in IdsOf(es) \cup {NoId} \/ errors > 0
    <3>1. /\ Len(es) \in Nat /\ DOMAIN es = 1..Len(es) /\ k \in 1..Len(es)
          /\ \A j \in 1..Len(es) : es[j] \in EntryType
      BY <2>2
    <3>2. \A j \in 1..Len(es) : es[j].id \in Nat /\ es[j].parent \in Nat /\ es[j] # Header
      BY <3>1, RowTypes DEF Row
    <3>3. es[k].parent < es[k].id /\ \A j \in 1..Len(es) : k < j => es[k].id < es[j].id
      BY <2>2, <3>1, <3>2, SoundAt
    <3>4. \A j \in 1..Len(es) : k <= j => es[j].id # es[k].parent
      <4>1. \A j \in 1..Len(es) : k <= j => k = j \/ k < j
        BY <3>1
      <4> QED  BY <3>1, <3>2, <3>3, <4>1
    <3>5. \A x \in IdsOf(SubSeq(es, k, Len(es))) : \E j \in 1..Len(es) : k <= j /\ es[j].id = x
      <4> DEFINE tail == SubSeq(es, k, Len(es))
                 n == Len(es)
      <4>1. /\ tail \in Seq(EntryType) /\ Len(tail) = n - k + 1
            /\ \A i \in 1..(n - k + 1) : tail[i] = es[k + i - 1]
        BY <2>2, <3>1
      <4>2. \A x \in IdsOf(tail) : \E i \in 1..Len(tail) : tail[i].id = x
        <5> HIDE DEF tail
        <5> QED  BY <4>1, IdsAt
      <4> HIDE DEF tail, n
      <4>3. \A i \in 1..(n - k + 1) : k + i - 1 \in 1..n /\ k <= k + i - 1
        BY <3>1 DEF n
      <4>4. \A x \in IdsOf(tail) : \E j \in 1..n : k <= j /\ es[j].id = x
        BY <4>1, <4>2, <4>3
      <4> QED  BY <4>4 DEF tail, n
    <3>6. es[k].parent \notin IdsOf(SubSeq(es, k, Len(es)))
      BY <3>4, <3>5
    <3>7. es[k].parent \in IdsOf(es) \cup {NoId} \/ errors > 0
      BY <2>2 DEF Complete
    <3> QED  BY <3>6, <3>7
  <2> QED  BY <2>1, <2>3 DEF PathsEnd
<1> QED  BY <1>1, Invariant, PTL

-------------------------------------------------------------------------------
(* What a branched session reads. *)

\* A label behind the others is filtered out, another entry stays behind the others.
LEMMA NonLabelsAppend ==
    ASSUME NEW s \in Seq(EntryType), NEW x \in EntryType
    PROVE  NonLabels(Append(s, x)) = IF IsLabel(x) THEN NonLabels(s) ELSE Append(NonLabels(s), x)
<1> DEFINE t == Append(s, x)
           n == Len(s)
           P == {k \in DOMAIN s : ~IsLabel(s[k])}
           Q == {k \in DOMAIN t : ~IsLabel(t[k])}
<1>1. P \in SUBSET (1..n) /\ NonLabels(s) = Picked(s, P) /\ NonLabels(t) = Picked(t, Q)
  BY DEF NonLabels
<1>2. /\ DOMAIN s = 1..n /\ DOMAIN t = 1..(n + 1) /\ n \in Nat
      /\ \A k \in 1..n : t[k] = s[k]
      /\ t[n + 1] = x
  BY AppendAt
<1>3. Q = IF IsLabel(x) THEN P ELSE P \cup {n + 1}
  BY <1>2
<1> HIDE DEF t, P, Q
<1>4. /\ Picked(Append(s, x), P) = Picked(s, P)
      /\ Picked(Append(s, x), P \cup {n + 1}) = Append(Picked(s, P), x)
  <2>1. P \in SUBSET (1..Len(s))
    BY <1>1
  <2> QED  BY <2>1, PickedAppend
<1> QED  BY <1>1, <1>3, <1>4 DEF t

\* Joined entries are the same, whichever are joined first.
LEMMA EntriesAssociate ==
    ASSUME NEW a \in Seq(EntryType), NEW b \in Seq(EntryType), NEW c \in Seq(EntryType)
    PROVE  a \o (b \o c) = (a \o b) \o c
BY JoinAssociative

\* What is filtered in parts is filtered as a whole.
LEMMA NonLabelsJoin ==
    ASSUME NEW a \in Seq(EntryType), NEW b \in Seq(EntryType)
    PROVE  NonLabels(a \o b) = NonLabels(a) \o NonLabels(b)
<1> DEFINE G == {n \in Nat : \A t \in Seq(EntryType) :
                               Len(t) = n => NonLabels(a \o t) = NonLabels(a) \o NonLabels(t)}
<1>1. NonLabels(a) \in Seq(EntryType)
  BY NonLabelsFit
<1>2. NonLabels(<<>>) = <<>>
  <2>1. <<>> \in Seq(EntryType) /\ Len(<<>>) = 0 /\ {k \in DOMAIN <<>> : ~IsLabel(<<>>[k])} = {}
    OBVIOUS
  <2>2. {} \in SUBSET (1..Len(<<>>)) /\ NonLabels(<<>>) = Picked(<<>>, {})
    BY <2>1 DEF NonLabels
  <2>3. Picked(<<>>, {}) \in Seq(EntryType) /\ Len(Picked(<<>>, {})) = Cardinality({})
    BY <2>1, <2>2, PickedType
  <2> QED  BY <2>2, <2>3, FS_EmptySet
<1>3. 0 \in G
  <2> SUFFICES ASSUME NEW t \in Seq(EntryType), Len(t) = 0
               PROVE  NonLabels(a \o t) = NonLabels(a) \o NonLabels(t)
    OBVIOUS
  <2>1. t = <<>>
    OBVIOUS
  <2>2. a \o <<>> = a /\ NonLabels(a) \o <<>> = NonLabels(a)
    BY <1>1, JoinEmpty
  <2> QED  BY <1>2, <2>1, <2>2
<1>4. ASSUME NEW n \in Nat, n \in G, NEW t \in Seq(EntryType), Len(t) = n + 1
      PROVE  NonLabels(a \o t) = NonLabels(a) \o NonLabels(t)
  <2> DEFINE f == Front(t)
             x == Last(t)
  <2>1. t # <<>>
    BY <1>4
  <2>2. f \in Seq(EntryType) /\ x \in EntryType /\ t = Append(f, x) /\ Len(f) = n
    <3>1. f \in Seq(EntryType) /\ x \in EntryType /\ t = Append(f, x)
      BY <2>1, FrontOf
    <3> HIDE DEF f, x
    <3>2. Len(Append(f, x)) = Len(f) + 1 /\ Len(f) \in Nat
      BY <3>1, AppendAt
    <3> QED  BY <1>4, <3>1, <3>2
  <2> HIDE DEF f, x
  <2>3. NonLabels(a \o f) = NonLabels(a) \o NonLabels(f)
    BY <1>4, <2>2
  <2>4. a \o t = Append(a \o f, x) /\ a \o f \in Seq(EntryType)
    <3>1. a \o f \in Seq(EntryType)
      BY <2>2, JoinAt
    <3>2. <<x>> \in Seq(EntryType) /\ f \o <<x>> = Append(f, x)
      BY <2>2, OneElement, AppendJoins
    <3>3. (a \o f) \o <<x>> = Append(a \o f, x)
      BY <2>2, <3>1, AppendJoins
    <3> DEFINE z == <<x>>
    <3>4. z \in Seq(EntryType)
      BY <3>2
    <3> HIDE DEF z
    <3>5. a \o (f \o z) = (a \o f) \o z
      BY <2>2, <3>4, EntriesAssociate
    <3> QED  BY <2>2, <3>1, <3>2, <3>3, <3>5 DEF z
  <2>5. /\ NonLabels(a \o t) = IF IsLabel(x) THEN NonLabels(a \o f) ELSE Append(NonLabels(a \o f), x)
        /\ NonLabels(t) = IF IsLabel(x) THEN NonLabels(f) ELSE Append(NonLabels(f), x)
    BY <2>2, <2>4, NonLabelsAppend
  <2>6. NonLabels(f) \in Seq(EntryType)
    BY <2>2, NonLabelsFit
  <2>7. NonLabels(a) \o Append(NonLabels(f), x) = Append(NonLabels(a) \o NonLabels(f), x)
    <3> DEFINE p == NonLabels(a)
               q == NonLabels(f)
               z == <<x>>
    <3>1. p \in Seq(EntryType) /\ q \in Seq(EntryType) /\ z \in Seq(EntryType)
      BY <1>1, <2>2, <2>6, OneElement
    <3> HIDE DEF p, q
    <3>2. p \o q \in Seq(EntryType)
      BY <3>1, JoinAt
    <3>3. q \o z = Append(q, x) /\ (p \o q) \o z = Append(p \o q, x)
      BY <2>2, <3>1, <3>2, AppendJoins
    <3> HIDE DEF z
    <3>4. p \o (q \o z) = (p \o q) \o z
      BY <3>1, EntriesAssociate, ZenonT(30)
    <3> QED  BY <3>3, <3>4 DEF p, q
  <2> QED  BY <2>3, <2>5, <2>7
<1>5. ASSUME NEW n \in Nat, n \in G
      PROVE  n + 1 \in G
  <2>1. \A t \in Seq(EntryType) :
          Len(t) = n + 1 => NonLabels(a \o t) = NonLabels(a) \o NonLabels(t)
    BY <1>4, <1>5
  <2>2. n + 1 \in Nat
    OBVIOUS
  <2> QED  BY <2>1, <2>2
<1> HIDE DEF G
<1>6. Nat \subseteq G
  BY <1>3, <1>5, Counting
<1>7. Len(b) \in G
  BY <1>6
<1> QED  BY <1>7 DEF G

\* The k-th of sound rows has k ids up to its own.
LEMMA IdsUpTo ==
    ASSUME NEW s, Sound(s), NEW k \in 1..Len(s)
    PROVE  Cardinality({i \in IdsOf(s) : i <= s[k].id}) = k
<1> DEFINE t == [j \in 1..k |-> s[j]]
<1>1. /\ s \in Seq(Row) /\ Len(s) \in Nat /\ k \in Nat
      /\ \A i, j \in 1..Len(s) : i < j => s[i].id < s[j].id
      /\ \A i \in 1..Len(s) : s[i] = Header \/ s[i].parent < s[i].id
  BY SoundAt
<1>2. \A j \in 1..k : j \in 1..Len(s) /\ s[j] \in Row /\ t[j] = s[j]
  BY <1>1
<1>3. t \in [1..k -> Row]
  BY <1>2
<1> HIDE DEF t
<1>4. t \in Seq(Row) /\ Len(t) = k
  BY <1>1, <1>3, SequenceOf
<1>5. Sound(t)
  <2>1. \A i, j \in 1..k : i < j => t[i].id < t[j].id
    BY <1>1, <1>2
  <2>2. \A i \in 1..k : t[i] = Header \/ t[i].parent < t[i].id
    BY <1>1, <1>2
  <2> QED  BY <1>4, <2>1, <2>2, SoundAt
<1>6. Cardinality(IdsOf(t)) = k
  BY <1>4, <1>5, IdsCounted
<1>7. \A j \in 1..Len(s) : s[j].id \in Nat
  <2>1. \A j \in 1..Len(s) : s[j] \in Row
    BY <1>1
  <2> QED  BY <2>1, RowTypes
<1>8. ASSUME NEW j \in 1..Len(s)
      PROVE  s[j].id <= s[k].id <=> j \in 1..k
  <2>1. j < k \/ j = k \/ k < j
    BY <1>1
  <2>2. s[j].id < s[k].id \/ s[j].id = s[k].id \/ s[k].id < s[j].id
    BY <1>7
  <2>3. CASE j < k
    <3>1. s[j].id < s[k].id
      BY <1>1, <2>3
    <3> QED  BY <1>1, <1>7, <2>3, <3>1
  <2>4. CASE j = k
    BY <1>1, <1>7, <2>4
  <2>5. CASE k < j
    <3>1. s[k].id < s[j].id
      BY <1>1, <2>5
    <3> QED  BY <1>1, <1>7, <2>5, <3>1
  <2> QED  BY <2>1, <2>3, <2>4, <2>5
<1>9. /\ \A i : i \in IdsOf(t) <=> \E j \in 1..k : t[j].id = i
      /\ \A i : i \in IdsOf(s) <=> \E j \in 1..Len(s) : s[j].id = i
  BY <1>1, <1>4, IdsAt
<1>10. ASSUME NEW i \in IdsOf(t)
       PROVE  i \in IdsOf(s) /\ i <= s[k].id
  <2>1. PICK j \in 1..k : t[j].id = i
    BY <1>9
  <2>2. j \in 1..Len(s) /\ s[j].id = i
    BY <1>2, <2>1
  <2> QED  BY <1>8, <1>9, <2>2
<1>11. ASSUME NEW i \in IdsOf(s), i <= s[k].id
       PROVE  i \in IdsOf(t)
  <2>1. PICK j \in 1..Len(s) : s[j].id = i
    BY <1>9
  <2>2. j \in 1..k
    BY <1>8, <1>11, <2>1
  <2> QED  BY <1>2, <1>9, <2>1, <2>2
<1>12. {i \in IdsOf(s) : i <= s[k].id} = IdsOf(t)
  BY <1>10, <1>11
<1> QED  BY <1>6, <1>12

\* Sound rows with the same ids have them at the same places.
LEMMA SameIds ==
    ASSUME NEW s, NEW t, Sound(s), Sound(t), IdsOf(s) = IdsOf(t)
    PROVE  Len(s) = Len(t) /\ \A k \in 1..Len(s) : s[k].id = t[k].id
<1>1. Cardinality(IdsOf(s)) = Len(s) /\ Cardinality(IdsOf(t)) = Len(t)
  BY IdsCounted
<1>2. Len(s) = Len(t)
  BY <1>1
<1>3. s \in Seq(Row) /\ t \in Seq(Row)
  BY SoundAt
<1>4. ASSUME NEW k \in 1..Len(s)
      PROVE  s[k].id = t[k].id
  <2>1. Cardinality({i \in IdsOf(s) : i <= s[k].id}) = k
    BY IdsUpTo
  <2>2. PICK j \in 1..Len(t) : t[j].id = s[k].id
    <3>1. s[k].id \in IdsOf(s)
      BY <1>3, IdsAt
    <3>2. s[k].id \in IdsOf(t)
      BY <3>1
    <3> QED  BY <1>3, <3>2, IdsAt
  <2>3. Cardinality({i \in IdsOf(t) : i <= t[j].id}) = j
    BY IdsUpTo
  <2>4. {i \in IdsOf(t) : i <= t[j].id} = {i \in IdsOf(s) : i <= s[k].id}
    BY <2>2
  <2>5. j = k
    BY <2>1, <2>3, <2>4
  <2> QED  BY <2>2, <2>5
<1> QED  BY <1>2, <1>4

\* The last of some places.
LEMMA Greatest ==
    ASSUME NEW n \in Nat, NEW P \in SUBSET (1..n), P # {}
    PROVE  \E k \in P : \A l \in P : l <= k
<1> DEFINE c == Cardinality(P)
<1>1. /\ c \in Nat
      /\ \A i \in 1..c : Nth(P, i) \in P
      /\ \A i, j \in 1..c : i < j => Nth(P, i) < Nth(P, j)
      /\ \A k \in P : \E i \in 1..c : Nth(P, i) = k
  BY Places
<1> HIDE DEF c
<1>2. c \in 1..c
  <2>1. \E i : i \in 1..c
    BY <1>1
  <2> QED  BY <1>1, <2>1
<1>3. ASSUME NEW l \in P
      PROVE  l <= Nth(P, c)
  <2>1. PICK i \in 1..c : Nth(P, i) = l
    BY <1>1
  <2>2. i < c \/ i = c
    BY <1>1
  <2>3. Nth(P, i) \in Nat /\ Nth(P, c) \in Nat
    <3>1. P \subseteq Nat
      OBVIOUS
    <3> QED  BY <1>1, <1>2, <3>1
  <2>4. i < c => Nth(P, i) < Nth(P, c)
    BY <1>1, <1>2
  <2> QED  BY <2>1, <2>2, <2>3, <2>4
<1> QED  BY <1>1, <1>2, <1>3

\* What stands where in a part of a sequence.
LEMMA PartAt ==
    ASSUME NEW T, NEW s \in Seq(T), NEW a \in Int, NEW b \in Int, 1 <= a, b <= Len(s), a <= b + 1
    PROVE  /\ SubSeq(s, a, b) \in Seq(T) /\ Len(SubSeq(s, a, b)) = b - a + 1
           /\ \A i \in 1..(b - a + 1) : SubSeq(s, a, b)[i] = s[a + i - 1]
OBVIOUS

\* A path without one entry and what stands before another.
LEMMA RestFits ==
    ASSUME NEW p \in Seq(EntryType), Sound(p), NEW last \in 1..Len(p), NEW a \in 1..last,
           NEW r, r = SubSeq(p, a, last - 1) \o SubSeq(p, last + 1, Len(p))
    PROVE  /\ r \in Seq(EntryType) /\ Sound(r)
           /\ Lasting(r) = {i \in Lasting(p) : p[a].id <= i /\ i # p[last].id}
<1> DEFINE n == Len(p)
           Place(i) == IF i <= last - a THEN a + i - 1 ELSE a + i
<1>1. n \in Nat /\ last \in 1..n /\ a \in 1..last
  OBVIOUS
<1>2. PICK front : front = SubSeq(p, a, last - 1)
  OBVIOUS
<1>3. PICK back : back = SubSeq(p, last + 1, Len(p))
  OBVIOUS
<1>4. /\ front \in Seq(EntryType) /\ Len(front) = last - a
      /\ \A i \in 1..(last - a) : front[i] = p[a + i - 1]
  <2>1. PICK b \in Int : b = last - 1
    BY <1>1
  <2>2. a \in Int /\ 1 <= a /\ b <= Len(p) /\ a <= b + 1 /\ b - a + 1 = last - a
    BY <1>1, <2>1
  <2>3. front = SubSeq(p, a, b)
    BY <1>2, <2>1
  <2>4. /\ SubSeq(p, a, b) \in Seq(EntryType) /\ Len(SubSeq(p, a, b)) = b - a + 1
        /\ \A i \in 1..(b - a + 1) : SubSeq(p, a, b)[i] = p[a + i - 1]
    BY <2>2, PartAt
  <2>5. /\ front \in Seq(EntryType) /\ Len(front) = b - a + 1
        /\ \A i \in 1..(b - a + 1) : front[i] = p[a + i - 1]
    BY <2>3, <2>4
  <2> QED  BY <2>2, <2>5
<1>5. /\ back \in Seq(EntryType) /\ Len(back) = n - last
      /\ \A i \in 1..(n - last) : back[i] = p[last + i]
  <2>1. PICK b \in Int : b = last + 1
    BY <1>1
  <2>2. n \in Int /\ 1 <= b /\ n <= Len(p) /\ b <= n + 1 /\ n - b + 1 = n - last
    BY <1>1, <2>1
  <2>3. back = SubSeq(p, b, n)
    BY <1>3, <2>1
  <2>4. /\ SubSeq(p, b, n) \in Seq(EntryType) /\ Len(SubSeq(p, b, n)) = n - b + 1
        /\ \A i \in 1..(n - b + 1) : SubSeq(p, b, n)[i] = p[b + i - 1]
    <3> HIDE DEF n
    <3> QED  BY <2>2, PartAt
  <2>5. /\ back \in Seq(EntryType) /\ Len(back) = n - b + 1
        /\ \A i \in 1..(n - b + 1) : back[i] = p[b + i - 1]
    <3> HIDE DEF n
    <3> QED  BY <2>3, <2>4
  <2>6. \A i \in 1..(n - last) : b + i - 1 = last + i
    BY <1>1, <2>1
  <2> HIDE DEF n
  <2> QED  BY <2>2, <2>5, <2>6
<1>6. /\ r \in Seq(EntryType) /\ Len(r) = (last - a) + (n - last)
      /\ \A i \in 1..(last - a) : r[i] = front[i]
      /\ \A i \in 1..(n - last) : r[(last - a) + i] = back[i]
  <2>1. r = front \o back
    BY <1>2, <1>3
  <2>2. /\ front \o back \in Seq(EntryType) /\ Len(front \o back) = Len(front) + Len(back)
        /\ \A i \in 1..Len(front) : (front \o back)[i] = front[i]
        /\ \A i \in 1..Len(back) : (front \o back)[Len(front) + i] = back[i]
    <3>1. front \in Seq(EntryType) /\ back \in Seq(EntryType)
      BY <1>4, <1>5
    <3> QED  BY <3>1, JoinAt
  <2> HIDE DEF n
  <2>3. /\ r \in Seq(EntryType) /\ Len(r) = Len(front) + Len(back)
        /\ \A i \in 1..Len(front) : r[i] = front[i]
        /\ \A i \in 1..Len(back) : r[Len(front) + i] = back[i]
    BY <2>1, <2>2
  <2> QED  BY <1>4, <1>5, <2>3
<1> HIDE DEF n
<1>7. Len(r) = n - a
  <2>1. (last - a) + (n - last) = n - a
    BY <1>1
  <2> QED  BY <1>6, <2>1
<1>8. ASSUME NEW i \in 1..(n - a)
      PROVE  /\ Place(i) \in a..n /\ Place(i) # last /\ r[i] = p[Place(i)]
  <2>1. CASE i <= last - a
    <3>1. /\ i \in 1..(last - a) /\ Place(i) = a + i - 1
          /\ a + i - 1 \in a..n /\ a + i - 1 # last
      BY <1>1, <2>1
    <3>2. r[i] = p[a + i - 1]
      BY <1>4, <1>6, <3>1
    <3> HIDE DEF Place
    <3> QED  BY <3>1, <3>2
  <2>2. CASE ~(i <= last - a)
    <3> DEFINE j == i - (last - a)
    <3>1. j \in 1..(n - last) /\ (last - a) + j = i /\ last + j = a + i /\ Place(i) = a + i
      BY <1>1, <2>2
    <3>2. a + i \in a..n /\ a + i # last
      BY <1>1, <2>2
    <3> HIDE DEF j, Place
    <3> QED  BY <1>5, <1>6, <3>1, <3>2
  <2> QED  BY <2>1, <2>2
<1>9. ASSUME NEW k \in a..n, k # last
      PROVE  \E i \in 1..(n - a) : Place(i) = k
  <2>1. CASE k < last
    <3>1. k - a + 1 \in 1..(n - a) /\ Place(k - a + 1) = k
      BY <1>1, <2>1
    <3> QED  BY <3>1
  <2>2. CASE last < k
    <3>1. k - a \in 1..(n - a) /\ Place(k - a) = k
      BY <1>1, <2>2
    <3> QED  BY <3>1
  <2> QED  BY <1>1, <1>9, <2>1, <2>2
<1>10. \A i, j \in 1..(n - a) : i < j => Place(i) < Place(j)
  BY <1>1
<1> HIDE DEF Place
<1>11. /\ \A i, j \in 1..n : i < j => p[i].id < p[j].id
       /\ \A i \in 1..n : p[i] = Header \/ p[i].parent < p[i].id
       /\ \A i \in 1..n : p[i].id \in Nat
  <2>1. \A i \in 1..n : p[i] \in Row
    BY DEF Row, n
  <2> QED  BY <2>1, SoundAt, RowTypes DEF n
<1>12. a..n \subseteq 1..n
  BY <1>1
<1>13. Sound(r)
  <2>1. \A i, j \in 1..(n - a) : i < j => r[i].id < r[j].id
    BY <1>8, <1>10, <1>11, <1>12
  <2>2. \A i \in 1..(n - a) : r[i] = Header \/ r[i].parent < r[i].id
    BY <1>8, <1>11, <1>12
  <2>3. r \in Seq(Row)
    BY <1>6 DEF Row
  <2> QED  BY <1>7, <2>1, <2>2, <2>3, SoundAt
<1>14. ASSUME NEW k \in 1..n
       PROVE  /\ k \in a..n <=> p[a].id <= p[k].id
              /\ k = last <=> p[k].id = p[last].id
  <2>1. a \in 1..n /\ last \in 1..n
    BY <1>1
  <2>2. p[a].id \in Nat /\ p[k].id \in Nat /\ p[last].id \in Nat
    BY <1>11, <2>1
  <2>3. /\ k < a => p[k].id < p[a].id
        /\ a < k => p[a].id < p[k].id
        /\ k < last => p[k].id < p[last].id
        /\ last < k => p[last].id < p[k].id
    BY <1>11, <2>1
  <2>4. k \in a..n <=> k = a \/ a < k
    BY <1>1
  <2>5. k \in a..n <=> p[a].id <= p[k].id
    <3>1. k < a \/ k = a \/ a < k
      BY <1>1
    <3>2. CASE k < a
      <4>1. ~(k = a) /\ ~(a < k)
        BY <1>1, <3>2
      <4>2. ~(p[a].id <= p[k].id)
        BY <2>2, <2>3, <3>2
      <4> QED  BY <2>4, <4>1, <4>2
    <3>3. CASE k = a
      BY <2>2, <2>4, <3>3
    <3>4. CASE a < k
      <4>1. p[a].id <= p[k].id
        BY <2>2, <2>3, <3>4
      <4> QED  BY <2>4, <3>4, <4>1
    <3> QED  BY <3>1, <3>2, <3>3, <3>4
  <2>6. k # last => p[k].id # p[last].id
    <3>1. k # last => k < last \/ last < k
      BY <1>1
    <3> QED  BY <2>2, <2>3, <3>1
  <2> QED  BY <2>5, <2>6
<1>15. ASSUME NEW i \in Lasting(r)
       PROVE  i \in Lasting(p) /\ p[a].id <= i /\ i # p[last].id
  <2>1. PICK j \in 1..(n - a) : ~IsLabel(r[j]) /\ r[j].id = i
    BY <1>7, LastingAt
  <2>2. PICK k \in a..n : k # last /\ r[j] = p[k]
    BY <1>8
  <2>3. k \in 1..n
    BY <1>12
  <2>4. ~IsLabel(p[k]) /\ p[k].id = i
    BY <2>1, <2>2
  <2> QED  BY <1>14, <2>2, <2>3, <2>4, LastingAt DEF n
<1>16. ASSUME NEW i \in Lasting(p), p[a].id <= i, i # p[last].id
       PROVE  i \in Lasting(r)
  <2>1. PICK k \in 1..n : ~IsLabel(p[k]) /\ p[k].id = i
    BY LastingAt DEF n
  <2>2. k \in a..n /\ k # last
    BY <1>14, <1>16, <2>1
  <2>3. PICK j \in 1..(n - a) : Place(j) = k
    BY <1>9, <2>2
  <2>4. r[j] = p[k]
    BY <1>8, <2>3
  <2> QED  BY <1>7, <2>1, <2>4, LastingAt
<1> QED  BY <1>6, <1>13, <1>15, <1>16

\* Where what a compaction keeps begins, among some ids: at itself if it keeps nothing.
KeepsFrom(ids, e) == IF e.ref \in ids /\ e.ref < e.id THEN e.ref ELSE e.id

\* What is read of a path with a compaction: the last one, and what it kept and what
\* followed, in order (buildContextEntries).
LEMMA ContextAt ==
    ASSUME NEW p \in Seq(EntryType), Sound(p),
           NEW last \in 1..Len(p), Compacted(p[last]),
           \A k \in 1..Len(p) : Compacted(p[k]) => k <= last
    PROVE  \E r \in Seq(EntryType) :
             /\ ContextOf(p) = <<p[last]>> \o r /\ Sound(r)
             /\ Lasting(r) = {i \in Lasting(p) : KeepsFrom(IdsOf(p), p[last]) <= i /\ i # p[last].id}
<1> DEFINE kept == p[last].ref
           before == {p[k].id : k \in 1..(last - 1)}
           front == IF kept \in before THEN SubSeq(p, At(p, kept), last - 1) ELSE <<>>
           back == SubSeq(p, last + 1, Len(p))
           compactions == {k \in DOMAIN p : p[k].kind = "compaction"}
<1>1. /\ Len(p) \in Nat /\ DOMAIN p = 1..Len(p)
      /\ \A k \in 1..Len(p) : p[k] \in EntryType
  OBVIOUS
<1>2. /\ \A i, j \in 1..Len(p) : i < j => p[i].id < p[j].id
      /\ \A k \in 1..Len(p) : p[k].id \in Nat
  <2>1. \A k \in 1..Len(p) : p[k] \in Row
    BY <1>1 DEF Row
  <2> QED  BY <2>1, SoundAt, RowTypes
<1>3. (CHOOSE k \in compactions : \A l \in compactions : l <= k) = last
  <2>1. last \in compactions /\ \A l \in compactions : l <= last
    BY <1>1 DEF Compacted
  <2>2. \A k \in compactions : (\A l \in compactions : l <= k) => k = last
    <3>1. \A k \in compactions : k \in Nat
      BY <1>1
    <3> HIDE DEF compactions
    <3> QED  BY <2>1, <3>1
  <2> HIDE DEF compactions
  <2> QED  BY <2>1, <2>2
<1>4. ContextOf(p) = <<p[last]>> \o front \o back
  <2>1. compactions # {}
    BY <1>1 DEF Compacted
  <2> DEFINE top == CHOOSE k \in compactions : \A l \in compactions : l <= k
  <2>2. ContextOf(p) = <<p[top]>>
                       \o (IF p[top].ref \in {p[k].id : k \in 1..(top - 1)}
                             THEN SubSeq(p, At(p, p[top].ref), top - 1) ELSE <<>>)
                       \o SubSeq(p, top + 1, Len(p))
    BY <2>1, Zenon DEF ContextOf
  <2>3. top = last
    BY <1>3
  <2> HIDE DEF top, compactions
  <2> QED  BY <2>2, <2>3, Zenon
<1> HIDE DEF compactions
<1>5. kept \in before <=> kept \in IdsOf(p) /\ kept < p[last].id
  <2>1. ASSUME kept \in before
        PROVE  kept \in IdsOf(p) /\ kept < p[last].id
    <3>1. PICK k \in 1..(last - 1) : p[k].id = kept
      BY <2>1
    <3>2. k \in 1..Len(p) /\ k < last
      BY <1>1
    <3>3. p[k].id < p[last].id
      BY <1>2, <3>2
    <3>4. p[k].id \in IdsOf(p)
      BY <3>2, IdsAt
    <3> QED  BY <3>1, <3>3, <3>4
  <2>2. ASSUME kept \in IdsOf(p), kept < p[last].id
        PROVE  kept \in before
    <3>1. PICK k \in 1..Len(p) : p[k].id = kept
      BY <2>2, IdsAt
    <3>2. k # last /\ ~(last < k)
      BY <1>2, <2>2, <3>1
    <3>3. k \in 1..(last - 1)
      BY <1>1, <3>2
    <3> QED  BY <3>1, <3>3
  <2> QED  BY <2>1, <2>2
<1>6. PICK a \in 1..last :
        front = SubSeq(p, a, last - 1) /\ p[a].id = KeepsFrom(IdsOf(p), p[last])
  <2>1. CASE kept \in before
    <3>1. PICK a : a = At(p, kept)
      OBVIOUS
    <3>2. a \in 1..Len(p) /\ p[a].id = kept
      BY <1>5, <2>1, <3>1, PlaceOf
    <3>3. kept < p[last].id
      BY <1>5, <2>1
    <3>4. a < last
      <4>1. a # last /\ ~(last < a)
        BY <1>2, <3>2, <3>3
      <4> QED  BY <1>1, <3>2, <4>1
    <3>5. a \in 1..last
      BY <1>1, <3>2, <3>4
    <3>6. front = SubSeq(p, a, last - 1)
      BY <2>1, <3>1
    <3>7. KeepsFrom(IdsOf(p), p[last]) = kept
      BY <1>5, <2>1 DEF KeepsFrom
    <3> QED  BY <3>2, <3>5, <3>6, <3>7
  <2>2. CASE kept \notin before
    <3>1. front = <<>>
      BY <2>2
    <3>2. SubSeq(p, last, last - 1) = <<>>
      <4>1. last \in Int /\ last - 1 \in Int /\ last > last - 1
        BY <1>1
      <4> QED  BY <1>1, <4>1
    <3>3. KeepsFrom(IdsOf(p), p[last]) = p[last].id
      BY <1>5, <2>2 DEF KeepsFrom
    <3>4. last \in 1..last
      BY <1>1
    <3> QED  BY <3>1, <3>2, <3>3, <3>4
  <2> QED  BY <2>1, <2>2
<1> HIDE DEF front, back
<1>7. PICK r : r = front \o back
  OBVIOUS
<1>8. r = SubSeq(p, a, last - 1) \o SubSeq(p, last + 1, Len(p))
  BY <1>6, <1>7 DEF back
<1>9. /\ r \in Seq(EntryType) /\ Sound(r)
      /\ Lasting(r) = {i \in Lasting(p) : p[a].id <= i /\ i # p[last].id}
  <2> HIDE DEF kept, before
  <2> QED  BY <1>8, RestFits, ZenonT(30)
<1>10. front \in Seq(EntryType) /\ back \in Seq(EntryType)
  BY <1>1, <1>6 DEF back
<1>11. ContextOf(p) = <<p[last]>> \o r
  <2> DEFINE h == <<p[last]>>
  <2>1. h \in Seq(EntryType)
    BY <1>1, OneElement
  <2>2. ContextOf(p) = (h \o front) \o back
    BY <1>4
  <2> HIDE DEF h
  <2>3. h \o (front \o back) = (h \o front) \o back
    BY <1>10, <2>1, EntriesAssociate
  <2> QED  BY <1>7, <2>2, <2>3 DEF h
<1> QED  BY <1>6, <1>9, <1>11

\* The same without labels.
LEMMA ContextFits ==
    ASSUME NEW p \in Seq(EntryType), Sound(p),
           NEW last \in 1..Len(p), Compacted(p[last]),
           \A k \in 1..Len(p) : Compacted(p[k]) => k <= last
    PROVE  \E q \in Seq(EntryType) :
             /\ NonLabels(ContextOf(p)) = <<p[last]>> \o q /\ Sound(q)
             /\ IdsOf(q) = {i \in Lasting(p) : KeepsFrom(IdsOf(p), p[last]) <= i /\ i # p[last].id}
<1>1. PICK r \in Seq(EntryType) :
        /\ ContextOf(p) = <<p[last]>> \o r /\ Sound(r)
        /\ Lasting(r) = {i \in Lasting(p) : KeepsFrom(IdsOf(p), p[last]) <= i /\ i # p[last].id}
  BY ContextAt
<1>2. PICK x \in EntryType : x = p[last]
  OBVIOUS
<1>3. ~IsLabel(x)
  BY <1>2 DEF IsLabel, Compacted
<1> DEFINE h == <<x>>
<1>4. h \in Seq(EntryType)
  BY OneElement
<1>5. NonLabels(h) = h
  <2>1. <<>> \in Seq(EntryType) /\ Append(<<>>, x) = <<x>> /\ Append(<<>>, x) = h
    OBVIOUS
  <2>2. NonLabels(<<>>) = <<>>
    <3>1. NonLabels(<<>>) \in Seq(EntryType)
      BY <2>1, NonLabelsFit
    <3>2. \A i \in 1..Len(NonLabels(<<>>)) : \E k \in 1..0 : TRUE
      <4>1. Len(<<>>) = 0
        OBVIOUS
      <4> QED  BY <2>1, <4>1, NonLabelsFit
    <3>3. Len(NonLabels(<<>>)) = 0
      BY <3>1, <3>2
    <3> QED  BY <3>1, <3>3
  <2>3. NonLabels(Append(<<>>, x)) = Append(NonLabels(<<>>), x)
    BY <1>3, <2>1, NonLabelsAppend
  <2> QED  BY <2>1, <2>2, <2>3
<1> HIDE DEF h
<1>6. NonLabels(h \o r) = h \o NonLabels(r)
  BY <1>4, <1>5, NonLabelsJoin
<1>7. ContextOf(p) = h \o r
  BY <1>1, <1>2 DEF h
<1>8. NonLabels(r) \in Seq(EntryType) /\ Sound(NonLabels(r)) /\ IdsOf(NonLabels(r)) = Lasting(r)
  BY <1>1, NonLabelsFit
<1> QED  BY <1>1, <1>2, <1>6, <1>7, <1>8 DEF h

\* An entry of a session stands at its place.
LEMMA PlaceAt ==
    ASSUME NEW u \in Seq(EntryType), Sound(u), NEW k \in 1..Len(u)
    PROVE  u[k].id \in IdsOf(u) /\ At(u, u[k].id) = k
<1>1. Len(u) \in Nat /\ \A i, j \in 1..Len(u) : i < j => u[i].id < u[j].id
  BY SoundAt
<1>2. u[k].id \in IdsOf(u)
  BY IdsAt
<1>3. PICK a : a = At(u, u[k].id)
  OBVIOUS
<1>4. a \in 1..Len(u) /\ u[a].id = u[k].id
  BY <1>2, <1>3, PlaceOf
<1>5. u[a].id \in Nat /\ u[k].id \in Nat
  <2>1. u[a] \in EntryType /\ u[k] \in EntryType
    BY <1>4
  <2> QED  BY <2>1, RowTypes DEF Row
<1>6. ~(a < k) /\ ~(k < a)
  BY <1>1, <1>4, <1>5
<1> QED  BY <1>1, <1>2, <1>3, <1>4, <1>6

\* The branch that ends a session in which every entry continues the one before it is the
\* session (getBranch after createBranchedSession).
LEMMA LinearReads ==
    ASSUME NEW u \in Seq(EntryType), Sound(u), Linear(u)
    PROVE  BranchTo(u, LeafOf(u)) = u
<1> DEFINE n == Len(u)
<1>1. n \in Nat /\ DOMAIN u = 1..n /\ \A k \in 1..n : u[k] \in EntryType
  OBVIOUS
<1>2. NoId \notin IdsOf(u)
  <2>1. \A k \in 1..n : u[k].id \in Ids
    BY <1>1 DEF EntryType
  <2>2. NoId \notin Ids
    BY BoundsAssumption DEF Ids, NoId
  <2> QED  BY <2>1, <2>2, IdsAt
<1>3. CASE u = <<>>
  <2>1. LeafOf(u) = NoId
    BY <1>3 DEF LeafOf
  <2> QED  BY <1>2, <1>3, <2>1 DEF BranchTo
<1>4. CASE u # <<>>
  <2> DEFINE path == CHOOSE f : f = [k \in DOMAIN u |-> Step(u, f, k)]
  <2>1. n \in 1..n /\ LeafOf(u) = u[n].id
    <3>1. n # 0
      BY <1>4
    <3>2. Last(u) = u[n]
      BY <1>4, FrontOf
    <3> QED  BY <1>1, <1>4, <3>1, <3>2 DEF LeafOf
  <2>2. u[n].id \in IdsOf(u) /\ At(u, u[n].id) = n
    BY <2>1, PlaceAt
  <2>3. BranchTo(u, LeafOf(u)) = path[n]
    BY <2>1, <2>2 DEF BranchTo, Step
  <2>4. path = [k \in DOMAIN u |-> Step(u, path, k)]
    BY PathsExist
  <2> HIDE DEF path, n
  <2>5. \A k \in 1..n : path[k] = Step(u, path, k)
    BY <1>1, <2>4
  <2> DEFINE Reads(k) == /\ path[k] \in Seq(EntryType) /\ Len(path[k]) = k
                         /\ \A j \in 1..k : path[k][j] = u[j]
             G == {k \in Nat : k \in 1..n => Reads(k)}
  <2>6. 0 \in G
    BY <1>1
  <2>7. ASSUME NEW k \in Nat, k \in G, k + 1 \in 1..n
        PROVE  Reads(k + 1)
    <3>1. CASE k = 0
      <4>1. PICK x \in EntryType : x = u[1]
        BY <1>1, <2>7, <3>1
      <4>2. 1 \in 1..Len(u)
        BY <2>7, <3>1 DEF n
      <4>3. u[1].parent = NoId
        BY <4>2 DEF Linear
      <4>4. path[1] = <<x>>
        <5>1. 1 \in 1..n
          BY <2>7, <3>1
        <5>2. path[1] = Step(u, path, 1)
          BY <2>5, <5>1
        <5>3. Step(u, path, 1) = <<u[1]>>
          BY <1>2, <4>3, Zenon DEF Step
        <5> QED  BY <4>1, <5>2, <5>3, Zenon
      <4>5. <<x>> \in Seq(EntryType) /\ Len(<<x>>) = 1 /\ <<x>>[1] = x
        BY OneElement
      <4>6. path[1] \in Seq(EntryType) /\ Len(path[1]) = 1 /\ path[1][1] = u[1]
        BY <4>1, <4>4, <4>5
      <4>7. \A j \in 1..1 : path[1][j] = u[j]
        BY <4>6
      <4>8. k + 1 = 1
        BY <3>1
      <4> HIDE DEF G
      <4> QED  BY <4>6, <4>7, <4>8
    <3>2. CASE k # 0
      <4>1. k \in 1..n /\ k + 1 \in 1..Len(u) /\ k + 1 # 1 /\ (k + 1) - 1 = k
        BY <1>1, <2>7, <3>2 DEF n
      <4>2. Reads(k)
        BY <2>7, <4>1
      <4>3. PICK q \in Seq(EntryType) : q = path[k]
        BY <4>2
      <4>4. Len(q) = k /\ \A j \in 1..k : q[j] = u[j]
        BY <4>2, <4>3
      <4> HIDE DEF Reads, G
      <4>5. u[k + 1].parent = u[k].id
        <5>1. u[k + 1].parent = IF k + 1 = 1 THEN NoId ELSE u[(k + 1) - 1].id
          BY <4>1 DEF Linear
        <5> QED  BY <4>1, <5>1
      <4>6. u[k].id \in IdsOf(u) /\ At(u, u[k].id) = k
        BY <4>1, PlaceAt DEF n
      <4>7. PICK x \in EntryType : x = u[k + 1]
        BY <1>1, <2>7
      <4>8. path[k + 1] = Append(q, x)
        BY <2>5, <2>7, <4>3, <4>5, <4>6, <4>7 DEF Step
      <4>9. /\ Append(q, x) \in Seq(EntryType) /\ Len(Append(q, x)) = k + 1
            /\ \A j \in 1..k : Append(q, x)[j] = q[j]
            /\ Append(q, x)[k + 1] = x
        BY <4>4, AppendAt
      <4>10. \A j \in 1..(k + 1) : j \in 1..k \/ j = k + 1
        OBVIOUS
      <4>11. \A j \in 1..(k + 1) : path[k + 1][j] = u[j]
        BY <4>4, <4>7, <4>8, <4>9, <4>10
      <4> QED  BY <4>8, <4>9, <4>11 DEF Reads
    <3> QED  BY <3>1, <3>2
  <2>8. \A k \in Nat : k \in G => k + 1 \in G
    <3> HIDE DEF Reads
    <3> QED  BY <2>7
  <2> HIDE DEF G
  <2>9. Nat \subseteq G
    BY <2>6, <2>8, Counting
  <2>10. Reads(n)
    <3>1. n \in G
      BY <1>1, <2>9
    <3> QED  BY <2>1, <3>1 DEF G
  <2>11. PICK q \in Seq(EntryType) : q = path[n]
    BY <2>10
  <2>12. Len(q) = Len(u) /\ \A j \in 1..Len(u) : q[j] = u[j]
    BY <2>10, <2>11 DEF n
  <2>13. q = u
    BY <2>12, SameSequence
  <2> QED  BY <2>3, <2>11, <2>13
<1> QED  BY <1>3, <1>4

\* The ids of a session grow with the places.
LEMMA IdsGrow ==
    ASSUME NEW p \in Seq(EntryType), Sound(p)
    PROVE  /\ \A k \in 1..Len(p) : p[k].id \in Nat
           /\ \A j, k \in 1..Len(p) : p[j].id <= p[k].id <=> j <= k
           /\ \A j, k \in 1..Len(p) : p[j].id < p[k].id <=> j < k
<1>1. Len(p) \in Nat /\ \A i, j \in 1..Len(p) : i < j => p[i].id < p[j].id
  BY SoundAt
<1>2. \A k \in 1..Len(p) : p[k].id \in Nat
  <2>1. \A k \in 1..Len(p) : p[k] \in Row
    BY DEF Row
  <2> QED  BY <2>1, RowTypes
<1>3. ASSUME NEW j \in 1..Len(p), NEW k \in 1..Len(p)
      PROVE  (p[j].id <= p[k].id <=> j <= k) /\ (p[j].id < p[k].id <=> j < k)
  <2>1. j \in Nat /\ k \in Nat /\ p[j].id \in Nat /\ p[k].id \in Nat
    BY <1>2
  <2>2. CASE j < k
    <3>1. p[j].id < p[k].id
      BY <1>1, <2>2
    <3> QED  BY <2>1, <2>2, <3>1
  <2>3. CASE j = k
    BY <2>1, <2>3
  <2>4. CASE k < j
    <3>1. p[k].id < p[j].id
      BY <1>1, <2>4
    <3> QED  BY <2>1, <2>4, <3>1
  <2> QED  BY <2>1, <2>2, <2>3, <2>4
<1> QED  BY <1>2, <1>3

\* Where the kept range begins when the labels are gone: at the first entry from there on
\* that is no label (createBranchedSession).
LEMMA KeptAt ==
    ASSUME NEW p \in Seq(EntryType), Sound(p), NEW e \in EntryType, e.ref \in IdsOf(p),
           NEW k \in 1..Len(p), At(p, e.ref) <= k, ~IsLabel(p[k])
    PROVE  \E m \in 1..Len(p) :
             /\ KeptFrom(p, e) = p[m].id /\ ~IsLabel(p[m]) /\ At(p, e.ref) <= m /\ m <= k
             /\ \A l \in 1..Len(p) : At(p, e.ref) <= l /\ ~IsLabel(p[l]) => m <= l
<1> DEFINE a == At(p, e.ref)
           rest == {l \in a..Len(p) : ~IsLabel(p[l])}
           least == CHOOSE l \in rest : \A j \in rest : l <= j
<1>1. a \in 1..Len(p) /\ Len(p) \in Nat
  BY PlaceOf
<1>2. k \in rest
  BY <1>1
<1>3. KeptFrom(p, e) = p[least].id
  <2>1. e.ref \in IdsOf(p) /\ rest # {}
    BY <1>2
  <2>2. KeptFrom(p, e) = IF e.ref \notin IdsOf(p) \/ rest = {} THEN e.ref ELSE p[least].id
    BY Zenon DEF KeptFrom
  <2> HIDE DEF rest, least
  <2> QED  BY <2>1, <2>2, Zenon
<1> HIDE DEF a
<1>4. /\ \A l : l \in rest <=> l \in 1..Len(p) /\ a <= l /\ ~IsLabel(p[l])
      /\ rest \in SUBSET Nat
  BY <1>1
<1> HIDE DEF rest
<1>5. \E l \in rest : \A j \in rest : l <= j
  BY <1>2, <1>4, Smallest
<1>6. least \in rest /\ \A j \in rest : least <= j
  BY <1>5
<1> HIDE DEF least
<1>7. least \in 1..Len(p) /\ a <= least /\ ~IsLabel(p[least]) /\ least <= k
  BY <1>2, <1>4, <1>6
<1>8. \A l \in 1..Len(p) : a <= l /\ ~IsLabel(p[l]) => least <= l
  BY <1>4, <1>6
<1> QED  BY <1>3, <1>7, <1>8 DEF a

\* What the last compaction keeps of the entries that are no labels is the same before and
\* after a branch became a session, whatever label its kept range began at.
LEMMA KeptSame ==
    ASSUME NEW p \in Seq(EntryType), Sound(p), NEW last \in 1..Len(p), Compacted(p[last]),
           NEW ids, NEW f, StandsFor(p, f, p[last]),
           Lasting(p) \subseteq ids, \A i \in ids : i < p[last].id => i \in Lasting(p)
    PROVE  \A i \in Lasting(p) :
             KeepsFrom(IdsOf(p), p[last]) <= i <=> KeepsFrom(ids, f) <= i
<1>1. PICK e \in EntryType : e = p[last]
  OBVIOUS
<1>2. PICK c : c = e.id
  OBVIOUS
<1>3. f.id = c /\ f.ref = KeptFrom(p, e) /\ ~IsLabel(p[last]) /\ p[last].id = c
  BY <1>1, <1>2 DEF StandsFor
<1>4. /\ \A k \in 1..Len(p) : p[k].id \in Nat
      /\ \A j, k \in 1..Len(p) : p[j].id <= p[k].id <=> j <= k
      /\ \A j, k \in 1..Len(p) : p[j].id < p[k].id <=> j < k
      /\ Len(p) \in Nat
  BY IdsGrow
<1>5. c \in Nat /\ e.ref \in Nat
  <2>1. c \in Nat
    BY <1>3, <1>4
  <2>2. e.ref \in Ids \cup {NoId}
    BY DEF EntryType
  <2> QED  BY <2>1, <2>2, BoundsAssumption DEF Ids, NoId
<1>6. \A i : i \in Lasting(p) <=> \E k \in 1..Len(p) : ~IsLabel(p[k]) /\ p[k].id = i
  BY LastingAt
<1>7. \A i \in Lasting(p) : i \in IdsOf(p)
  BY <1>6, IdsAt
<1>8. /\ KeepsFrom(IdsOf(p), p[last]) = IF e.ref \in IdsOf(p) /\ e.ref < c THEN e.ref ELSE c
      /\ KeepsFrom(ids, f) = IF f.ref \in ids /\ f.ref < c THEN f.ref ELSE c
  BY <1>1, <1>2, <1>3 DEF KeepsFrom
<1>9. CASE e.ref \notin IdsOf(p)
  <2>1. f.ref = e.ref
    BY <1>3, <1>9 DEF KeptFrom
  <2>2. ~(f.ref \in ids /\ f.ref < c)
    BY <1>3, <1>7, <1>9, <2>1
  <2> QED  BY <1>8, <1>9, <2>2
<1>10. CASE e.ref \in IdsOf(p) /\ e.ref < c
  <2>1. PICK a \in 1..Len(p) : a = At(p, e.ref) /\ p[a].id = e.ref
    BY <1>10, PlaceOf
  <2>2. a < last
    BY <1>3, <1>4, <1>10, <2>1
  <2>3. At(p, e.ref) <= last
    BY <2>1, <2>2
  <2>4. PICK m \in 1..Len(p) :
          /\ KeptFrom(p, e) = p[m].id /\ ~IsLabel(p[m]) /\ At(p, e.ref) <= m /\ m <= last
          /\ \A l \in 1..Len(p) : At(p, e.ref) <= l /\ ~IsLabel(p[l]) => m <= l
    BY <1>3, <1>10, <2>3, KeptAt
  <2>5. f.ref = p[m].id /\ a <= m /\ \A l \in 1..Len(p) : a <= l /\ ~IsLabel(p[l]) => m <= l
    BY <1>3, <2>1, <2>4
  <2>6. KeepsFrom(ids, f) = p[m].id
    <3>1. CASE m = last
      <4>1. f.ref = c
        BY <1>3, <2>5, <3>1
      <4> QED  BY <1>8, <2>5, <4>1
    <3>2. CASE m # last
      <4>1. p[m].id < c
        BY <1>3, <1>4, <2>4, <3>2
      <4>2. p[m].id \in ids
        BY <1>6, <2>4
      <4> QED  BY <1>8, <2>5, <4>1, <4>2
    <3> QED  BY <3>1, <3>2
  <2>7. KeepsFrom(IdsOf(p), p[last]) = p[a].id
    BY <1>8, <1>10, <2>1
  <2>8. ASSUME NEW i \in Lasting(p)
        PROVE  p[a].id <= i <=> p[m].id <= i
    <3>1. PICK k \in 1..Len(p) : ~IsLabel(p[k]) /\ p[k].id = i
      BY <1>6
    <3>2. a <= k <=> m <= k
      <4>1. a \in Nat /\ m \in Nat /\ k \in Nat
        OBVIOUS
      <4>2. m <= k => a <= k
        BY <2>5, <4>1
      <4> QED  BY <2>5, <3>1, <4>2
    <3> QED  BY <1>4, <3>1, <3>2
  <2> QED  BY <2>6, <2>7, <2>8
<1>11. CASE e.ref \in IdsOf(p) /\ ~(e.ref < c)
  <2>1. KeepsFrom(IdsOf(p), p[last]) = c
    BY <1>8, <1>11
  <2>2. PICK a \in 1..Len(p) : a = At(p, e.ref) /\ p[a].id = e.ref
    BY <1>11, PlaceOf
  <2>3. last <= a
    BY <1>3, <1>4, <1>11, <2>2
  <2>4. ~(f.ref < c)
    <3>1. CASE {k \in a..Len(p) : ~IsLabel(p[k])} = {}
      <4>1. f.ref = e.ref
        BY <1>3, <2>2, <3>1 DEF KeptFrom
      <4> QED  BY <1>11, <4>1
    <3>2. CASE {k \in a..Len(p) : ~IsLabel(p[k])} # {}
      <4>1. PICK k \in a..Len(p) : ~IsLabel(p[k])
        BY <3>2
      <4>2. k \in 1..Len(p) /\ At(p, e.ref) <= k
        BY <2>2, <4>1
      <4>3. PICK m \in 1..Len(p) : KeptFrom(p, e) = p[m].id /\ At(p, e.ref) <= m
        BY <1>11, <4>1, <4>2, KeptAt
      <4>4. last <= m
        BY <2>2, <2>3, <4>3
      <4>5. c <= p[m].id /\ p[m].id \in Nat
        BY <1>3, <1>4, <4>4
      <4> QED  BY <1>3, <1>5, <4>3, <4>5
    <3> QED  BY <3>1, <3>2
  <2> QED  BY <1>8, <2>1, <2>4
<1> QED  BY <1>9, <1>10, <1>11

\* Two contexts have the same entries in the same order.
SameReading(before, after) ==
    /\ IdsOf(before) = IdsOf(after) /\ Len(before) = Len(after)
    /\ \A k \in DOMAIN before : before[k].id = after[k].id

\* Behind entries with the same id, the same is read.
LEMMA ReadingJoins ==
    ASSUME NEW x \in EntryType, NEW y \in EntryType, x.id = y.id,
           NEW q \in Seq(EntryType), NEW r \in Seq(EntryType), SameReading(q, r)
    PROVE  SameReading(<<x>> \o q, <<y>> \o r)
<1> DEFINE g == <<x>>
           h == <<y>>
<1>1. /\ g \in Seq(EntryType) /\ Len(g) = 1 /\ g[1] = x
      /\ h \in Seq(EntryType) /\ Len(h) = 1 /\ h[1] = y
  BY OneElement
<1>2. IdsOf(g) = {x.id} /\ IdsOf(h) = {y.id}
  BY IdsOne
<1> HIDE DEF g, h
<1>3. PICK s : s = g \o q
  OBVIOUS
<1>4. PICK t : t = h \o r
  OBVIOUS
<1>5. /\ Len(s) = 1 + Len(q) /\ DOMAIN s = 1..(1 + Len(q)) /\ Len(q) \in Nat
      /\ s[1] = x /\ \A k \in 1..Len(q) : s[1 + k] = q[k]
  <2>1. /\ Len(g \o q) = Len(g) + Len(q) /\ DOMAIN (g \o q) = 1..(Len(g) + Len(q)) /\ Len(q) \in Nat
        /\ \A k \in 1..Len(g) : (g \o q)[k] = g[k]
        /\ \A k \in 1..Len(q) : (g \o q)[Len(g) + k] = q[k]
    <3>1. g \in Seq(EntryType)
      BY <1>1
    <3> QED  BY <3>1, JoinAt
  <2>2. 1 \in 1..1
    OBVIOUS
  <2>3. Len(g) = 1 /\ g[1] = x
    BY <1>1
  <2>4. s[1] = x /\ Len(s) = 1 + Len(q) /\ \A k \in 1..Len(q) : s[1 + k] = q[k]
    BY <1>3, <2>1, <2>2, <2>3
  <2> QED  BY <1>3, <2>1, <2>3, <2>4
<1>6. /\ Len(t) = 1 + Len(r) /\ Len(r) \in Nat
      /\ t[1] = y /\ \A k \in 1..Len(r) : t[1 + k] = r[k]
  <2>1. /\ Len(h \o r) = Len(h) + Len(r) /\ Len(r) \in Nat
        /\ \A k \in 1..Len(h) : (h \o r)[k] = h[k]
        /\ \A k \in 1..Len(r) : (h \o r)[Len(h) + k] = r[k]
    <3>1. h \in Seq(EntryType)
      BY <1>1
    <3> QED  BY <3>1, JoinAt
  <2>2. 1 \in 1..1
    OBVIOUS
  <2>3. Len(h) = 1 /\ h[1] = y
    BY <1>1
  <2>4. t[1] = y /\ Len(t) = 1 + Len(r) /\ \A k \in 1..Len(r) : t[1 + k] = r[k]
    BY <1>4, <2>1, <2>2, <2>3
  <2> QED  BY <1>4, <2>1, <2>3, <2>4
<1>7. IdsOf(s) = IdsOf(t)
  <2>1. IdsOf(g \o q) = IdsOf(g) \cup IdsOf(q) /\ IdsOf(h \o r) = IdsOf(h) \cup IdsOf(r)
    BY <1>1, IdsJoin
  <2> QED  BY <1>2, <1>3, <1>4, <2>1 DEF SameReading
<1>8. Len(q) = Len(r) /\ \A k \in 1..Len(q) : q[k].id = r[k].id
  <2>1. DOMAIN q = 1..Len(q)
    OBVIOUS
  <2> QED  BY <2>1 DEF SameReading
<1>9. ASSUME NEW k \in DOMAIN s
      PROVE  s[k].id = t[k].id
  <2>1. CASE k = 1
    BY <1>5, <1>6, <2>1
  <2>2. CASE k # 1
    <3>1. PICK j \in 1..Len(q) : k = 1 + j
      <4>1. k - 1 \in 1..Len(q) /\ k = 1 + (k - 1)
        BY <1>5, <2>2
      <4> QED  BY <4>1
    <3> QED  BY <1>5, <1>6, <1>8, <3>1
  <2> QED  BY <2>1, <2>2
<1>10. SameReading(s, t)
  BY <1>5, <1>6, <1>7, <1>8, <1>9 DEF SameReading
<1> QED  BY <1>3, <1>4, <1>10 DEF g, h

\* Sound entries with the same ids read the same.
LEMMA SameRead ==
    ASSUME NEW s \in Seq(EntryType), NEW t \in Seq(EntryType), Sound(s), Sound(t),
           IdsOf(s) = IdsOf(t)
    PROVE  SameReading(s, t)
<1>1. Len(s) = Len(t) /\ \A k \in 1..Len(s) : s[k].id = t[k].id
  BY SameIds
<1>2. DOMAIN s = 1..Len(s)
  OBVIOUS
<1> QED  BY <1>1, <1>2 DEF SameReading

\* A session made from a path reads as the path does.
LEMMA SameContext ==
    ASSUME NEW p \in Seq(EntryType), Sound(p), NEW u \in Seq(EntryType), Sound(u),
           Branched(p, u)
    PROVE  SameReading(NonLabels(ContextOf(p)), NonLabels(ContextOf(u)))
<1>1. /\ Lasting(u) = Lasting(p)
      /\ \A k \in 1..Len(u) : ~IsLabel(u[k]) => \E j \in 1..Len(p) : StandsFor(p, u[k], p[j])
      /\ \A j, k \in 1..Len(u) : IsLabel(u[k]) /\ ~IsLabel(u[j]) => u[j].id < u[k].id
  BY DEF Branched
<1>2. /\ \A k \in 1..Len(p) : p[k].id \in Nat
      /\ \A j, k \in 1..Len(p) : p[j].id <= p[k].id <=> j <= k
      /\ Len(p) \in Nat /\ DOMAIN p = 1..Len(p)
  BY IdsGrow
<1>3. /\ \A k \in 1..Len(u) : u[k].id \in Nat
      /\ \A j, k \in 1..Len(u) : u[j].id <= u[k].id <=> j <= k
      /\ Len(u) \in Nat /\ DOMAIN u = 1..Len(u)
  BY IdsGrow
<1>4. \A i : /\ i \in Lasting(p) <=> \E k \in 1..Len(p) : ~IsLabel(p[k]) /\ p[k].id = i
             /\ i \in Lasting(u) <=> \E k \in 1..Len(u) : ~IsLabel(u[k]) /\ u[k].id = i
  BY LastingAt
<1>5. \A e : Compacted(e) => ~IsLabel(e)
  BY DEF Compacted, IsLabel
<1>6. ASSUME NEW j \in 1..Len(p), ~IsLabel(p[j])
      PROVE  \E k \in 1..Len(u) : StandsFor(p, u[k], p[j])
  <2>1. PICK k \in 1..Len(u) : ~IsLabel(u[k]) /\ u[k].id = p[j].id
    BY <1>1, <1>4, <1>6
  <2>2. PICK l \in 1..Len(p) : StandsFor(p, u[k], p[l])
    BY <1>1, <2>1
  <2>3. p[l].id = p[j].id
    BY <2>1, <2>2 DEF StandsFor
  <2>4. l <= j /\ j <= l
    BY <1>2, <2>3
  <2>5. l = j
    BY <2>4
  <2> QED  BY <2>2, <2>5
<1>7. ASSUME NEW k \in 1..Len(u), Compacted(u[k])
      PROVE  \E j \in 1..Len(p) : Compacted(p[j]) /\ p[j].id = u[k].id
  <2>1. PICK j \in 1..Len(p) : StandsFor(p, u[k], p[j])
    BY <1>1, <1>5, <1>7
  <2> QED  BY <1>7, <2>1 DEF StandsFor, Compacted
<1> DEFINE P == {k \in 1..Len(p) : Compacted(p[k])}
<1>8. CASE P = {}
  <2>1. {k \in DOMAIN p : p[k].kind = "compaction"} = {}
    BY <1>2, <1>8 DEF Compacted
  <2>2. {k \in DOMAIN u : u[k].kind = "compaction"} = {}
    BY <1>3, <1>7, <1>8 DEF Compacted
  <2>3. ContextOf(p) = p
    BY <2>1, Zenon DEF ContextOf
  <2>4. ContextOf(u) = u
    BY <2>2, Zenon DEF ContextOf
  <2>5. /\ NonLabels(p) \in Seq(EntryType) /\ Sound(NonLabels(p)) /\ IdsOf(NonLabels(p)) = Lasting(p)
        /\ NonLabels(u) \in Seq(EntryType) /\ Sound(NonLabels(u)) /\ IdsOf(NonLabels(u)) = Lasting(u)
    BY NonLabelsFit
  <2>6. PICK s \in Seq(EntryType), t \in Seq(EntryType) : s = NonLabels(p) /\ t = NonLabels(u)
    BY <2>5
  <2>7. Sound(s) /\ Sound(t) /\ IdsOf(s) = IdsOf(t)
    BY <1>1, <2>5, <2>6
  <2>8. SameReading(s, t)
    BY <2>7, SameRead
  <2> QED  BY <2>3, <2>4, <2>6, <2>8
<1>9. CASE P # {}
  <2>1. PICK last \in 1..Len(p) : Compacted(p[last]) /\ \A k \in 1..Len(p) : Compacted(p[k]) => k <= last
    <3>1. P \in SUBSET (1..Len(p)) /\ \A k \in 1..Len(p) : k \in P <=> Compacted(p[k])
      OBVIOUS
    <3> HIDE DEF P
    <3>2. \E k \in P : \A l \in P : l <= k
      BY <1>2, <1>9, <3>1, Greatest
    <3> QED  BY <3>1, <3>2
  <2> HIDE DEF P
  <2>2. PICK top \in 1..Len(u) : StandsFor(p, u[top], p[last])
    BY <1>5, <1>6, <2>1
  <2>3. u[top].id = p[last].id /\ Compacted(u[top]) /\ ~IsLabel(u[top])
    BY <1>5, <2>1, <2>2 DEF StandsFor, Compacted
  <2>4. ASSUME NEW k \in 1..Len(u), Compacted(u[k])
        PROVE  k <= top
    <3>1. PICK j \in 1..Len(p) : Compacted(p[j]) /\ p[j].id = u[k].id
      BY <1>7, <2>4
    <3>2. j <= last
      BY <2>1, <3>1
    <3>3. p[j].id <= p[last].id
      BY <1>2, <3>2
    <3>4. u[k].id <= u[top].id
      BY <2>3, <3>1, <3>3
    <3> QED  BY <1>3, <3>4
  <2>5. PICK q \in Seq(EntryType) :
          /\ NonLabels(ContextOf(p)) = <<p[last]>> \o q /\ Sound(q)
          /\ IdsOf(q) = {i \in Lasting(p) : KeepsFrom(IdsOf(p), p[last]) <= i /\ i # p[last].id}
    BY <2>1, ContextFits
  <2>6. PICK r \in Seq(EntryType) :
          /\ NonLabels(ContextOf(u)) = <<u[top]>> \o r /\ Sound(r)
          /\ IdsOf(r) = {i \in Lasting(u) : KeepsFrom(IdsOf(u), u[top]) <= i /\ i # u[top].id}
    BY <2>3, <2>4, ContextFits
  <2>7. PICK ids : ids = IdsOf(u)
    OBVIOUS
  <2>8. Lasting(p) \subseteq ids
    <3>1. ASSUME NEW i \in Lasting(u)
          PROVE  i \in IdsOf(u)
      <4>1. PICK k \in 1..Len(u) : u[k].id = i
        BY <1>4, <3>1
      <4> QED  BY <4>1, IdsAt
    <3> QED  BY <1>1, <2>7, <3>1
  <2>9. ASSUME NEW i \in ids, i < p[last].id
        PROVE  i \in Lasting(p)
    <3>1. PICK k \in 1..Len(u) : u[k].id = i
      BY <2>7, IdsAt
    <3>2. ~(u[top].id < u[k].id)
      BY <1>3, <2>3, <2>9, <3>1
    <3>3. ~IsLabel(u[k])
      BY <1>1, <2>3, <3>2
    <3> QED  BY <1>1, <1>4, <3>1, <3>3
  <2>10. PICK f : f = u[top]
    OBVIOUS
  <2>11. \A i \in Lasting(p) : KeepsFrom(IdsOf(p), p[last]) <= i <=> KeepsFrom(ids, f) <= i
    <3>1. StandsFor(p, f, p[last])
      BY <2>2, <2>10
    <3> QED  BY <2>1, <2>8, <2>9, <3>1, KeptSame
  <2>12. IdsOf(q) = IdsOf(r)
    <3>1. IdsOf(r) = {i \in Lasting(u) : KeepsFrom(ids, f) <= i /\ i # u[top].id}
      BY <2>6, <2>7, <2>10
    <3>2. IdsOf(r) = {i \in Lasting(p) : KeepsFrom(ids, f) <= i /\ i # p[last].id}
      BY <1>1, <2>3, <3>1
    <3>3. IdsOf(q) = {i \in Lasting(p) : KeepsFrom(IdsOf(p), p[last]) <= i /\ i # p[last].id}
      BY <2>5
    <3> QED  BY <2>11, <3>2, <3>3
  <2>13. SameReading(q, r)
    BY <2>5, <2>6, <2>12, SameRead
  <2>14. PICK x \in EntryType, y \in EntryType : x = p[last] /\ y = u[top]
    OBVIOUS
  <2>15. SameReading(<<x>> \o q, <<y>> \o r)
    BY <2>3, <2>13, <2>14, ReadingJoins
  <2> QED  BY <2>5, <2>6, <2>14, <2>15
<1> QED  BY <1>8, <1>9

\* A branch that becomes a session of its own reads as before, for any session, labels and
\* compactions, after whatever failed before (createBranchedSession).
THEOREM ForkContextKept == Spec => ForkKeepsContext
<1>1. ASSUME IInv, NEW leaf \in Ids, CreateBranchedSession(leaf)
      PROVE  SameReading(NonLabels(ContextOf(BranchTo(memory.entries, leaf))),
                         NonLabels(ContextOf(BranchTo(memory'.entries, memory'.leaf))))
  <2>1. running /\ leaf \in IdsOf(memory.entries)
    BY <1>1 DEF CreateBranchedSession, Idle
  <2>2. PICK u : u = BranchedSession(leaf)
    OBVIOUS
  <2>3. PICK c : c = Cardinality({k \in DOMAIN u : IsLabel(u[k])})
    OBVIOUS
  <2>4. next + c <= MaxId + 1 /\ memory'.entries = u /\ memory'.leaf = LeafOf(u)
    BY <1>1, <2>2, <2>3 DEF CreateBranchedSession
  <2>5. u \in Seq(EntryType) /\ Sound(u) /\ Branched(BranchTo(memory.entries, leaf), u)
    BY <1>1, <2>1, <2>2, <2>3, <2>4, BranchedFits
  <2>6. BranchTo(memory.entries, leaf) \in Seq(EntryType) /\ Sound(BranchTo(memory.entries, leaf))
    <3>1. memory.entries \in Seq(EntryType) /\ Sound(memory.entries)
      BY <1>1, <2>1, AtHand DEF IInv, MemoryFits, EntriesFitIn
    <3>2. PICK es : es = memory.entries
      OBVIOUS
    <3>3. BranchTo(es, leaf) \in Seq(EntryType) /\ Sound(BranchTo(es, leaf))
      BY <2>1, <3>1, <3>2, BranchFits DEF PathFits
    <3> QED  BY <3>2, <3>3
  <2>7. PICK p \in Seq(EntryType) : p = BranchTo(memory.entries, leaf)
    BY <2>6
  <2>8. Sound(p) /\ Branched(p, u)
    BY <2>5, <2>6, <2>7
  <2>9. SameReading(NonLabels(ContextOf(p)), NonLabels(ContextOf(u)))
    BY <2>5, <2>8, SameContext
  <2>10. BranchTo(u, LeafOf(u)) = u
    BY <2>5, <2>8, LinearReads DEF Branched
  <2>11. BranchTo(memory'.entries, memory'.leaf) = u
    BY <2>4, <2>10
  <2> QED  BY <2>7, <2>9, <2>11
<1>2. ASSUME IInv
      PROVE  \A leaf \in Ids :
               CreateBranchedSession(leaf) =>
                 LET before == NonLabels(ContextOf(BranchTo(memory.entries, leaf)))
                     after == NonLabels(ContextOf(BranchTo(memory'.entries, memory'.leaf)))
                 IN  /\ IdsOf(before) = IdsOf(after) /\ Len(before) = Len(after)
                     /\ \A k \in DOMAIN before : before[k].id = after[k].id
  BY <1>1, <1>2 DEF SameReading
<1> QED  BY <1>2, Invariant, PTL DEF ForkKeepsContext
===============================================================================
