--------------------------- MODULE AgentInboxProofs ---------------------------
(*****************************************************************************)
(* AgentLoop implements MessageInbox, for every number of messages, tool     *)
(* calls and turns and either mode of each queue: the messages of a sender   *)
(* reach the conversation in the order they were sent and at most once, and  *)
(* those that are lost are lost for good.                                    *)
(*****************************************************************************)
EXTENDS AgentLoopProofs, FiniteSetTheorems

-------------------------------------------------------------------------------
(* Places in a sequence and their ranks. *)

\* A place behind all others has the last rank and changes none of theirs.
LEMMA RanksGrow ==
    ASSUME NEW n \in Nat, NEW P, P \subseteq 1..n
    PROVE  /\ IsFiniteSet(P) /\ Cardinality(P) \in Nat
           /\ Cardinality(P \cup {n + 1}) = Cardinality(P) + 1
           /\ \A i \in 1..Cardinality(P) : RankedIn(P \cup {n + 1}, i) = RankedIn(P, i)
           /\ RankedIn(P \cup {n + 1}, Cardinality(P) + 1) = {n + 1}
  <1> DEFINE Q == P \cup {n + 1}
             c == Cardinality(P)
  <1>1. IsFiniteSet(1..n)
    BY FS_Interval
  <1>2. IsFiniteSet(P) /\ c \in Nat
    BY <1>1, FS_Subset, FS_CardinalityType
  <1>3. n + 1 \notin P
    OBVIOUS
  <1>4. Cardinality(Q) = c + 1
    BY <1>2, <1>3, FS_AddElement
  <1>5. \A k \in P : {j \in Q : j <= k} = {j \in P : j <= k}
    OBVIOUS
  <1>6. {j \in Q : j <= n + 1} = Q
    <2>1. \A j \in Q : j <= n + 1
      OBVIOUS
    <2> HIDE DEF Q
    <2> QED  BY <2>1
  <1>7. ASSUME NEW k \in P  PROVE Cardinality({j \in P : j <= k}) <= c
    BY <1>2, FS_Subset
  <1>8. ASSUME NEW i \in 1..c  PROVE RankedIn(Q, i) = RankedIn(P, i)
    <2>1. i # c + 1
      BY <1>2
    <2>2. Cardinality({j \in Q : j <= n + 1}) # i
      BY <1>4, <1>6, <2>1
    <2> QED  BY <1>5, <2>2 DEF RankedIn
  <1>9. RankedIn(Q, c + 1) = {n + 1}
    <2>1. \A k \in P : Cardinality({j \in Q : j <= k}) # c + 1
      <3> SUFFICES ASSUME NEW k \in P, Cardinality({j \in Q : j <= k}) = c + 1
                   PROVE  FALSE
        OBVIOUS
      <3>1. Cardinality({j \in P : j <= k}) = c + 1
        BY <1>5
      <3>2. c + 1 <= c
        BY <1>7, <3>1
      <3> QED  BY <1>2, <3>2
    <2>2. Cardinality({j \in Q : j <= n + 1}) = c + 1
      BY <1>4, <1>6
    <2> QED  BY <2>1, <2>2 DEF RankedIn
  <1> QED  BY <1>2, <1>4, <1>8, <1>9

\* In a full range the rank of a place is the place.
LEMMA RanksOfRange ==
    ASSUME NEW n \in Nat
    PROVE  Cardinality(1..n) = n /\ \A i \in 1..n : RankedIn(1..n, i) = {i}
  <1>1. \A m \in Nat : Cardinality(1..m) = m
    BY FS_Interval
  <1>2. ASSUME NEW k \in 1..n
        PROVE  Cardinality({j \in 1..n : j <= k}) = k
    <2>1. {j \in 1..n : j <= k} = 1..k
      OBVIOUS
    <2>2. Cardinality(1..k) = k
      BY <1>1
    <2> QED  BY <2>1, <2>2
  <1> QED  BY <1>1, <1>2 DEF RankedIn

-------------------------------------------------------------------------------
(* The messages of a sender. *)

\* Every message of a sender has its rank.
Ranked(s, via) ==
    \A i \in 1..Cardinality(TheirsIn(s, via)) : RankedIn(TheirsIn(s, via), i) # {}

\* Their numbers, when there are no others.
Numbers(s) == [k \in DOMAIN s |-> s[k].id]

LEMMA IdsOfNone ==
    ASSUME NEW s, NEW via, TheirsIn(s, via) = {}
    PROVE  Ids(s, via) = <<>> /\ Ranked(s, via)
  <1>1. Cardinality(TheirsIn(s, via)) = 0
    BY FS_EmptySet
  <1> QED  BY <1>1 DEF Ids, Ranked

LEMMA IdsOfAll ==
    ASSUME NEW via, NEW s, Of(s, via)
    PROVE  Ids(s, via) = Numbers(s)
  <1> DEFINE n == Len(s)
             Nth(i) == CHOOSE k \in RankedIn(TheirsIn(s, via), i) : TRUE
  <1>1. n \in Nat /\ DOMAIN s = 1..n /\ \A k \in 1..n : s[k].role = "user" /\ s[k].via = via
    <2>1. s \in Seq(UserMessage) /\ \A i \in DOMAIN s : s[i].via = via
      BY DEF Of
    <2>2. n \in Nat /\ DOMAIN s = 1..n /\ \A k \in 1..n : s[k] \in UserMessage
      BY <2>1
    <2>3. \A m \in UserMessage : m.role = "user"
      BY DEF UserMessage
    <2> QED  BY <2>1, <2>2, <2>3
  <1>2. TheirsIn(s, via) = 1..n
    BY <1>1 DEF TheirsIn
  <1>3. Cardinality(TheirsIn(s, via)) = n
    BY <1>1, <1>2, RanksOfRange
  <1>4. \A i \in 1..n : RankedIn(TheirsIn(s, via), i) = {i}
    BY <1>1, <1>2, RanksOfRange
  <1>5. ASSUME NEW i \in 1..n  PROVE Nth(i) = i
    BY <1>4
  <1>6. Ids(s, via) = [i \in 1..n |-> s[Nth(i)].id]
    BY <1>3 DEF Ids
  <1> HIDE DEF Nth
  <1> QED  BY <1>1, <1>5, <1>6 DEF Numbers

\* A function over the first numbers is a sequence.
LEMMA SequenceOf ==
    ASSUME NEW n \in Nat, NEW S, NEW f \in [1..n -> S]
    PROVE  f \in Seq(S) /\ Len(f) = n /\ DOMAIN f = 1..n
  OBVIOUS

\* Sequences are equal place by place.
LEMMA SameSequence ==
    ASSUME NEW S, NEW s \in Seq(S), NEW t \in Seq(S), Len(s) = Len(t),
           \A k \in 1..Len(t) : s[k] = t[k]
    PROVE  s = t
  OBVIOUS

\* Two rows, one behind the other.
LEMMA JoinAt ==
    ASSUME NEW S, NEW s \in Seq(S), NEW t \in Seq(S)
    PROVE  /\ s \o t \in Seq(S) /\ Len(s \o t) = Len(s) + Len(t)
           /\ \A k \in 1..Len(s) : (s \o t)[k] = s[k]
           /\ \A k \in 1..Len(t) : (s \o t)[Len(s) + k] = t[k]
  OBVIOUS

LEMMA JoinEmpty ==
    ASSUME NEW S, NEW s \in Seq(S)
    PROVE  <<>> \o s = s /\ s \o <<>> = s
  OBVIOUS

\* The first of two rows leaves.
LEMMA FirstLeaves ==
    ASSUME NEW S, NEW s \in Seq(S), NEW t \in Seq(S), s # <<>>
    PROVE  s \o t # <<>> /\ Head(s \o t) = Head(s) /\ Tail(s \o t) = Tail(s) \o t
  <1> DEFINE w == s \o t
             a == Tail(s)
             x == Tail(w)
             y == a \o t
             n == Len(s)
             l == Len(t)
  <1>1. n \in Nat /\ n # 0 /\ l \in Nat
    OBVIOUS
  <1>2. /\ w \in Seq(S) /\ Len(w) = n + l
        /\ \A k \in 1..n : w[k] = s[k]
        /\ \A k \in 1..l : w[n + k] = t[k]
    BY JoinAt
  <1>3. a \in Seq(S) /\ Len(a) = n - 1 /\ \A k \in 1..(n - 1) : a[k] = s[k + 1]
    BY <1>1
  <1>4. Head(s) = s[1]
    OBVIOUS
  <1> HIDE DEF w, a
  <1>5. /\ y \in Seq(S) /\ Len(y) = Len(a) + l
        /\ \A k \in 1..Len(a) : y[k] = a[k]
        /\ \A k \in 1..l : y[Len(a) + k] = t[k]
    <2> HIDE DEF n, x
    <2>1. a \in Seq(S)
      BY <1>3
    <2>2. /\ a \o t \in Seq(S) /\ Len(a \o t) = Len(a) + Len(t)
          /\ \A k \in 1..Len(a) : (a \o t)[k] = a[k]
          /\ \A k \in 1..Len(t) : (a \o t)[Len(a) + k] = t[k]
      BY <2>1, JoinAt
    <2> QED  BY <2>2
  <1> HIDE DEF n, l, y
  <1>6. w # <<>> /\ Head(w) = w[1] /\ x \in Seq(S) /\ Len(x) = (n + l) - 1
        /\ \A k \in 1..((n + l) - 1) : x[k] = w[k + 1]
    BY <1>1, <1>2
  <1> HIDE DEF x
  <1>7. Head(w) = Head(s)
    BY <1>1, <1>2, <1>4, <1>6
  <1>8. Len(y) = (n + l) - 1
    BY <1>1, <1>3, <1>5
  <1>9. ASSUME NEW k \in 1..((n + l) - 1)  PROVE x[k] = y[k]
    <2>1. CASE k <= n - 1
      <3>1. k \in 1..(n - 1) /\ k + 1 \in 1..n
        BY <1>1, <2>1
      <3> QED  BY <1>2, <1>3, <1>5, <1>6, <3>1
    <2>2. CASE ~(k <= n - 1)
      <3> DEFINE i == k - (n - 1)
      <3>1. i \in 1..l /\ (n - 1) + i = k /\ n + i = k + 1
        BY <1>1, <2>2
      <3> HIDE DEF i
      <3>2. y[Len(a) + i] = t[i] /\ w[n + i] = t[i]
        BY <1>2, <1>5, <3>1
      <3>3. x[k] = w[k + 1] /\ Len(a) = n - 1
        BY <1>3, <1>6
      <3> QED  BY <3>1, <3>2, <3>3
    <2> QED  BY <2>1, <2>2
  <1>10. x = y
    BY <1>5, <1>6, <1>8, <1>9, SameSequence
  <1> QED  BY <1>6, <1>7, <1>10 DEF w, a, x, y

\* The front and the back of two rows.
LEMMA FrontOf ==
    ASSUME NEW S, NEW s \in Seq(S), NEW t \in Seq(S)
    PROVE  /\ 1 \in 1..(Len(s \o t) + 1) /\ Len(s) \in 0..Len(s \o t)
           /\ s \o <<>> = SubSeq(s \o t, 1, Len(s))
  <1> DEFINE w == s \o t
             a == SubSeq(w, 1, Len(s))
  <1>1. /\ w \in Seq(S) /\ Len(w) = Len(s) + Len(t) /\ Len(s) \in Nat /\ Len(t) \in Nat
        /\ \A k \in 1..Len(s) : w[k] = s[k]
    BY JoinAt
  <1> HIDE DEF w
  <1>2. a \in Seq(S) /\ Len(a) = Len(s) /\ \A k \in 1..Len(s) : a[k] = w[k]
    BY <1>1
  <1> HIDE DEF a
  <1>3. a = s
    BY <1>1, <1>2, SameSequence
  <1>4. s \o <<>> = s
    BY JoinEmpty
  <1>5. 1 \in 1..(Len(w) + 1) /\ Len(s) \in 0..Len(w)
    BY <1>1
  <1> QED  BY <1>3, <1>4, <1>5 DEF a, w

LEMMA BackOf ==
    ASSUME NEW S, NEW s \in Seq(S), NEW t \in Seq(S)
    PROVE  /\ Len(s) + 1 \in 1..(Len(s \o t) + 1) /\ Len(s \o t) \in 0..Len(s \o t)
           /\ <<>> \o t = SubSeq(s \o t, Len(s) + 1, Len(s \o t))
  <1> DEFINE w == s \o t
             b == SubSeq(w, Len(s) + 1, Len(w))
  <1>1. /\ w \in Seq(S) /\ Len(w) = Len(s) + Len(t) /\ Len(s) \in Nat /\ Len(t) \in Nat
        /\ \A k \in 1..Len(t) : w[Len(s) + k] = t[k]
    BY JoinAt
  <1> HIDE DEF w
  <1>2. b \in Seq(S) /\ Len(b) = Len(t)
    BY <1>1
  <1>3. \A k \in 1..Len(t) : b[k] = w[Len(s) + k]
    BY <1>1
  <1> HIDE DEF b
  <1>4. b = t
    BY <1>1, <1>2, <1>3, SameSequence
  <1>5. <<>> \o t = t
    BY JoinEmpty
  <1>6. Len(s) + 1 \in 1..(Len(w) + 1) /\ Len(w) \in 0..Len(w)
    BY <1>1
  <1> QED  BY <1>4, <1>5, <1>6 DEF b, w

\* The messages of a sender in a conversation that goes on.
LEMMA IdsAppend ==
    ASSUME NEW s \in Seq(Entries), NEW e \in Entries, NEW via, Ranked(s, via)
    PROVE  /\ Ranked(Append(s, e), via)
           /\ Ids(s, via) \in Seq(1..MaxMessages)
           /\ IF e.role = "user" /\ e.via = via
                THEN Ids(Append(s, e), via) = Append(Ids(s, via), e.id)
                ELSE Ids(Append(s, e), via) = Ids(s, via)
  <1> DEFINE n == Len(s)
             t == Append(s, e)
             P == TheirsIn(s, via)
             Q == TheirsIn(t, via)
             c == Cardinality(P)
             At(R, i) == CHOOSE k \in RankedIn(R, i) : TRUE
  <1>1. /\ t \in Seq(Entries) /\ n \in Nat /\ DOMAIN s = 1..n /\ DOMAIN t = 1..(n + 1)
        /\ t[n + 1] = e /\ \A k \in 1..n : t[k] = s[k]
    BY AppendAt
  <1> HIDE DEF t, n
  <1>2. P \subseteq 1..n
    BY <1>1 DEF TheirsIn
  <1>3. /\ c \in Nat
        /\ Cardinality(P \cup {n + 1}) = c + 1
        /\ \A i \in 1..c : RankedIn(P \cup {n + 1}, i) = RankedIn(P, i)
        /\ RankedIn(P \cup {n + 1}, c + 1) = {n + 1}
    BY <1>1, <1>2, RanksGrow
  <1>4. \A k \in P : s[k] \in UserMessage
    <2> SUFFICES ASSUME NEW k \in P  PROVE s[k] \in UserMessage
      OBVIOUS
    <2>1. s[k] \in Entries /\ s[k].role = "user"
      BY <1>1 DEF TheirsIn
    <2> QED  BY <2>1 DEF Entries, Answers, Results
  <1>5. \A i \in 1..c : RankedIn(P, i) # {} /\ RankedIn(P, i) \subseteq P
    BY DEF Ranked, RankedIn
  <1>6. \A i \in 1..c : At(P, i) \in P
    BY <1>5
  <1>7. Ids(s, via) = [i \in 1..c |-> s[At(P, i)].id]
    BY DEF Ids
  <1>8. Ids(t, via) = [i \in 1..Cardinality(Q) |-> t[At(Q, i)].id]
    BY DEF Ids
  <1> HIDE DEF At, P
  <1>9. \A i \in 1..c : s[At(P, i)].id \in 1..MaxMessages
    BY <1>4, <1>6 DEF UserMessage
  <1>10. Ids(s, via) \in Seq(1..MaxMessages) /\ Len(Ids(s, via)) = c
    <2> DEFINE f == [i \in 1..c |-> s[At(P, i)].id]
    <2>1. f \in [1..c -> 1..MaxMessages]
      BY <1>9
    <2> HIDE DEF f
    <2>2. f \in Seq(1..MaxMessages) /\ Len(f) = c
      BY <1>3, <2>1, SequenceOf
    <2> QED  BY <1>7, <2>2 DEF f
  <1>11. CASE e.role = "user" /\ e.via = via
    <2>1. Q = P \cup {n + 1}
      BY <1>1, <1>11 DEF TheirsIn, P
    <2> HIDE DEF Q
    <2>2. \A i \in 1..c : At(Q, i) = At(P, i)
      BY <1>3, <2>1 DEF At
    <2>3. At(Q, c + 1) = n + 1
      BY <1>3, <2>1 DEF At
    <2>4. Ids(t, via) = [i \in 1..(c + 1) |-> t[At(Q, i)].id]
      BY <1>3, <1>8, <2>1
    <2>5. \A i \in 1..c : t[At(Q, i)].id = s[At(P, i)].id
      BY <1>1, <1>2, <1>6, <2>2
    <2>6. t[At(Q, c + 1)].id = e.id
      BY <1>1, <2>3
    <2>7. e.id \in 1..MaxMessages
      BY <1>11 DEF Entries, Answers, Results, UserMessage
    <2>8. Ids(t, via) = Append(Ids(s, via), e.id)
      <3>1. \A i \in 1..(c + 1) : i \in 1..c \/ i = c + 1
        BY <1>3
      <3>2. Append(Ids(s, via), e.id) =
              [i \in 1..(c + 1) |-> IF i = c + 1 THEN e.id ELSE s[At(P, i)].id]
        BY <1>3, <1>7, <1>10, <2>7
      <3> QED  BY <1>3, <2>4, <2>5, <2>6, <3>1, <3>2
    <2>9. Ranked(t, via)
      <3>1. \A i \in 1..(c + 1) : i \in 1..c \/ i = c + 1
        BY <1>3
      <3>2. \A i \in 1..(c + 1) : RankedIn(Q, i) # {}
        BY <1>3, <1>5, <2>1, <3>1
      <3>3. Cardinality(Q) = c + 1
        BY <1>3, <2>1
      <3> QED  BY <3>2, <3>3 DEF Ranked, Q
    <2> QED  BY <1>10, <1>11, <2>8, <2>9 DEF t
  <1>12. CASE ~(e.role = "user" /\ e.via = via)
    <2>1. Q = P
      BY <1>1, <1>12 DEF TheirsIn, P
    <2> HIDE DEF Q
    <2>2. \A i \in 1..c : t[At(Q, i)].id = s[At(P, i)].id
      BY <1>1, <1>2, <1>6, <2>1
    <2>3. Ids(t, via) = Ids(s, via)
      BY <1>7, <1>8, <2>1, <2>2
    <2>4. Ranked(t, via)
      BY <2>1 DEF Ranked, Q, P
    <2> QED  BY <1>10, <1>12, <2>3, <2>4 DEF t
  <1> QED  BY <1>11, <1>12

-------------------------------------------------------------------------------
(* The numbers of messages on their way. *)

LEMMA NumbersOf ==
    ASSUME NEW s \in Seq(UserMessage)
    PROVE  /\ Numbers(s) \in Seq(1..MaxMessages)
           /\ Len(s) \in Nat /\ Len(Numbers(s)) = Len(s) /\ DOMAIN s = 1..Len(s)
           /\ \A k \in 1..Len(s) : Numbers(s)[k] = s[k].id
  <1>1. Len(s) \in Nat /\ DOMAIN s = 1..Len(s) /\ \A k \in 1..Len(s) : s[k] \in UserMessage
    OBVIOUS
  <1>2. Numbers(s) \in [1..Len(s) -> 1..MaxMessages]
    BY <1>1 DEF Numbers, UserMessage
  <1>3. \A k \in 1..Len(s) : Numbers(s)[k] = s[k].id
    BY <1>1 DEF Numbers
  <1> QED  BY <1>1, <1>2, <1>3, SequenceOf

LEMMA NumbersAppend ==
    ASSUME NEW s \in Seq(UserMessage), NEW m \in UserMessage
    PROVE  Numbers(Append(s, m)) = Append(Numbers(s), m.id)
  <1> DEFINE t == Append(s, m)
             n == Len(s)
  <1>1. /\ t \in Seq(UserMessage) /\ n \in Nat /\ Len(t) = n + 1
        /\ \A k \in 1..n : t[k] = s[k]
        /\ t[n + 1] = m
    BY AppendAt
  <1>2. m.id \in 1..MaxMessages
    BY DEF UserMessage
  <1> HIDE DEF t
  <1>3. /\ Numbers(t) \in Seq(1..MaxMessages) /\ Len(Numbers(t)) = n + 1
        /\ \A k \in 1..(n + 1) : Numbers(t)[k] = t[k].id
    BY <1>1, NumbersOf
  <1>4. /\ Numbers(s) \in Seq(1..MaxMessages) /\ Len(Numbers(s)) = n
        /\ \A k \in 1..n : Numbers(s)[k] = s[k].id
    BY NumbersOf
  <1> HIDE DEF n
  <1>5. Numbers(t) = Append(Numbers(s), m.id)
    <2> DEFINE T == 1..MaxMessages
               x == Numbers(s)
               y == Numbers(t)
               z == Append(x, m.id)
    <2>1. m.id \in T /\ x \in Seq(T) /\ y \in Seq(T)
      BY <1>2, <1>3, <1>4
    <2>2. Len(x) = n /\ Len(y) = n + 1 /\ y[n + 1] = m.id
      BY <1>1, <1>3, <1>4
    <2>3. ASSUME NEW k \in 1..n  PROVE y[k] = x[k]
      <3>1. k \in 1..(n + 1)
        BY <1>1
      <3>2. y[k] = t[k].id /\ t[k] = s[k] /\ x[k] = s[k].id
        BY <1>1, <1>3, <1>4, <3>1
      <3> QED  BY <3>2
    <2> HIDE DEF T, x, y
    <2>4. /\ z \in Seq(T) /\ Len(z) = n + 1 /\ z[n + 1] = m.id
          /\ \A k \in 1..n : z[k] = x[k]
      BY <2>1, <2>2, AppendAt
    <2> HIDE DEF z
    <2>5. \A k \in 1..(n + 1) : k \in 1..n \/ k = n + 1
      BY <1>1
    <2>6. \A k \in 1..(n + 1) : y[k] = z[k]
      BY <2>2, <2>3, <2>4, <2>5
    <2>7. y = z
      BY <2>1, <2>2, <2>4, <2>6, SameSequence
    <2> QED  BY <2>7 DEF x, y, z
  <1> QED  BY <1>5 DEF t

\* A message leaves the front of a row.
LEMMA NumbersTail ==
    ASSUME NEW s \in Seq(UserMessage), s # <<>>
    PROVE  /\ Tail(s) \in Seq(UserMessage) /\ Numbers(s) # <<>>
           /\ Head(Numbers(s)) = s[1].id /\ Numbers(Tail(s)) = Tail(Numbers(s))
  <1> DEFINE t == Tail(s)
             n == Len(s)
  <1>1. /\ n \in Nat \ {0} /\ t \in Seq(UserMessage) /\ Len(t) = n - 1
        /\ \A k \in 1..(n - 1) : t[k] = s[k + 1]
    OBVIOUS
  <1> HIDE DEF t
  <1>2. /\ Numbers(t) \in Seq(1..MaxMessages) /\ Len(Numbers(t)) = n - 1
        /\ \A k \in 1..(n - 1) : Numbers(t)[k] = t[k].id
    BY <1>1, NumbersOf
  <1>3. /\ Numbers(s) \in Seq(1..MaxMessages) /\ Len(Numbers(s)) = n
        /\ \A k \in 1..n : Numbers(s)[k] = s[k].id
    BY NumbersOf
  <1> HIDE DEF n
  <1>4. Numbers(s) # <<>> /\ Head(Numbers(s)) = s[1].id
    BY <1>1, <1>3
  <1>5. Numbers(t) = Tail(Numbers(s))
    BY <1>1, <1>2, <1>3
  <1> QED  BY <1>1, <1>4, <1>5 DEF t

\* A row is cut in two.
LEMMA NumbersCut ==
    ASSUME NEW s \in Seq(UserMessage), NEW n \in 0..Len(s)
    PROVE  Numbers(s) = Numbers(SubSeq(s, 1, n)) \o Numbers(SubSeq(s, n + 1, Len(s)))
  <1> DEFINE a == SubSeq(s, 1, n)
             b == SubSeq(s, n + 1, Len(s))
             l == Len(s)
  <1>1. /\ l \in Nat /\ n \in Nat /\ n <= l
        /\ a \in Seq(UserMessage) /\ Len(a) = n /\ \A k \in 1..n : a[k] = s[k]
        /\ b \in Seq(UserMessage) /\ Len(b) = l - n
        /\ \A k \in 1..(l - n) : b[k] = s[n + k]
    <2>1. l \in Nat /\ n \in Nat /\ n <= l
      OBVIOUS
    <2>2. a \in Seq(UserMessage) /\ Len(a) = n /\ \A k \in 1..n : a[k] = s[k]
      BY <2>1
    <2>3. b \in Seq(UserMessage) /\ Len(b) = l - n
      BY <2>1
    <2>4. \A k \in 1..(l - n) : b[k] = s[n + k]
      BY <2>1
    <2> QED  BY <2>1, <2>2, <2>3, <2>4
  <1> HIDE DEF a, b
  <1>2. /\ Numbers(a) \in Seq(1..MaxMessages) /\ Len(Numbers(a)) = n
        /\ \A k \in 1..n : Numbers(a)[k] = a[k].id
    BY <1>1, NumbersOf
  <1>3. /\ Numbers(b) \in Seq(1..MaxMessages) /\ Len(Numbers(b)) = l - n
        /\ \A k \in 1..(l - n) : Numbers(b)[k] = b[k].id
    BY <1>1, NumbersOf
  <1>4. /\ Numbers(s) \in Seq(1..MaxMessages) /\ Len(Numbers(s)) = l
        /\ \A k \in 1..l : Numbers(s)[k] = s[k].id
    BY NumbersOf
  <1> HIDE DEF l
  <1>5. Numbers(s) = Numbers(a) \o Numbers(b)
    <2> DEFINE T == 1..MaxMessages
               x == Numbers(a)
               y == Numbers(b)
               z == Numbers(s)
               w == x \o y
    <2>1. x \in Seq(T) /\ y \in Seq(T) /\ z \in Seq(T)
      BY <1>2, <1>3, <1>4
    <2>2. Len(x) = n /\ Len(y) = l - n /\ Len(z) = l
      BY <1>2, <1>3, <1>4
    <2>3. ASSUME NEW k \in 1..n  PROVE x[k] = z[k]
      <3>1. k \in 1..l
        BY <1>1
      <3>2. x[k] = a[k].id /\ a[k] = s[k] /\ z[k] = s[k].id
        BY <1>1, <1>2, <1>4, <3>1
      <3> QED  BY <3>2
    <2>4. ASSUME NEW k \in 1..(l - n)  PROVE y[k] = z[n + k]
      <3>1. n + k \in 1..l
        BY <1>1
      <3>2. y[k] = b[k].id /\ b[k] = s[n + k]
        BY <1>1, <1>3
      <3>3. z[n + k] = s[n + k].id
        BY <1>4, <3>1
      <3> QED  BY <3>2, <3>3
    <2> HIDE DEF T, x, y, z
    <2>5. /\ w \in Seq(T) /\ Len(w) = n + (l - n)
          /\ \A k \in 1..n : w[k] = x[k]
          /\ \A k \in 1..(l - n) : w[n + k] = y[k]
      <3>1. /\ w \in Seq(T) /\ Len(w) = Len(x) + Len(y)
            /\ \A k \in 1..Len(x) : w[k] = x[k]
            /\ \A k \in 1..Len(y) : w[Len(x) + k] = y[k]
        BY <2>1, JoinAt
      <3> HIDE DEF w
      <3> QED  BY <2>2, <3>1
    <2> HIDE DEF w
    <2>6. ASSUME NEW k \in 1..l  PROVE z[k] = w[k]
      <3>1. CASE k <= n
        <4>1. k \in 1..n
          BY <1>1, <3>1
        <4> QED  BY <2>3, <2>5, <4>1
      <3>2. CASE ~(k <= n)
        <4> DEFINE i == k - n
        <4>1. i \in 1..(l - n) /\ n + i = k
          BY <1>1, <3>2
        <4> HIDE DEF i
        <4>2. w[n + i] = y[i] /\ y[i] = z[n + i]
          BY <2>4, <2>5, <4>1
        <4> QED  BY <4>1, <4>2
      <3> QED  BY <3>1, <3>2
    <2>7. Len(w) = l
      <3>1. n + (l - n) = l
        BY <1>1
      <3> QED  BY <2>5, <3>1
    <2>8. z = w
      BY <2>1, <2>2, <2>5, <2>6, <2>7, SameSequence
    <2> QED  BY <2>8 DEF x, y, z, w
  <1> QED  BY <1>5 DEF a, b

\* The messages on their way are those of their sender, and of no other.
LEMMA IdsOfOne ==
    ASSUME NEW s, OneSender(s), NEW via
    PROVE  /\ Ids(s, via) \in Seq(1..MaxMessages)
           /\ s = <<>> \/ s[1].via # via => Ids(s, via) = <<>>
           /\ s = <<>> \/ s[1].via = via => Ids(s, via) = Numbers(s) /\ Of(s, via)
  <1>1. s \in Seq(UserMessage) /\ Len(s) \in Nat /\ DOMAIN s = 1..Len(s)
    BY DEF OneSender
  <1>2. \A i \in DOMAIN s : s[i].via = s[1].via
    <2>1. \A i \in DOMAIN s : 1 \in DOMAIN s
      BY <1>1
    <2> QED  BY <2>1 DEF OneSender
  <1>3. ASSUME s = <<>> \/ s[1].via # via  PROVE Ids(s, via) = <<>>
    <2>1. TheirsIn(s, via) = {}
      BY <1>1, <1>2, <1>3 DEF TheirsIn
    <2> QED  BY <2>1, IdsOfNone
  <1>4. ASSUME s = <<>> \/ s[1].via = via  PROVE Ids(s, via) = Numbers(s) /\ Of(s, via)
    <2>1. Of(s, via)
      BY <1>1, <1>2, <1>4 DEF Of
    <2> QED  BY <2>1, IdsOfAll
  <1>5. Numbers(s) \in Seq(1..MaxMessages)
    BY <1>1, NumbersOf
  <1>6. Ids(s, via) \in Seq(1..MaxMessages)
    <2>1. CASE s = <<>> \/ s[1].via = via
      BY <1>4, <1>5, <2>1
    <2>2. CASE s[1].via # via
      <3>1. <<>> \in Seq(1..MaxMessages)
        OBVIOUS
      <3> QED  BY <1>3, <2>2, <3>1
    <2> QED  BY <2>1, <2>2
  <1> QED  BY <1>3, <1>4, <1>6

-------------------------------------------------------------------------------
(* The mapping. *)

\* What MessageInbox sees of the loop.
waitingOf == [via \in Senders |-> Waits(via)]
deliveredOf == [via \in Senders |-> Ids(transcript, via)]

\* Every sender's messages of the conversation have their ranks.
AllRanked == \A via \in Senders : Ranked(transcript, via)

\* What waits is on its way or in its queue.
Behind(w, via) == IF via \in Queues THEN Numbers(w[via]) ELSE <<>>

LEMMA WaitsOf ==
    ASSUME Shape, Shape', NEW via \in Senders
    PROVE  /\ Waits(via) = Ids(inject, via) \o Behind(queue, via)
           /\ Waits(via)' = Ids(inject', via) \o Behind(queue', via)
           /\ Ids(transcript, via)' = Ids(transcript', via)
           /\ Ids(inject, via) \in Seq(1..MaxMessages)
           /\ Ids(inject', via) \in Seq(1..MaxMessages)
           /\ Behind(queue, via) \in Seq(1..MaxMessages)
           /\ Behind(queue', via) \in Seq(1..MaxMessages)
  <1>1. OneSender(inject) /\ OneSender(inject') /\ QueueShape /\ QueueShape'
    <2>1. OneSender(inject)' <=> OneSender(inject')
      BY DEF OneSender
    <2> QED  BY <2>1 DEF Shape
  <1>2. Ids(inject, via) \in Seq(1..MaxMessages) /\ Ids(inject', via) \in Seq(1..MaxMessages)
    BY <1>1, IdsOfOne
  <1>3. ASSUME NEW q \in Queues
        PROVE  /\ Of(queue[q], q) /\ Of(queue'[q], q)
    BY <1>1 DEF QueueShape, Of
  <1>4. ASSUME NEW q \in Queues
        PROVE  /\ Ids(queue[q], q) = Numbers(queue[q])
               /\ Ids(queue'[q], q) = Numbers(queue'[q])
    BY <1>3, IdsOfAll
  <1>5. <<>> \in Seq(1..MaxMessages)
    OBVIOUS
  <1>6. ASSUME NEW q \in Queues
        PROVE  /\ Numbers(queue[q]) \in Seq(1..MaxMessages)
               /\ Numbers(queue'[q]) \in Seq(1..MaxMessages)
    <2>1. queue[q] \in Seq(UserMessage) /\ queue'[q] \in Seq(UserMessage)
      BY <1>3 DEF Of
    <2> QED  BY <2>1, NumbersOf
  <1>7. /\ Behind(queue, via) \in Seq(1..MaxMessages)
        /\ Behind(queue', via) \in Seq(1..MaxMessages)
    BY <1>5, <1>6 DEF Behind
  <1>8. Waits(via) = Ids(inject, via) \o Behind(queue, via)
    BY <1>4 DEF Waits, Behind
  <1>9. Waits(via)' = Ids(inject', via) \o Behind(queue', via)
    BY <1>4 DEF Waits, Behind
  <1>10. Ids(transcript, via)' = Ids(transcript', via)
    BY DEF Ids
  <1> QED  BY <1>2, <1>7, <1>8, <1>9, <1>10

\* No waiting and no delivered message changes.
LEMMA Stutters ==
    ASSUME sent' = sent,
           \A via \in Senders : Waits(via)' = Waits(via)
             /\ Ids(transcript, via)' = Ids(transcript, via)
    PROVE  UNCHANGED <<waitingOf, deliveredOf, 1..sent>>
  BY DEF waitingOf, deliveredOf

\* An entry that is no message of a sender leaves the delivered ones alone, a message
\* becomes the last of its sender.
LEMMA Delivers ==
    ASSUME Shape, AllRanked, NEW e \in Entries, transcript' = Append(transcript, e)
    PROVE  /\ AllRanked'
           /\ \A via \in Senders :
                Ids(transcript, via)' =
                  IF e.role = "user" /\ e.via = via
                    THEN Append(Ids(transcript, via), e.id) ELSE Ids(transcript, via)
  <1>1. transcript \in Seq(Entries)
    BY DEF Shape
  <1>2. ASSUME NEW via \in Senders
        PROVE  /\ Ranked(Append(transcript, e), via)
               /\ Ids(Append(transcript, e), via) =
                    IF e.role = "user" /\ e.via = via
                      THEN Append(Ids(transcript, via), e.id) ELSE Ids(transcript, via)
    BY <1>1, IdsAppend DEF AllRanked
  <1>3. \A via : Ids(transcript, via)' = Ids(transcript', via)
    BY DEF Ids
  <1>4. ASSUME NEW via \in Senders  PROVE Ranked(transcript, via)'
    <2>1. Ranked(transcript', via)
      BY <1>2
    <2> QED  BY <2>1 DEF Ranked, TheirsIn, RankedIn
  <1> QED  BY <1>2, <1>3, <1>4 DEF AllRanked

\* The conversation and the queues stay: so do the delivered and the waiting messages.
LEMMA TranscriptStays ==
    ASSUME AllRanked, transcript' = transcript
    PROVE  AllRanked' /\ \A via : Ids(transcript, via)' = Ids(transcript, via)
  <1>1. \A via : Ids(transcript, via)' = Ids(transcript', via)
    BY DEF Ids
  <1>2. AllRanked'
    BY DEF AllRanked, Ranked, TheirsIn, RankedIn
  <1> QED  BY <1>1, <1>2

LEMMA WaitingStays ==
    ASSUME Shape, Shape', UNCHANGED <<queue, inject>>
    PROVE  \A via \in Senders : Waits(via)' = Waits(via)
  BY WaitsOf DEF Behind

\* A drain moves messages from their queue on their way: they wait as before.
LEMMA DrainMoves ==
    ASSUME Shape, Shape', NEW q \in Queues, inject = <<>>, inject' = Drained(q), Drain(q)
    PROVE  \A via \in Senders : Waits(via)' = Waits(via)
  <1> DEFINE s == queue[q]
             n == Len(Drained(q))
             rest == SubSeq(s, n + 1, Len(s))
  <1>1. s \in Seq(UserMessage) /\ queue \in [Queues -> Seq(UserMessage)]
    BY DEF Shape, QueueShape
  <1>2. n \in 0..Len(s) /\ Drained(q) = SubSeq(s, 1, n)
    <2>1. CASE Mode[q] = "all" \/ s = <<>>
      <3>1. Drained(q) = s
        BY <2>1 DEF Drained
      <3> QED  BY <1>1, <3>1
    <2>2. CASE ~(Mode[q] = "all" \/ s = <<>>)
      <3>1. Drained(q) = <<Head(s)>>
        BY <2>2 DEF Drained
      <3> QED  BY <1>1, <2>2, <3>1
    <2> QED  BY <2>1, <2>2
  <1>3. queue' = [queue EXCEPT ![q] = rest]
    BY DEF Drain
  <1>4. Of(inject', q) /\ OneSender(inject')
    BY DrainedType DEF Of, OneSender
  <1>5. Numbers(s) = Numbers(inject') \o Numbers(rest)
    BY <1>1, <1>2, NumbersCut
  <1>6. inject' = <<>> \/ inject'[1].via = q
    BY <1>4 DEF Of
  <1> SUFFICES ASSUME NEW via \in Senders  PROVE Waits(via)' = Waits(via)
    OBVIOUS
  <1>7. Waits(via) = Behind(queue, via) /\ Waits(via)' = Ids(inject', via) \o Behind(queue', via)
    <2>1. Ids(inject, via) = <<>>
      BY IdsOfOne, NoMessages
    <2> DEFINE b == Behind(queue, via)
    <2>2. b \in Seq(1..MaxMessages) /\ Waits(via) = <<>> \o b
          /\ Waits(via)' = Ids(inject', via) \o Behind(queue', via)
      BY <2>1, WaitsOf
    <2> HIDE DEF b
    <2>3. <<>> \o b = b
      BY <2>2, JoinEmpty
    <2> QED  BY <2>2, <2>3 DEF b
  <1> HIDE DEF rest, n
  <1>8. CASE via = q
    <2>1. Ids(inject', via) = Numbers(inject')
      BY <1>4, <1>6, <1>8, IdsOfOne
    <2>2. Behind(queue', via) = Numbers(rest) /\ Behind(queue, via) = Numbers(s)
      BY <1>1, <1>3, <1>8 DEF Behind
    <2> QED  BY <1>5, <1>7, <2>1, <2>2
  <1>9. CASE via # q
    <2>1. Ids(inject', via) = <<>>
      BY <1>4, <1>6, <1>9, IdsOfOne
    <2>2. Behind(queue', via) = Behind(queue, via)
      BY <1>1, <1>3, <1>9 DEF Behind
    <2> QED  BY <1>7, <2>1, <2>2, WaitsOf
  <1> QED  BY <1>8, <1>9

-------------------------------------------------------------------------------
(* The steps of MessageInbox. *)

\* All senders but one keep what waits.
OthersWait(via) == \A p \in Senders \ {via} : Waits(p)' = Waits(p)
NoneDelivered == \A p \in Senders : Ids(transcript, p)' = Ids(transcript, p)

InboxVars == <<waitingOf, deliveredOf, 1..sent>>

LEMMA SendMaps ==
    ASSUME NEW via \in Senders, OthersWait(via), NoneDelivered,
           sent \in Nat, sent + 1 \in 1..MaxMessages, sent' = sent + 1,
           Waits(via)' = Append(Waits(via), sent + 1)
    PROVE  Inbox!Next
  <1>1. waitingOf' = [waitingOf EXCEPT ![via] = Append(@, sent + 1)]
    BY DEF waitingOf, OthersWait
  <1>2. deliveredOf' = deliveredOf
    BY DEF deliveredOf, NoneDelivered
  <1>3. sent + 1 \notin 1..sent /\ 1..sent' = (1..sent) \cup {sent + 1}
    OBVIOUS
  <1>4. Inbox!Send(via, sent + 1)
    BY <1>1, <1>2, <1>3 DEF Inbox!Send, waitingOf, deliveredOf
  <1> QED  BY <1>4 DEF Inbox!Next

LEMMA GiveUpMaps ==
    ASSUME NEW via \in Senders, OthersWait(via), NoneDelivered, sent' = sent,
           NEW i \in 1..(Len(Waits(via)) + 1), NEW j \in 0..Len(Waits(via)),
           Waits(via)' = SubSeq(Waits(via), i, j)
    PROVE  Inbox!Next
  <1>1. waitingOf' = [waitingOf EXCEPT ![via] = SubSeq(@, i, j)]
    BY DEF waitingOf, OthersWait
  <1>2. deliveredOf' = deliveredOf /\ 1..sent' = 1..sent
    BY DEF deliveredOf, NoneDelivered
  <1>3. Inbox!GiveUp(via, i, j)
    BY <1>1, <1>2 DEF Inbox!GiveUp, waitingOf, deliveredOf
  <1>4. waitingOf[via] = Waits(via)
    BY DEF waitingOf
  <1> QED  BY <1>3, <1>4 DEF Inbox!Next, waitingOf

LEMMA DeliverMaps ==
    ASSUME NEW via \in Senders, OthersWait(via), sent' = sent, Waits(via) # <<>>,
           Waits(via)' = Tail(Waits(via)),
           \A p \in Senders :
             Ids(transcript, p)' = IF p = via THEN Append(Ids(transcript, p), Head(Waits(via)))
                                              ELSE Ids(transcript, p)
    PROVE  Inbox!Next
  <1>1. waitingOf' = [waitingOf EXCEPT ![via] = Tail(@)]
    BY DEF waitingOf, OthersWait
  <1>2. deliveredOf' = [deliveredOf EXCEPT ![via] = Append(@, Head(waitingOf[via]))]
    BY DEF deliveredOf, waitingOf
  <1>3. waitingOf[via] # <<>> /\ 1..sent' = 1..sent
    BY DEF waitingOf
  <1>4. Inbox!Deliver(via)
    BY <1>1, <1>2, <1>3 DEF Inbox!Deliver, waitingOf, deliveredOf
  <1> QED  BY <1>4 DEF Inbox!Next

LEMMA StartOverMaps ==
    ASSUME sent' = sent,
           \A via \in Senders : Waits(via)' = <<>> /\ Ids(transcript, via)' = <<>>
    PROVE  Inbox!Next
  <1>1. waitingOf' = [via \in Senders |-> <<>>] /\ deliveredOf' = [via \in Senders |-> <<>>]
    BY DEF waitingOf, deliveredOf
  <1>2. Inbox!StartOver
    BY <1>1 DEF Inbox!StartOver, Inbox!Empty, waitingOf, deliveredOf
  <1> QED  BY <1>2 DEF Inbox!Next

-------------------------------------------------------------------------------
(* Every step is one of MessageInbox or none. *)

InboxInv == Shape /\ Whereabouts /\ Placed /\ AllRanked

Mapped == AllRanked' /\ (Inbox!Next \/ UNCHANGED InboxVars)

\* Steps that send, move and deliver nothing.
LEMMA StillMaps ==
    ASSUME InboxInv, Shape', sent' = sent, NoneDelivered, AllRanked',
           \A via \in Senders : Waits(via)' = Waits(via)
    PROVE  Mapped
  BY Stutters DEF Mapped, InboxVars, NoneDelivered

\* An answer or a result is stored, or nothing is.
LEMMA OtherEntry ==
    ASSUME InboxInv,
           \/ transcript' = transcript
           \/ \E e \in Entries : e.role # "user" /\ transcript' = Append(transcript, e)
    PROVE  AllRanked' /\ NoneDelivered
  <1>1. CASE transcript' = transcript
    BY <1>1, TranscriptStays DEF InboxInv, NoneDelivered
  <1>2. CASE \E e \in Entries : e.role # "user" /\ transcript' = Append(transcript, e)
    <2>1. PICK e \in Entries : e.role # "user" /\ transcript' = Append(transcript, e)
      BY <1>2
    <2> QED  BY <2>1, Delivers DEF InboxInv, NoneDelivered
  <1> QED  BY <1>1, <1>2

\* What the loop stores of an answer and of a result is no message.
LEMMA OtherEntries ==
    /\ \A ok \in BOOLEAN, n \in Nat :
         AnswerMessage(ok, n) \in Entries /\ AnswerMessage(ok, n).role # "user"
    /\ \A i \in Calls : Shape => ResultMessage(i) \in Entries /\ ResultMessage(i).role # "user"
  <1>1. ASSUME Shape, NEW i \in Calls  PROVE i \in Nat \ {0}
    BY <1>1, CallTypes
  <1> QED  BY <1>1, EntryTypes, NoUserEntry

\* Tool calls, requests, answers and the ends of batches and runs.
LEMMA LoopMaps ==
    ASSUME InboxInv, Shape', UNCHANGED <<queue, sent, inject>>,
           \/ transcript' = transcript
           \/ \E e \in Entries : e.role # "user" /\ transcript' = Append(transcript, e)
    PROVE  Mapped
  BY OtherEntry, WaitingStays, StillMaps DEF InboxInv

\* The drains of a poll, of follow-ups and of continue().
LEMMA DrainMaps ==
    ASSUME InboxInv, Shape', NEW q \in Queues, inject = <<>>, inject' = Drained(q), Drain(q),
           UNCHANGED <<sent, transcript>>
    PROVE  Mapped
  BY OtherEntry, DrainMoves, StillMaps DEF InboxInv

LEMMA EmitMaps ==
    ASSUME InboxInv, Shape', EmitMessage
    PROVE  Mapped
  <1> DEFINE held == Numbers(inject)
  <1>1. inject \in Seq(UserMessage) /\ inject # <<>> /\ OneSender(inject)
    BY DEF EmitMessage, InboxInv, Shape, OneSender
  <1>2. PICK e \in UserMessage : e = Head(inject) /\ e = inject[1]
    BY <1>1
  <1>3. PICK via \in Senders : e.via = via
    BY <1>2 DEF UserMessage
  <1> DEFINE rest == Behind(queue, via)
  <1>4. e \in Entries /\ e.role = "user"
    BY <1>2, EntryTypes DEF UserMessage
  <1>5. transcript' = Append(transcript, e) /\ inject' = Tail(inject) /\ queue' = queue
        /\ sent' = sent
    BY <1>2 DEF EmitMessage
  <1>6. OneSender(inject')
    <2>1. OneSender(inject)' <=> OneSender(inject')
      BY DEF OneSender
    <2> QED  BY <2>1 DEF Shape
  <1>7. inject' = <<>> \/ inject'[1].via = via
    <2> DEFINE t == Tail(inject)
    <2>1. /\ t \in Seq(UserMessage) /\ DOMAIN t = 1..(Len(inject) - 1)
          /\ \A i \in 1..(Len(inject) - 1) : t[i] = inject[i + 1] /\ i + 1 \in DOMAIN inject
          /\ 1 \in DOMAIN inject
      BY <1>1
    <2> HIDE DEF t
    <2>2. \A i \in DOMAIN t : t[i].via = inject[1].via
      BY <1>1, <2>1 DEF OneSender
    <2>3. t = <<>> \/ 1 \in DOMAIN t
      BY <2>1
    <2>4. t = <<>> \/ t[1].via = via
      BY <1>2, <1>3, <2>2, <2>3
    <2> QED  BY <1>5, <2>4 DEF t
  <1>8. held \in Seq(1..MaxMessages) /\ held # <<>> /\ Head(held) = e.id
        /\ Numbers(inject') = Tail(held)
    BY <1>2, <1>1, <1>5, NumbersTail, NumbersOf
  <1>9. /\ Ids(inject, via) = held /\ Ids(inject', via) = Tail(held)
        /\ \A p \in Senders \ {via} : Ids(inject, p) = <<>> /\ Ids(inject', p) = <<>>
    BY <1>2, <1>1, <1>3, <1>6, <1>7, <1>8, IdsOfOne
  <1>10. Waits(via) = held \o rest /\ Waits(via)' = Tail(held) \o rest
        /\ rest \in Seq(1..MaxMessages)
    <2> HIDE DEF held
    <2>1. /\ Waits(via) = Ids(inject, via) \o Behind(queue, via)
          /\ Waits(via)' = Ids(inject', via) \o Behind(queue', via)
          /\ Behind(queue, via) \in Seq(1..MaxMessages)
      BY WaitsOf DEF InboxInv
    <2> QED  BY <1>5, <1>9, <2>1
  <1>11. OthersWait(via)
    <2> SUFFICES ASSUME NEW p \in Senders \ {via}  PROVE Waits(p)' = Waits(p)
      BY DEF OthersWait
    <2> QED  BY <1>5, <1>9, WaitsOf DEF InboxInv
  <1>12. AllRanked' /\ \A p \in Senders :
           Ids(transcript, p)' = IF p = via THEN Append(Ids(transcript, p), e.id)
                                            ELSE Ids(transcript, p)
    BY <1>3, <1>5, <1>4, Delivers DEF InboxInv
  <1> HIDE DEF held, rest
  <1>13. Waits(via) # <<>> /\ Head(Waits(via)) = e.id /\ Waits(via)' = Tail(Waits(via))
    <2>1. held \o rest # <<>> /\ Head(held \o rest) = Head(held)
          /\ Tail(held \o rest) = Tail(held) \o rest
      BY <1>8, <1>10, FirstLeaves
    <2> QED  BY <1>8, <1>10, <2>1
  <1>14. \A p \in Senders :
           Ids(transcript, p)' = IF p = via THEN Append(Ids(transcript, p), Head(Waits(via)))
                                            ELSE Ids(transcript, p)
    BY <1>12, <1>13
  <1>15. sent' = sent /\ Waits(via) # <<>> /\ Waits(via)' = Tail(Waits(via))
    BY <1>5, <1>13
  <1>16. Inbox!Next
    BY <1>11, <1>14, <1>15, DeliverMaps
  <1> QED  BY <1>12, <1>16 DEF Mapped

\* steer() and followUp(): one more message waits in its queue.
LEMMA QueueMaps ==
    ASSUME InboxInv, Shape', NEW q \in Queues, Queue(q)
    PROVE  Mapped
  <1> DEFINE n == sent + 1
             m == Message(q, n)
             held == Ids(inject, q)
             w == Numbers(queue[q])
  <1>1. /\ queue \in [Queues -> Seq(UserMessage)] /\ sent \in Nat /\ n \in 1..MaxMessages
        /\ sent' = n /\ queue' = [queue EXCEPT ![q] = Append(queue[q], m)]
        /\ inject' = inject /\ transcript' = transcript
    BY DEF Queue, InboxInv, Shape, QueueShape
  <1>2. q \in Senders
    BY DEF Senders
  <1>3. m \in UserMessage /\ m.id = n
    BY <1>1, <1>2, EntryTypes DEF Message
  <1> HIDE DEF m
  <1>4. AllRanked' /\ NoneDelivered
    BY <1>1, OtherEntry
  <1>5. Waits(q) = held \o w /\ Waits(q)' = held \o Numbers(queue'[q])
        /\ held \in Seq(1..MaxMessages) /\ w \in Seq(1..MaxMessages)
    <2>1. /\ Waits(q) = Ids(inject, q) \o Behind(queue, q)
          /\ Waits(q)' = Ids(inject', q) \o Behind(queue', q)
          /\ Ids(inject, q) \in Seq(1..MaxMessages) /\ Behind(queue, q) \in Seq(1..MaxMessages)
      BY <1>2, WaitsOf DEF InboxInv
    <2> QED  BY <1>1, <2>1 DEF Behind
  <1>6. Numbers(queue'[q]) = Append(w, n)
    BY <1>1, <1>3, NumbersAppend
  <1>7. OthersWait(q)
    <2> SUFFICES ASSUME NEW p \in Senders \ {q}  PROVE Waits(p)' = Waits(p)
      BY DEF OthersWait
    <2>1. Behind(queue', p) = Behind(queue, p)
      BY <1>1 DEF Behind
    <2> QED  BY <1>1, <2>1, WaitsOf DEF InboxInv
  <1>8. Waits(q)' = Append(Waits(q), n)
    <2> HIDE DEF n, held, w
    <2>1. n \in 1..MaxMessages
      BY <1>1
    <2> QED  BY <1>5, <1>6, <2>1
  <1>9. Inbox!Next
    BY <1>1, <1>2, <1>4, <1>7, <1>8, SendMaps
  <1> QED  BY <1>4, <1>9 DEF Mapped

\* prompt(): a message is sent and on its way at once.
LEMMA PromptMaps ==
    ASSUME InboxInv, Shape', Prompt
    PROVE  Mapped
  <1> DEFINE n == sent + 1
             m == Message("prompt", n)
             via == "prompt"
  <1>1. /\ sent \in Nat /\ n \in 1..MaxMessages /\ sent' = n /\ queue' = queue
        /\ inject' = <<m>> /\ transcript' = transcript /\ inject = <<>>
    BY DEF Prompt, Starts, InboxInv, Shape, Whereabouts, Placed
  <1>2. via \in Senders /\ via \notin Queues
    BY DEF Senders, Queues
  <1>3. m \in UserMessage /\ m.id = n /\ m.via = via
    BY <1>1, <1>2, EntryTypes DEF Message
  <1> HIDE DEF m
  <1>4. AllRanked' /\ NoneDelivered
    BY <1>1, OtherEntry
  <1>5. OneSender(inject') /\ inject'[1].via = via /\ inject' # <<>>
    BY <1>1, <1>3 DEF OneSender
  <1>6. /\ Ids(inject', via) = Numbers(inject')
        /\ \A p \in Senders \ {via} : Ids(inject', p) = <<>>
        /\ \A p \in Senders : Ids(inject, p) = <<>>
    BY <1>1, <1>5, NoMessages, IdsOfOne
  <1>7. Numbers(inject') = <<n>>
    <2>1. Numbers(<<>>) = <<>>
      BY DEF Numbers
    <2>2. <<m>> = Append(<<>>, m) /\ <<>> \in Seq(UserMessage)
      OBVIOUS
    <2>3. Numbers(<<m>>) = Append(<<>>, n)
      BY <1>3, <2>1, <2>2, NumbersAppend
    <2> QED  BY <1>1, <2>3
  <1>8. OthersWait(via)
    <2> SUFFICES ASSUME NEW p \in Senders \ {via}  PROVE Waits(p)' = Waits(p)
      BY DEF OthersWait
    <2> QED  BY <1>1, <1>6, WaitsOf DEF InboxInv
  <1>9. Waits(via) = <<>> \o <<>> /\ Waits(via)' = <<n>> \o <<>>
    <2>1. Behind(queue, via) = <<>> /\ Behind(queue', via) = <<>>
      BY <1>2 DEF Behind
    <2> QED  BY <1>2, <1>6, <1>7, <2>1, WaitsOf DEF InboxInv
  <1>10. Waits(via)' = Append(Waits(via), n)
    <2> HIDE DEF n
    <2>1. n \in Nat
      BY <1>1
    <2>2. <<n>> \in Seq(Nat) /\ <<>> \in Seq(Nat) /\ Append(<<>>, n) = <<n>>
      BY <2>1
    <2>3. <<n>> \o <<>> = <<n>> /\ <<>> \o <<>> = <<>>
      BY <2>2, JoinEmpty
    <2> QED  BY <1>9, <2>2, <2>3
  <1>11. Inbox!Next
    BY <1>1, <1>2, <1>4, <1>8, <1>10, SendMaps
  <1> QED  BY <1>4, <1>11 DEF Mapped

\* clearSteeringQueue() and clearFollowUpQueue(): what is on its way stays.
LEMMA ClearMaps ==
    ASSUME InboxInv, Shape', NEW q \in Queues, Clear(q)
    PROVE  Mapped
  <1>1. /\ queue \in [Queues -> Seq(UserMessage)] /\ queue' = [queue EXCEPT ![q] = <<>>]
        /\ inject' = inject /\ transcript' = transcript /\ sent' = sent
    BY DEF Clear, InboxInv, Shape, QueueShape
  <1>2. q \in Senders
    BY DEF Senders
  <1>3. AllRanked' /\ NoneDelivered
    BY <1>1, OtherEntry
  <1>4. PICK held \in Seq(1..MaxMessages) : held = Ids(inject, q)
    BY <1>2, WaitsOf DEF InboxInv
  <1>5. PICK w \in Seq(1..MaxMessages) : w = Behind(queue, q)
    BY <1>2, WaitsOf DEF InboxInv
  <1>6. Waits(q) = held \o w /\ Waits(q)' = held \o <<>>
    <2>1. Behind(queue', q) = <<>>
      BY <1>1 DEF Behind, Numbers
    <2> QED  BY <1>1, <1>2, <1>4, <1>5, <2>1, WaitsOf DEF InboxInv
  <1>7. OthersWait(q)
    <2> SUFFICES ASSUME NEW p \in Senders \ {q}  PROVE Waits(p)' = Waits(p)
      BY DEF OthersWait
    <2>1. Behind(queue', p) = Behind(queue, p)
      BY <1>1 DEF Behind
    <2> QED  BY <1>1, <2>1, WaitsOf DEF InboxInv
  <1>8. /\ 1 \in 1..(Len(Waits(q)) + 1) /\ Len(held) \in 0..Len(Waits(q))
        /\ Waits(q)' = SubSeq(Waits(q), 1, Len(held))
    BY <1>6, FrontOf
  <1>9. Inbox!Next
    BY <1>1, <1>2, <1>3, <1>7, <1>8, GiveUpMaps
  <1> QED  BY <1>3, <1>9 DEF Mapped

\* A step that fails: what was drained is given up.
LEMMA FailMaps ==
    ASSUME InboxInv, Shape', Fail
    PROVE  Mapped
  <1>1. /\ queue' = queue /\ inject' = <<>> /\ sent' = sent
        /\ transcript' \in {transcript, Append(transcript, AnswerMessage(FALSE, 0))}
    BY DEF Fail
  <1>2. AllRanked' /\ NoneDelivered
    <2>1. AnswerMessage(FALSE, 0) \in Entries /\ AnswerMessage(FALSE, 0).role # "user"
      BY OtherEntries
    <2>2. \/ transcript' = transcript
          \/ \E e \in Entries : e.role # "user" /\ transcript' = Append(transcript, e)
      BY <1>1, <2>1
    <2> QED  BY <2>2, OtherEntry
  <1>3. \A p \in Senders : Ids(inject', p) = <<>>
    BY <1>1, NoMessages, IdsOfOne
  <1>4. CASE inject = <<>>
    <2>1. inject' = inject
      BY <1>1, <1>4
    <2> QED  BY <1>1, <1>2, <2>1, WaitingStays, StillMaps DEF InboxInv
  <1>5. CASE inject # <<>>
    <2>1. PICK via \in Senders : inject[1].via = via
      <3>1. inject[1] \in UserMessage
        BY <1>5 DEF InboxInv, Shape, OneSender
      <3> QED  BY <3>1 DEF UserMessage
    <2>2. \A p \in Senders \ {via} : Ids(inject, p) = <<>>
      BY <2>1, IdsOfOne DEF InboxInv, Shape
    <2>3. OthersWait(via)
      <3> SUFFICES ASSUME NEW p \in Senders \ {via}  PROVE Waits(p)' = Waits(p)
        BY DEF OthersWait
      <3> QED  BY <1>1, <1>3, <2>2, WaitsOf DEF InboxInv
    <2>4. PICK held \in Seq(1..MaxMessages) : held = Ids(inject, via)
      BY WaitsOf DEF InboxInv
    <2>5. PICK w \in Seq(1..MaxMessages) : w = Behind(queue, via)
      BY WaitsOf DEF InboxInv
    <2>6. Waits(via) = held \o w /\ Waits(via)' = <<>> \o w
      BY <1>1, <1>3, <2>4, <2>5, WaitsOf DEF InboxInv
    <2>7. /\ Len(held) + 1 \in 1..(Len(Waits(via)) + 1)
          /\ Len(Waits(via)) \in 0..Len(Waits(via))
          /\ Waits(via)' = SubSeq(Waits(via), Len(held) + 1, Len(Waits(via)))
      BY <2>6, BackOf
    <2>8. Inbox!Next
      BY <1>1, <1>2, <2>3, <2>7, GiveUpMaps
    <2> QED  BY <1>2, <2>8 DEF Mapped
  <1> QED  BY <1>4, <1>5

\* Entries that are no messages are taken out: the messages stay.
LEMMA IdsOfPrefix ==
    ASSUME NEW s \in Seq(Entries), NEW k \in DOMAIN s, NEW via, Ranked(s, via),
           \A j \in k..Len(s) : s[j].role # "user"
    PROVE  /\ Ranked(SubSeq(s, 1, k - 1), via)
           /\ Ids(SubSeq(s, 1, k - 1), via) = Ids(s, via)
  <1> DEFINE P == TheirsIn(s, via)
             Nth(i) == CHOOSE j \in RankedIn(P, i) : TRUE
  <1>1. PICK t \in Seq(Entries) : t = SubSeq(s, 1, k - 1)
    BY PrefixAt
  <1>2. /\ Len(s) \in Nat /\ DOMAIN s = 1..Len(s) /\ k \in 1..Len(s)
        /\ DOMAIN t = 1..(k - 1) /\ \A i \in 1..(k - 1) : t[i] = s[i]
    BY <1>1, PrefixAt
  <1>3. \A j \in P : j \in 1..(k - 1)
    BY <1>2 DEF TheirsIn
  <1>4. TheirsIn(t, via) = P
    BY <1>2, <1>3 DEF TheirsIn
  <1>5. Ids(s, via) = [i \in 1..Cardinality(P) |-> s[Nth(i)].id]
    BY DEF Ids
  <1>6. Ids(t, via) = [i \in 1..Cardinality(P) |-> t[Nth(i)].id]
    BY <1>4 DEF Ids
  <1>7. \A i \in 1..Cardinality(P) : Nth(i) \in P
    BY DEF Ranked, RankedIn
  <1>8. Ranked(t, via)
    BY <1>4 DEF Ranked
  <1> HIDE DEF P, Nth
  <1>9. \A i \in 1..Cardinality(P) : t[Nth(i)] = s[Nth(i)]
    BY <1>2, <1>3, <1>7
  <1>10. Ids(t, via) = Ids(s, via)
    BY <1>5, <1>6, <1>9
  <1> QED  BY <1>1, <1>8, <1>10

\* The session takes an answer and its results out: no message moves.
LEMMA OmitMaps ==
    ASSUME InboxInv, Shape', OmitAnswer
    PROVE  Mapped
  <1>1. PICK k \in DOMAIN transcript :
           /\ transcript[k].role = "assistant"
           /\ \A j \in (k + 1)..Len(transcript) : transcript[j].role = "toolResult"
           /\ transcript' = SubSeq(transcript, 1, k - 1)
    BY DEF OmitAnswer
  <1>2. transcript \in Seq(Entries) /\ UNCHANGED <<queue, sent, inject>>
    BY DEF OmitAnswer, InboxInv, Shape
  <1>3. \A j \in k..Len(transcript) : transcript[j].role # "user"
    <2> SUFFICES ASSUME NEW j \in k..Len(transcript)  PROVE transcript[j].role # "user"
      OBVIOUS
    <2>1. j = k \/ j \in (k + 1)..Len(transcript)
      BY <1>2
    <2> QED  BY <1>1, <2>1
  <1>4. ASSUME NEW via \in Senders
        PROVE  Ranked(transcript', via) /\ Ids(transcript', via) = Ids(transcript, via)
    <2>1. Ranked(transcript, via)
      BY DEF InboxInv, AllRanked
    <2> QED  BY <1>1, <1>2, <1>3, <2>1, IdsOfPrefix
  <1>5. AllRanked'
    <2> SUFFICES ASSUME NEW via \in Senders  PROVE Ranked(transcript, via)'
      BY DEF AllRanked
    <2>1. Ranked(transcript', via)
      BY <1>4
    <2> QED  BY <2>1 DEF Ranked, TheirsIn, RankedIn
  <1>6. \A via : Ids(transcript, via)' = Ids(transcript', via)
    BY DEF Ids
  <1>7. NoneDelivered
    BY <1>4, <1>6 DEF NoneDelivered
  <1> QED  BY <1>2, <1>5, <1>7, WaitingStays, StillMaps DEF InboxInv

\* reset(): nothing is on its way, the queues and the conversation are emptied.
LEMMA ResetMaps ==
    ASSUME InboxInv, Shape', Reset
    PROVE  Mapped
  <1>1. /\ queue' = [q \in Queues |-> <<>>] /\ inject = <<>> /\ inject' = <<>> /\ sent' = sent
        /\ transcript' = <<>>
    BY DEF Reset, InboxInv, Whereabouts, Placed
  <1>2. ASSUME NEW via \in Senders
        PROVE  Ids(transcript', via) = <<>> /\ Ranked(transcript', via)
    <2>1. TheirsIn(transcript', via) = {}
      BY <1>1 DEF TheirsIn
    <2> QED  BY <2>1, IdsOfNone
  <1>3. AllRanked'
    <2> SUFFICES ASSUME NEW via \in Senders  PROVE Ranked(transcript, via)'
      BY DEF AllRanked
    <2>1. Ranked(transcript', via)
      BY <1>2
    <2> QED  BY <2>1 DEF Ranked, TheirsIn, RankedIn
  <1>4. ASSUME NEW via \in Senders
        PROVE  Waits(via)' = <<>> /\ Ids(transcript, via)' = <<>>
    <2>1. Ids(inject', via) = <<>>
      BY <1>1, NoMessages, IdsOfOne
    <2>2. Behind(queue', via) = <<>>
      BY <1>1 DEF Behind, Numbers
    <2>3. Waits(via)' = <<>> \o <<>>
      BY <2>1, <2>2, WaitsOf DEF InboxInv
    <2>4. Ids(transcript, via)' = Ids(transcript', via)
      BY WaitsOf DEF InboxInv
    <2> QED  BY <1>2, <2>3, <2>4
  <1>5. Inbox!Next
    BY <1>1, <1>4, StartOverMaps
  <1> QED  BY <1>3, <1>5 DEF Mapped

\* The polls, the follow-ups and continue() drain a queue only when nothing is on its
\* way.
LEMMA PollMaps ==
    ASSUME InboxInv, Shape', FirstPoll \/ Finish \/ FollowUp \/ Prepare \/ ContinueQueued
    PROVE  Mapped
  <1> DEFINE Drains(q) == inject = <<>> /\ inject' = Drained(q) /\ Drain(q)
             Stays == UNCHANGED <<queue, inject>>
  <1>1. UNCHANGED <<sent, transcript>>
    BY DEF FirstPoll, Finish, FollowUp, Prepare, ContinueQueued, Starts
  <1>2. Stays \/ \E q \in Queues : Drains(q)
    <2>1. "steer" \in Queues /\ "followUp" \in Queues
      BY DEF Queues
    <2>2. CASE FirstPoll
      BY <2>1, <2>2 DEF FirstPoll
    <2>3. CASE Finish
      <3>1. inject = <<>>
        BY <2>3 DEF Finish, InboxInv, Placed
      <3> QED  BY <2>1, <2>3, <3>1 DEF Finish
    <2>4. CASE FollowUp
      <3>1. inject = <<>>
        BY <2>4 DEF FollowUp, InboxInv, Placed
      <3> QED  BY <2>1, <2>4, <3>1 DEF FollowUp
    <2>5. CASE Prepare
      <3>1. CASE inject = <<>>
        <4>1. inject' = <<>> \o Drained("steer") /\ Drain("steer")
          BY <2>5, <3>1 DEF Prepare, PollsAgain
        <4>2. Drained("steer") \in Seq(UserMessage)
          BY <2>1, DrainedType DEF InboxInv, Of
        <4>3. <<>> \o Drained("steer") = Drained("steer")
          BY <4>2, JoinEmpty
        <4> QED  BY <2>1, <3>1, <4>1, <4>3
      <3>2. CASE inject # <<>>
        BY <2>5, <3>2 DEF Prepare, PollsAgain
      <3> QED  BY <3>1, <3>2
    <2>6. CASE ContinueQueued
      <3>1. inject = <<>>
        BY <2>6 DEF ContinueQueued, InboxInv, Whereabouts, Placed
      <3> QED  BY <2>1, <2>6, <3>1 DEF ContinueQueued, Starts
    <2> QED  BY <2>2, <2>3, <2>4, <2>5, <2>6
  <1>3. CASE Stays
    BY <1>1, <1>3, LoopMaps
  <1>4. CASE \E q \in Queues : Drains(q)
    BY <1>1, <1>4, DrainMaps
  <1> QED  BY <1>2, <1>3, <1>4

\* The steps of a tool call.
LEMMA CallMaps ==
    ASSUME InboxInv, Shape', NEW i \in Calls,
           RefuseCall(i) \/ BeginCall(i) \/ PrepareCall(i) \/ FinishCall(i) \/ AnswerCall(i)
    PROVE  Mapped
  <1>1. UNCHANGED <<queue, sent, inject>>
    BY DEF RefuseCall, BeginCall, PrepareCall, FinishCall, AnswerCall
  <1>2. transcript' = transcript \/ transcript' = Append(transcript, ResultMessage(i))
    BY DEF RefuseCall, BeginCall, PrepareCall, FinishCall, AnswerCall
  <1>3. ResultMessage(i) \in Entries /\ ResultMessage(i).role # "user"
    BY OtherEntries DEF InboxInv
  <1> QED  BY <1>1, <1>2, <1>3, LoopMaps

LEMMA InboxStep ==
    ASSUME InboxInv, Shape', [Next]_vars
    PROVE  Mapped
  <1>1. CASE UNCHANGED vars
    <2>1. UNCHANGED <<queue, sent, inject, transcript>>
      BY <1>1 DEF vars
    <2> QED  BY <2>1, LoopMaps
  <1>2. CASE Answer
    <2>1. PICK ok \in BOOLEAN, n \in Nat : transcript' = Append(transcript, AnswerMessage(ok, n))
      BY <1>2, AnswerAppends
    <2>2. AnswerMessage(ok, n) \in Entries /\ AnswerMessage(ok, n).role # "user"
      BY OtherEntries
    <2>3. UNCHANGED <<queue, sent, inject>>
      BY <1>2 DEF Answer
    <2> QED  BY <2>1, <2>2, <2>3, LoopMaps
  <1>3. CASE RequestModel \/ Launch \/ BatchDone \/ EndRun \/ Abort
    <2>1. UNCHANGED <<queue, sent, inject, transcript>>
      BY <1>3 DEF RequestModel, Launch, BatchDone, EndRun, Abort
    <2> QED  BY <2>1, LoopMaps
  <1>4. CASE ContinueTranscript
    <2>1. inject = <<>> /\ inject' = <<>>
      BY <1>4 DEF ContinueTranscript, Starts, InboxInv, Whereabouts, Placed
    <2>2. UNCHANGED <<queue, sent, inject, transcript>>
      BY <1>4, <2>1 DEF ContinueTranscript, Starts
    <2> QED  BY <2>2, LoopMaps
  <1>5. CASE FirstPoll \/ Finish \/ FollowUp \/ Prepare \/ ContinueQueued
    BY <1>5, PollMaps
  <1>6. CASE EmitMessage
    BY <1>6, EmitMaps
  <1>7. CASE Fail
    BY <1>7, FailMaps
  <1>8. CASE Prompt
    BY <1>8, PromptMaps
  <1>9. CASE Reset
    BY <1>9, ResetMaps
  <1>10. ASSUME NEW q \in Queues, Queue(q) \/ Clear(q)  PROVE Mapped
    BY <1>10, QueueMaps, ClearMaps
  <1>11. ASSUME NEW i \in Calls,
                RefuseCall(i) \/ BeginCall(i) \/ PrepareCall(i) \/ FinishCall(i) \/ AnswerCall(i)
         PROVE  Mapped
    BY <1>11, CallMaps
  <1>12. CASE OmitAnswer
    BY <1>12, OmitMaps
  <1> QED
    BY <1>1, <1>2, <1>3, <1>4, <1>5, <1>6, <1>7, <1>8, <1>9, <1>10, <1>11, <1>12, StepKinds

LEMMA InboxInit == Init => AllRanked /\ Inbox!Init
  <1> SUFFICES ASSUME Init PROVE AllRanked /\ Inbox!Init
    OBVIOUS
  <1>1. /\ queue = [q \in Queues |-> <<>>] /\ inject = <<>> /\ transcript = <<>> /\ sent = 0
    BY DEF Init
  <1>2. ASSUME NEW via  PROVE Ids(<<>>, via) = <<>> /\ Ranked(<<>>, via)
    <2>1. TheirsIn(<<>>, via) = {}
      BY DEF TheirsIn
    <2> QED  BY <2>1, IdsOfNone
  <1>3. ASSUME NEW via \in Senders  PROVE Waits(via) = <<>>
    <2>1. Waits(via) = <<>> \o <<>>
      BY <1>1, <1>2 DEF Waits
    <2> QED  BY <2>1
  <1>4. 1..sent = {}
    BY <1>1
  <1> QED  BY <1>1, <1>2, <1>3, <1>4 DEF AllRanked, Inbox!Init, Inbox!Empty

\* steer(), followUp() and prompt() (agent.ts, PendingMessageQueue; agent-loop.ts, the
\* polls): the messages of each sender reach the conversation in the order they were
\* sent and at most once, and what a failed run or a cleared queue loses never arrives
\* (ImplementsInbox): every step of the loop is a step of MessageInbox or changes
\* nothing it sees, for every number of messages, calls and turns.
THEOREM ImplementsTheInbox == Spec => ImplementsInbox
  <1> DEFINE I == InboxInv /\ Handover /\ OneMessagePerTurn
  <1>1. Init => I /\ Inbox!Init
    BY InitShape, InitHandover, InboxInit DEF InboxInv
  <1>2. I /\ [Next]_vars => I' /\ (Inbox!Next \/ UNCHANGED InboxVars)
    <2> SUFFICES ASSUME I, [Next]_vars
                 PROVE  I' /\ (Inbox!Next \/ UNCHANGED InboxVars)
      OBVIOUS
    <2>1. Shape' /\ Whereabouts' /\ Placed' /\ Handover' /\ OneMessagePerTurn'
      BY ShapeStep, HandoverStep DEF InboxInv
    <2>2. Mapped
      BY <2>1, InboxStep
    <2> QED  BY <2>1, <2>2 DEF InboxInv, Mapped
  <1>3. (Inbox!Next \/ UNCHANGED InboxVars)
          => [Inbox!Next]_<<[via \in Senders |-> Waits(via)],
                            [via \in Senders |-> Ids(transcript, via)], 1..sent>>
    BY DEF InboxVars, waitingOf, deliveredOf
  <1> QED
    BY <1>1, <1>2, <1>3, PTL DEF Spec, ImplementsInbox, Inbox!Spec
===============================================================================
