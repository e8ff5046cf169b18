---------------------------- MODULE ElementLemmas ----------------------------
(***************************************************************************)
(* What the operators on sequences do to the set of their elements; and    *)
(* sets of numbers.                                                        *)
(***************************************************************************)
EXTENDS Integers, Sequences, FiniteSets, SequencesExt, SequenceTheorems,
        FiniteSetTheorems, TLAPS

\* The elements of a sequence are those at its positions.
LEMMA ToSetType ==
  ASSUME NEW S, NEW s \in Seq(S)
  PROVE  ToSet(s) \subseteq S /\ ToSet(s) = {s[i] : i \in 1..Len(s)}
  BY DEF ToSet

\* They are the first and those of its tail.
LEMMA ToSetTail ==
  ASSUME NEW S, NEW s \in Seq(S), s # <<>>
  PROVE  /\ Head(s) \in S /\ Tail(s) \in Seq(S)
         /\ ToSet(s) = {Head(s)} \cup ToSet(Tail(s))
<1>1. /\ Head(s) \in S /\ Tail(s) \in Seq(S)
      /\ Len(Tail(s)) = Len(s) - 1
      /\ \A i \in 1..Len(Tail(s)) : Tail(s)[i] = s[i + 1]
  BY HeadTailProperties
<1>2. ASSUME NEW i \in 1..Len(s)
      PROVE  s[i] \in {Head(s)} \cup ToSet(Tail(s))
  <2>1. CASE i = 1
    <3>1. Head(s) = s[1]
      OBVIOUS
    <3> QED
      BY <2>1, <3>1
  <2>2. CASE i # 1
    <3>1. i - 1 \in 1..Len(Tail(s)) /\ (i - 1) + 1 = i
      BY <1>1, <2>2
    <3>2. Tail(s)[i - 1] = s[i]
      BY <1>1, <3>1
    <3>3. ToSet(Tail(s)) = {Tail(s)[j] : j \in 1..Len(Tail(s))}
      BY <1>1, ToSetType
    <3> QED
      BY <3>1, <3>2, <3>3
  <2> QED
    BY <2>1, <2>2
<1>3. Head(s) \in ToSet(s)
  <2>1. 1 \in 1..Len(s) /\ Head(s) = s[1]
    OBVIOUS
  <2> QED
    BY <2>1, ToSetType
<1>4. ASSUME NEW i \in 1..Len(Tail(s))
      PROVE  Tail(s)[i] \in ToSet(s)
  <2>1. i + 1 \in 1..Len(s) /\ Tail(s)[i] = s[i + 1]
    BY <1>1
  <2> QED
    BY <2>1, ToSetType
<1>5. ToSet(Tail(s)) = {Tail(s)[i] : i \in 1..Len(Tail(s))}
  BY <1>1, ToSetType
<1> QED
  BY <1>2, <1>3, <1>4, <1>5, ToSetType

\* Those of two sequences put together are those of either.
LEMMA ToSetConcat ==
  ASSUME NEW S, NEW s \in Seq(S), NEW t \in Seq(S)
  PROVE  s \o t \in Seq(S) /\ ToSet(s \o t) = ToSet(s) \cup ToSet(t)
<1>1. /\ s \o t \in Seq(S) /\ Len(s \o t) = Len(s) + Len(t)
      /\ \A i \in 1..Len(s) + Len(t) :
           (s \o t)[i] = IF i <= Len(s) THEN s[i] ELSE t[i - Len(s)]
  BY ConcatProperties
<1>2. Len(s) \in Nat /\ Len(t) \in Nat
  OBVIOUS
<1>3. /\ ToSet(s) = {s[i] : i \in 1..Len(s)}
      /\ ToSet(t) = {t[i] : i \in 1..Len(t)}
      /\ ToSet(s \o t) = {(s \o t)[i] : i \in 1..Len(s \o t)}
  BY <1>1, ToSetType
<1> DEFINE u == s \o t
<1>4. /\ Len(u) = Len(s) + Len(t) /\ ToSet(u) = {u[i] : i \in 1..Len(u)}
      /\ \A i \in 1..Len(s) + Len(t) :
           u[i] = IF i <= Len(s) THEN s[i] ELSE t[i - Len(s)]
  BY <1>1, <1>3
<1> HIDE DEF u
<1>5. ASSUME NEW i \in 1..Len(u)
      PROVE  u[i] \in ToSet(s) \cup ToSet(t)
  <2>1. CASE i <= Len(s)
    <3>1. i \in 1..Len(s) /\ u[i] = s[i]
      BY <1>2, <1>4, <2>1
    <3> QED
      BY <1>3, <3>1
  <2>2. CASE i > Len(s)
    <3>1. i - Len(s) \in 1..Len(t) /\ u[i] = t[i - Len(s)]
      BY <1>2, <1>4, <2>2
    <3> QED
      BY <1>3, <3>1
  <2> QED
    BY <1>2, <1>4, <2>1, <2>2
<1>6. ASSUME NEW i \in 1..Len(s)
      PROVE  s[i] \in ToSet(u)
  <2>1. i \in 1..Len(u) /\ u[i] = s[i]
    BY <1>2, <1>4
  <2> QED
    BY <1>4, <2>1
<1>7. ASSUME NEW i \in 1..Len(t)
      PROVE  t[i] \in ToSet(u)
  <2>1. i + Len(s) \in 1..Len(u) /\ (i + Len(s)) - Len(s) = i /\ ~(i + Len(s) <= Len(s))
    BY <1>2, <1>4
  <2>2. u[i + Len(s)] = t[i]
    BY <1>2, <1>4, <2>1
  <2> QED
    BY <1>4, <2>1, <2>2
<1>8. ToSet(u) = ToSet(s) \cup ToSet(t)
  <2>1. \A x \in ToSet(u) : x \in ToSet(s) \cup ToSet(t)
    BY <1>4, <1>5
  <2>2. \A x \in ToSet(s) : x \in ToSet(u)
    BY <1>3, <1>6
  <2>3. \A x \in ToSet(t) : x \in ToSet(u)
    BY <1>3, <1>7
  <2> QED
    BY <2>1, <2>2, <2>3
<1> QED
  BY <1>1, <1>8 DEF u

\* An appended element is the only one added.
LEMMA ToSetAppend ==
  ASSUME NEW S, NEW s \in Seq(S), NEW e \in S
  PROVE  Append(s, e) \in Seq(S) /\ ToSet(Append(s, e)) = ToSet(s) \cup {e}
<1> DEFINE o == <<e>>
<1>1. Append(s, e) = s \o o /\ o \in Seq(S)
  BY AppendIsConcat
<1>2. ToSet(o) = {e}
  BY DEF ToSet
<1> HIDE DEF o
<1>3. s \o o \in Seq(S) /\ ToSet(s \o o) = ToSet(s) \cup ToSet(o)
  BY <1>1, ToSetConcat
<1> QED
  BY <1>1, <1>2, <1>3

\* A set of one element at most, as a sequence, has that element.
LEMMA SetToSeqOfOne ==
  ASSUME NEW S, S = {} \/ \E x : S = {x}
  PROVE  SetToSeq(S) \in Seq(S) /\ ToSet(SetToSeq(S)) = S
<1> DEFINE F == {f \in [1..Cardinality(S) -> S] : IsInjective(f)}
           q == CHOOSE f \in [1..Cardinality(S) -> S] : IsInjective(f)
<1>0. SetToSeq(S) = q
  BY DEF SetToSeq
<1>1. CASE S = {}
  <2>1. Cardinality(S) = 0
    BY <1>1, FS_EmptySet
  <2>2. [i \in {} |-> i] \in [1..Cardinality(S) -> S] /\ IsInjective([i \in {} |-> i])
    BY <2>1 DEF IsInjective
  <2>3. q \in [1..Cardinality(S) -> S]
    BY <2>2
  <2> HIDE DEF q
  <2>4. q \in Seq(S) /\ DOMAIN q = {}
    BY <2>1, <2>3
  <2> QED
    BY <1>0, <1>1, <2>4 DEF ToSet
<1>2. ASSUME NEW x, S = {x}
      PROVE  SetToSeq(S) \in Seq(S) /\ ToSet(SetToSeq(S)) = S
  <2>1. Cardinality(S) = 1
    BY <1>2, FS_Singleton
  <2>2. [i \in 1..1 |-> x] \in [1..Cardinality(S) -> S] /\ IsInjective([i \in 1..1 |-> x])
    BY <1>2, <2>1 DEF IsInjective
  <2>3. q \in [1..Cardinality(S) -> S]
    BY <2>2
  <2> HIDE DEF q
  <2>4. q \in [1..1 -> S] /\ DOMAIN q = {1}
    BY <2>1, <2>3
  <2>5. q \in Seq(S)
    <3>1. Seq(S) = UNION {[1..n -> S] : n \in Nat}
      BY SeqDef
    <3>2. [1..1 -> S] \in {[1..n -> S] : n \in Nat}
      OBVIOUS
    <3> QED
      BY <2>4, <3>1, <3>2
  <2>6. q[1] = x
    BY <1>2, <2>4
  <2> QED
    BY <1>0, <1>2, <2>4, <2>5, <2>6 DEF ToSet
<1> QED
  BY <1>1, <1>2

------------------------------------------------------------------------------
\* A set of numbers has a least: of the intervals that end in one, the least.
LEMMA First ==
  ASSUME NEW M, M \subseteq Nat, M # {}
  PROVE  \E k \in M : \A n \in M : k <= n
<1> DEFINE R == StrictSubsetOrdering(Nat)
           I == {1..n : n \in M}
<1>1. IsWellFoundedOn(R, FiniteSubsetsOf(Nat))
  BY FS_StrictSubsetOrderingWellFounded
<1>2. I \subseteq FiniteSubsetsOf(Nat) /\ I # {}
  <2>1. \A n \in M : n \in Int /\ 1..n \subseteq Nat /\ IsFiniteSet(1..n)
    <3> SUFFICES ASSUME NEW n \in M
                 PROVE  n \in Int /\ 1..n \subseteq Nat /\ IsFiniteSet(1..n)
      OBVIOUS
    <3>1. n \in Int /\ 1 \in Int
      OBVIOUS
    <3> QED
      BY <3>1, FS_Interval
  <2> QED
    BY <2>1 DEF FiniteSubsetsOf
<1>3. \A m, n \in M : m < n => <<1..m, 1..n>> \in R
  <2> SUFFICES ASSUME NEW m \in M, NEW n \in M, m < n
               PROVE  <<1..m, 1..n>> \in R
    OBVIOUS
  <2>1. 1..m \subseteq 1..n /\ n \in 1..n /\ n \notin 1..m
    OBVIOUS
  <2> QED
    BY <2>1 DEF StrictSubsetOrdering
<1> HIDE DEF R
<1>4. PICK s \in I : \A r \in I : <<r, s>> \notin R
  <2> HIDE DEF I
  <2> QED
    BY <1>1, <1>2, WFMin
<1>5. PICK k \in M : s = 1..k
  OBVIOUS
<1>6. \A n \in M : ~(n < k)
  BY <1>3, <1>4, <1>5
<1> QED
  BY <1>6

\* A set with 0 and the successor of each of its numbers has them all.
LEMMA Induct ==
  ASSUME NEW S, 0 \in S, \A n \in Nat : n \in S => n + 1 \in S
  PROVE  \A n \in Nat : n \in S
<1> DEFINE M == {n \in Nat : n \notin S}
<1>1. SUFFICES ASSUME M # {} PROVE FALSE
  OBVIOUS
<1>2. PICK k \in M : \A n \in M : k <= n
  <2>1. M \subseteq Nat
    OBVIOUS
  <2> HIDE DEF M
  <2> QED
    BY <1>1, <2>1, First
<1>3. k # 0 /\ k - 1 \in Nat
  BY <1>2
<1>4. k - 1 \notin M /\ (k - 1) + 1 = k
  BY <1>2, <1>3
<1> QED
  BY <1>2, <1>3, <1>4
==============================================================================
