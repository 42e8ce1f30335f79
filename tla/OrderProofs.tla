---------------------------- MODULE OrderProofs ----------------------------
(* Facts about the order of keys, for any finite set of numbers.             *)
EXTENDS Order, FiniteSetTheorems, SequenceTheorems, TLAPS

LEMMA BelowFinite ==
    ASSUME NEW S, IsFiniteSet(S), NEW x
    PROVE  /\ IsFiniteSet({y \in S : y < x})
           /\ Cardinality({y \in S : y < x}) \in Nat
<1>1. {y \in S : y < x} \in SUBSET S
  OBVIOUS
<1> QED BY <1>1, FS_Subset, FS_CardinalityType

LEMMA RankIsNumber ==
    ASSUME NEW S, IsFiniteSet(S), NEW x
    PROVE  Rank(S, x) \in Nat
BY BelowFinite DEF Rank

(* Of two numbers the smaller has the smaller rank.                          *)
LEMMA RankMonotone ==
    ASSUME NEW S \in SUBSET Int, IsFiniteSet(S), NEW x \in S, NEW z \in Int, x < z
    PROVE  Rank(S, x) < Rank(S, z)
<1> DEFINE A == {y \in S : y < x}
           B == {y \in S : y < z}
<1>1. A \in SUBSET B /\ x \in B /\ x \notin A
  <2>1. \A y \in S : y < x => y < z
    OBVIOUS
  <2>2. ~(x < x)
    OBVIOUS
  <2> QED BY <2>1, <2>2
<1>2. /\ IsFiniteSet(B) /\ Cardinality(A) \in Nat /\ Cardinality(B) \in Nat
  BY BelowFinite
<1> HIDE DEF A, B
<1>3. Cardinality(A) <= Cardinality(B) /\ Cardinality(A) # Cardinality(B)
  BY <1>1, <1>2, FS_Subset
<1>4. Rank(S, x) = Cardinality(A) + 1 /\ Rank(S, z) = Cardinality(B) + 1
  BY DEF Rank, A, B
<1> QED BY <1>2, <1>3, <1>4

(* A member has a rank from one to the size of the set.                      *)
LEMMA RankBounds ==
    ASSUME NEW S \in SUBSET Int, IsFiniteSet(S), NEW x \in S
    PROVE  Rank(S, x) \in 1..Cardinality(S)
<1> DEFINE A == {y \in S : y < x}
<1>1. A \in SUBSET S /\ x \notin A
  OBVIOUS
<1>2. Cardinality(A) \in Nat
  BY BelowFinite
<1>3. Rank(S, x) = Cardinality(A) + 1
  BY DEF Rank
<1> HIDE DEF A
<1>4. Cardinality(A) <= Cardinality(S) /\ Cardinality(A) # Cardinality(S)
  BY <1>1, FS_Subset
<1> QED BY <1>2, <1>3, <1>4, FS_CardinalityType

(* Every rank is that of a member: as many numbers, as many ranks.           *)
LEMMA RankOnto ==
    ASSUME NEW S \in SUBSET Int, IsFiniteSet(S), NEW i \in 1..Cardinality(S)
    PROVE  \E x \in S : Rank(S, x) = i
<1> DEFINE n == Cardinality(S)
           f == [x \in S |-> Rank(S, x)]
<1>1. n \in Nat
  BY FS_CardinalityType
<1>2. \A x \in S : Rank(S, x) \in 1..n
  BY RankBounds
<1>3. \A x, z \in S : x # z => Rank(S, x) # Rank(S, z)
  <2> SUFFICES ASSUME NEW x \in S, NEW z \in S, x < z
               PROVE  Rank(S, x) # Rank(S, z)
    OBVIOUS
  <2>1. Rank(S, x) \in Int /\ Rank(S, z) \in Int
    BY <1>1, <1>2
  <2> QED BY <2>1, RankMonotone
<1>4. f \in Injection(S, 1..n)
  BY <1>2, <1>3 DEF Injection, IsInjective
<1>5. IsFiniteSet(1..n) /\ Cardinality(1..n) = n
  BY <1>1, FS_Interval
<1> HIDE DEF f
<1>6. f \in Surjection(S, 1..n)
  BY <1>4, <1>5, FS_Injection
<1> QED BY <1>6 DEF Surjection, f

(* Sorted lists every number of a set once and in ascending order.           *)
LEMMA SortedRanks ==
    ASSUME NEW S \in SUBSET Int, IsFiniteSet(S)
    PROVE  /\ Cardinality(S) \in Nat
           /\ Sorted(S) \in Seq(S) /\ Len(Sorted(S)) = Cardinality(S)
           /\ \A i \in 1..Cardinality(S) : Sorted(S)[i] \in S /\ Rank(S, Sorted(S)[i]) = i
           /\ \A x \in S : Rank(S, x) \in 1..Cardinality(S) /\ Sorted(S)[Rank(S, x)] = x
<1> DEFINE n == Cardinality(S)
           At(i) == CHOOSE x \in S : Rank(S, x) = i
<1>1. n \in Nat
  BY FS_CardinalityType
<1>2. \A i \in 1..n : At(i) \in S /\ Rank(S, At(i)) = i
  BY RankOnto
<1>3. Sorted(S) = [i \in 1..n |-> At(i)]
  BY DEF Sorted
<1>4. ASSUME NEW x \in S PROVE Rank(S, x) \in 1..n /\ Sorted(S)[Rank(S, x)] = x
  <2>1. Rank(S, x) \in 1..n
    BY RankBounds
  <2> DEFINE z == At(Rank(S, x))
  <2>2. z \in S /\ Rank(S, z) = Rank(S, x)
    BY <1>2, <2>1
  <2>3. Sorted(S)[Rank(S, x)] = z
    BY <1>3, <2>1
  <2> HIDE DEF z, At
  <2>4. ~(x < z) /\ ~(z < x)
    BY <1>1, <2>1, <2>2, RankMonotone
  <2> QED BY <2>1, <2>2, <2>3, <2>4
<1> HIDE DEF At
<1>5. Sorted(S) \in [1..n -> S]
  BY <1>2, <1>3
<1>6. Sorted(S) \in Seq(S) /\ Len(Sorted(S)) = n
  BY <1>1, <1>5
<1> QED BY <1>1, <1>2, <1>3, <1>4, <1>6

LEMMA SortedAscends ==
    ASSUME NEW S \in SUBSET Int, IsFiniteSet(S),
           NEW i \in 1..Cardinality(S), NEW j \in 1..Cardinality(S), i < j
    PROVE  Sorted(S)[i] < Sorted(S)[j]
<1> DEFINE x == Sorted(S)[i]
           z == Sorted(S)[j]
<1>1. x \in S /\ z \in S /\ Rank(S, x) = i /\ Rank(S, z) = j /\ Cardinality(S) \in Nat
  BY SortedRanks
<1> HIDE DEF x, z
<1>2. x # z /\ ~(z < x)
  BY <1>1, RankMonotone
<1>3. x < z
  BY <1>1, <1>2
<1> QED BY <1>3 DEF x, z

LEMMA SortedEmpty == Sorted({}) = <<>>
<1>1. Cardinality({}) = 0 /\ IsFiniteSet({}) /\ {} \in SUBSET Int
  BY FS_EmptySet
<1> QED BY <1>1, SortedRanks, EmptySeq

(* A number larger than all others comes last.                               *)
LEMMA SortedAddLast ==
    ASSUME NEW S \in SUBSET Int, IsFiniteSet(S), NEW m \in Int, \A x \in S : x < m
    PROVE  /\ IsFiniteSet(S \cup {m}) /\ Cardinality(S \cup {m}) = Cardinality(S) + 1
           /\ Sorted(S \cup {m}) = Append(Sorted(S), m)
<1> DEFINE T == S \cup {m}
           n == Cardinality(S)
<1>1. n \in Nat /\ m \notin S
  BY SortedRanks
<1>2. IsFiniteSet(T) /\ Cardinality(T) = n + 1
  BY <1>1, FS_AddElement
<1>3. \A x \in S : Rank(T, x) = Rank(S, x)
  <2> SUFFICES ASSUME NEW x \in S PROVE Rank(T, x) = Rank(S, x)
    OBVIOUS
  <2>1. ~(m < x)
    OBVIOUS
  <2>2. {y \in T : y < x} = {y \in S : y < x}
    BY <2>1
  <2> QED BY <2>2 DEF Rank
<1>4. Rank(T, m) = n + 1
  <2>1. ~(m < m)
    OBVIOUS
  <2>2. {y \in T : y < m} = S
    BY <2>1
  <2> QED BY <2>2 DEF Rank
<1>5. /\ T \in SUBSET Int
      /\ Sorted(S) \in Seq(T) /\ Len(Sorted(S)) = n
      /\ \A i \in 1..n : Sorted(S)[i] \in S /\ Rank(S, Sorted(S)[i]) = i
  BY SortedRanks
<1>6. /\ Sorted(T) \in Seq(T) /\ Len(Sorted(T)) = n + 1
      /\ \A x \in T : Sorted(T)[Rank(T, x)] = x
  BY <1>2, <1>5, SortedRanks
<1>7. \A i \in 1..n : Sorted(T)[i] = Sorted(S)[i]
  BY <1>3, <1>5, <1>6
<1>8. Sorted(T)[n + 1] = m
  BY <1>4, <1>6
<1> DEFINE s == Append(Sorted(S), m)
<1>9. s \in Seq(T) /\ Len(s) = n + 1 /\ s[n + 1] = m /\ \A i \in 1..n : s[i] = Sorted(S)[i]
  BY <1>1, <1>5, AppendProperties
<1> HIDE DEF T, s
<1>10. \A i \in 1..(n + 1) : Sorted(T)[i] = s[i]
  BY <1>1, <1>7, <1>8, <1>9
<1>11. Sorted(T) = s
  BY <1>6, <1>9, <1>10, SeqEqual
<1> QED BY <1>2, <1>11 DEF T, s

---------------------------------------------------------------------------
(* Parts of a sequence                                                     *)

(* Extract has what is at the given places, and all of it.                   *)
LEMMA ExtractHas ==
    ASSUME NEW X, NEW seq, NEW places \in SUBSET Int, IsFiniteSet(places),
           \A p \in places : seq[p] \in X
    PROVE  /\ Extract(seq, places) \in Seq(X)
           /\ Len(Extract(seq, places)) = Cardinality(places)
           /\ \A p \in places : \E i \in 1..Cardinality(places) : Extract(seq, places)[i] = seq[p]
<1> DEFINE n == Cardinality(places)
<1>1. /\ n \in Nat
      /\ \A i \in 1..n : Sorted(places)[i] \in places
      /\ \A p \in places : Rank(places, p) \in 1..n /\ Sorted(places)[Rank(places, p)] = p
  BY SortedRanks
<1>2. Extract(seq, places) = [i \in 1..n |-> seq[Sorted(places)[i]]]
  BY DEF Extract
<1> HIDE DEF n
<1>3. Extract(seq, places) \in [1..n -> X]
  BY <1>1, <1>2
<1>4. \A p \in places : Extract(seq, places)[Rank(places, p)] = seq[p]
  BY <1>1, <1>2
<1> QED BY <1>1, <1>3, <1>4 DEF n

(* Every element is from one of the places, and of two elements the first is *)
(* from the smaller place.                                                   *)
LEMMA ExtractFrom ==
    ASSUME NEW seq, NEW places \in SUBSET Int, IsFiniteSet(places)
    PROVE  \A j \in 1..Cardinality(places) :
              /\ Sorted(places)[j] \in places
              /\ Extract(seq, places)[j] = seq[Sorted(places)[j]]
              /\ \A i \in 1..(j - 1) : Sorted(places)[i] < Sorted(places)[j]
<1> DEFINE n == Cardinality(places)
<1>1. n \in Nat /\ \A j \in 1..n : Sorted(places)[j] \in places
  BY SortedRanks
<1>2. Extract(seq, places) = [j \in 1..n |-> seq[Sorted(places)[j]]]
  BY DEF Extract
<1>3. ASSUME NEW j \in 1..n, NEW i \in 1..(j - 1) PROVE Sorted(places)[i] < Sorted(places)[j]
  <2>1. i \in 1..n /\ i < j
    BY <1>1
  <2> QED BY <2>1, SortedAscends
<1> HIDE DEF n
<1>4. \A j \in 1..n : Extract(seq, places)[j] = seq[Sorted(places)[j]]
  BY <1>2
<1> QED BY <1>1, <1>3, <1>4 DEF n

LEMMA ExtractNothing ==
    ASSUME NEW seq
    PROVE  Extract(seq, {}) = <<>>
<1>1. Cardinality({}) = 0 /\ IsFiniteSet({}) /\ {} \in SUBSET Int
  BY FS_EmptySet
<1>2. Extract(seq, {}) \in Seq({}) /\ Len(Extract(seq, {})) = 0
  BY <1>1, ExtractHas
<1> QED BY <1>2, EmptySeq

(* When a sequence has got longer, the same places hold the same, and its    *)
(* last place comes last.                                                    *)
LEMMA ExtractAppend ==
    ASSUME NEW X, NEW seq \in Seq(X), NEW e \in X, NEW places \in SUBSET (1..Len(seq))
    PROVE  /\ Extract(Append(seq, e), places) = Extract(seq, places)
           /\ Extract(Append(seq, e), places \cup {Len(seq) + 1}) = Append(Extract(seq, places), e)
<1> DEFINE longer == Append(seq, e)
           m == Len(seq) + 1
           n == Cardinality(places)
           more == places \cup {m}
<1>1. m \in Int /\ places \in SUBSET Int /\ \A p \in places : p < m
  OBVIOUS
<1>2. IsFiniteSet(places)
  <2>1. IsFiniteSet(1..Len(seq))
    BY FS_Interval
  <2> QED BY <2>1, FS_Subset
<1>3. n \in Nat /\ \A i \in 1..n : Sorted(places)[i] \in places
  BY <1>1, <1>2, SortedRanks
<1>4. longer \in Seq(X) /\ longer[m] = e /\ \A p \in places : longer[p] = seq[p]
  BY AppendProperties
<1>5. Extract(longer, places) = Extract(seq, places)
  BY <1>3, <1>4 DEF Extract
<1>6. /\ Cardinality(more) = n + 1 /\ IsFiniteSet(more)
      /\ Sorted(more) = Append(Sorted(places), m)
  BY <1>1, <1>2, SortedAddLast
<1>7. Sorted(places) \in Seq(Int) /\ Len(Sorted(places)) = n
  <2>1. Sorted(places) \in Seq(places) /\ Len(Sorted(places)) = n
    BY <1>1, <1>2, SortedRanks
  <2> QED BY <1>1, <2>1, SeqMonotonic
<1>8. Sorted(more)[n + 1] = m /\ \A i \in 1..n : Sorted(more)[i] = Sorted(places)[i]
  <2> HIDE DEF more, n, m
  <2> QED BY <1>1, <1>3, <1>6, <1>7, AppendProperties
<1>9. Extract(seq, places) \in Seq(X) /\ Len(Extract(seq, places)) = n
  BY <1>1, <1>2, ExtractHas
<1>10. Extract(longer, more) \in Seq(X) /\ Len(Extract(longer, more)) = n + 1
  <2>1. more \in SUBSET Int /\ \A p \in more : longer[p] \in X
    <3>1. \A p \in places : seq[p] \in X
      BY ElementOfSeq
    <3> HIDE DEF longer, m
    <3> QED BY <1>1, <1>4, <3>1
  <2> HIDE DEF more, longer
  <2> QED BY <1>6, <2>1, ExtractHas
<1> DEFINE s == Append(Extract(seq, places), e)
<1>11. /\ s \in Seq(X) /\ Len(s) = n + 1 /\ s[n + 1] = e
       /\ \A i \in 1..n : s[i] = Extract(seq, places)[i]
  BY <1>9, AppendProperties
<1>12. \A i \in 1..(n + 1) : Extract(longer, more)[i] = s[i]
  <2> HIDE DEF more, longer, s, n
  <2>1. Extract(longer, more) = [i \in 1..(n + 1) |-> longer[Sorted(more)[i]]]
    BY <1>6 DEF Extract
  <2>2. Extract(seq, places) = [i \in 1..n |-> seq[Sorted(places)[i]]]
    BY DEF Extract, n
  <2>3. Extract(longer, more)[n + 1] = e
    BY <1>3, <1>4, <1>8, <2>1
  <2>4. ASSUME NEW i \in 1..n PROVE Extract(longer, more)[i] = Extract(seq, places)[i]
    <3>1. i \in 1..(n + 1) /\ Sorted(places)[i] \in places /\ Sorted(more)[i] = Sorted(places)[i]
      BY <1>3, <1>8
    <3>2. Extract(longer, more)[i] = longer[Sorted(places)[i]]
      BY <2>1, <3>1
    <3>3. longer[Sorted(places)[i]] = seq[Sorted(places)[i]]
      BY <1>4, <3>1
    <3> QED BY <2>2, <3>2, <3>3
  <2> QED BY <1>3, <1>11, <2>3, <2>4
<1> HIDE DEF longer, more, s
<1>13. Extract(longer, more) = s
  BY <1>10, <1>11, <1>12, SeqEqual
<1> QED BY <1>5, <1>13 DEF longer, more, s

(* Without some of its members a set ranks no number higher.                 *)
LEMMA RankShrinks ==
    ASSUME NEW S, IsFiniteSet(S), NEW T \in SUBSET S, NEW x
    PROVE  Rank(T, x) <= Rank(S, x)
<1> DEFINE A == {y \in T : y < x}
           B == {y \in S : y < x}
<1>1. A \in SUBSET B
  OBVIOUS
<1>2. IsFiniteSet(B) /\ Cardinality(B) \in Nat
  BY BelowFinite
<1> HIDE DEF A, B
<1>3. Cardinality(A) <= Cardinality(B) /\ Cardinality(A) \in Nat
  BY <1>1, <1>2, FS_Subset, FS_CardinalityType
<1>4. Rank(T, x) = Cardinality(A) + 1 /\ Rank(S, x) = Cardinality(B) + 1
  BY DEF Rank, A, B
<1> QED BY <1>2, <1>3, <1>4

(* Moving the head of one sequence to the end of another changes nothing of  *)
(* what the two hold together.                                               *)
LEMMA MoveOver ==
    ASSUME NEW X, NEW a \in Seq(X), NEW b \in Seq(X), b # <<>>
    PROVE  /\ Append(a, Head(b)) \in Seq(X) /\ Tail(b) \in Seq(X)
           /\ Append(a, Head(b)) \o Tail(b) = a \o b
<1>1. Head(b) \in X /\ Tail(b) \in Seq(X) /\ Len(b) \in Nat \ {0} /\ Len(Tail(b)) = Len(b) - 1
      /\ \A i \in 1..Len(Tail(b)) : Tail(b)[i] = b[i + 1]
  BY HeadTailProperties, EmptySeq
<1> DEFINE c == Append(a, Head(b))
<1>2. c \in Seq(X) /\ Len(c) = Len(a) + 1 /\ Len(a) \in Nat /\ c[Len(a) + 1] = b[1]
      /\ \A i \in 1..Len(a) : c[i] = a[i]
  BY <1>1, AppendProperties
<1> HIDE DEF c
<1> DEFINE d == c \o Tail(b)
           e == a \o b
<1>3. d \in Seq(X) /\ Len(d) = Len(c) + Len(Tail(b))
      /\ \A i \in 1..(Len(c) + Len(Tail(b))) : d[i] = IF i <= Len(c) THEN c[i] ELSE Tail(b)[i - Len(c)]
  BY <1>1, <1>2, ConcatProperties
<1>4. e \in Seq(X) /\ Len(e) = Len(a) + Len(b)
      /\ \A i \in 1..(Len(a) + Len(b)) : e[i] = IF i <= Len(a) THEN a[i] ELSE b[i - Len(a)]
  BY ConcatProperties
<1> HIDE DEF d, e
<1>5. Len(d) = Len(e)
  BY <1>1, <1>2, <1>3, <1>4
<1>6. ASSUME NEW i \in 1..Len(e) PROVE d[i] = e[i]
  <2>0. i \in 1..(Len(a) + Len(b)) /\ i \in 1..(Len(c) + Len(Tail(b)))
    BY <1>1, <1>2, <1>4
  <2>1. CASE i <= Len(a)
    BY <1>2, <1>3, <1>4, <2>0, <2>1
  <2>2. CASE i = Len(a) + 1
    <3>1. d[i] = c[Len(a) + 1]
      BY <1>2, <1>3, <2>0, <2>2
    <3>2. ~(i <= Len(a)) /\ i - Len(a) = 1
      BY <1>2, <2>2
    <3>3. e[i] = b[i - Len(a)]
      BY <1>4, <2>0, <3>2
    <3> QED BY <1>2, <3>1, <3>2, <3>3
  <2>3. CASE i > Len(a) + 1
    <3>1. i - Len(c) \in 1..Len(Tail(b)) /\ (i - Len(c)) + 1 = i - Len(a) /\ ~(i <= Len(c)) /\ ~(i <= Len(a))
      BY <1>1, <1>2, <2>0, <2>3
    <3> QED BY <1>1, <1>3, <1>4, <2>0, <3>1
  <2> QED BY <1>2, <2>0, <2>1, <2>2, <2>3
<1>7. d = e
  BY <1>3, <1>4, <1>5, <1>6, SeqEqual
<1> QED BY <1>1, <1>2, <1>7 DEF c, d, e

(* A sequence that agrees with a part of another is that part.               *)
LEMMA SliceIs ==
    ASSUME NEW X, NEW s \in Seq(X), NEW a \in Nat, NEW f \in Seq(X), NEW b \in Nat,
           b = a + Len(f), b <= Len(s), \A i \in 1..Len(f) : f[i] = s[a + i]
    PROVE  f = SubSeq(s, a + 1, b)
<1> DEFINE g == SubSeq(s, a + 1, b)
<1>1. a + 1 \in Int /\ b \in Int /\ \A i \in (a + 1)..b : s[i] \in X
  <2>1. \A i \in (a + 1)..b : i \in 1..Len(s)
    OBVIOUS
  <2> QED BY <2>1, ElementOfSeq
<1>2. /\ g \in Seq(X) /\ Len(g) = IF a + 1 <= b THEN b - (a + 1) + 1 ELSE 0
      /\ \A i \in 1..(b - (a + 1) + 1) : g[i] = s[a + 1 + i - 1]
  BY <1>1, SubSeqProperties
<1> HIDE DEF g
<1>3. Len(f) \in Nat /\ Len(g) = Len(f)
  BY <1>2
<1>4. ASSUME NEW i \in 1..Len(f) PROVE f[i] = g[i]
  <2>1. i \in 1..(b - (a + 1) + 1) /\ a + 1 + i - 1 = a + i
    BY <1>3
  <2> QED BY <1>2, <2>1
<1>5. f = g
  BY <1>2, <1>3, <1>4, SeqEqual
<1> QED BY <1>5 DEF g

(* What a sequence has in an interval of places.                             *)
LEMMA ExtractInterval ==
    ASSUME NEW seq, NEW a \in Nat, NEW b \in Nat, a <= b
    PROVE  /\ Len(Extract(seq, (a + 1)..b)) = b - a
           /\ \A j \in 1..(b - a) : Extract(seq, (a + 1)..b)[j] = seq[a + j]
<1> DEFINE places == (a + 1)..b
<1>0. ASSUME NEW i \in Int, NEW n \in Int, i <= n + 1
      PROVE  IsFiniteSet(i..n) /\ Cardinality(i..n) = n - i + 1
  <2>1. IsFiniteSet(i..n) /\ Cardinality(i..n) = IF i > n THEN 0 ELSE n - i + 1
    BY FS_Interval
  <2> QED BY <1>0, <2>1
<1>1. IsFiniteSet(places) /\ Cardinality(places) = b - a /\ places \in SUBSET Int
  <2>1. a + 1 \in Int /\ b \in Int /\ a + 1 <= b + 1 /\ b - (a + 1) + 1 = b - a OBVIOUS
  <2> QED BY <1>0, <2>1
<1>2. ASSUME NEW j \in 1..(b - a) PROVE Sorted(places)[j] = a + j
  <2>1. a + j \in places /\ {y \in places : y < a + j} = (a + 1)..(a + j - 1)
    OBVIOUS
  <2>2. Cardinality((a + 1)..(a + j - 1)) = j - 1
    <3>1. /\ a + 1 \in Int /\ a + j - 1 \in Int /\ a + 1 <= a + j - 1 + 1
          /\ a + j - 1 - (a + 1) + 1 = j - 1
      OBVIOUS
    <3> QED BY <1>0, <3>1
  <2> HIDE DEF places
  <2>3. Rank(places, a + j) = j - 1 + 1 BY <2>1, <2>2, Zenon DEF Rank
  <2>4. Rank(places, a + j) = j BY <2>3
  <2> QED BY <1>1, <2>1, <2>4, SortedRanks
<1>3. Extract(seq, places) = [j \in 1..(b - a) |-> seq[Sorted(places)[j]]]
  BY <1>1 DEF Extract
<1> HIDE DEF places
<1>4. Len(Extract(seq, places)) = b - a BY <1>3
<1>5. \A j \in 1..(b - a) : Extract(seq, places)[j] = seq[a + j] BY <1>2, <1>3
<1> QED BY <1>4, <1>5 DEF places
=============================================================================
