------------------------------ MODULE NewsProofs ------------------------------
(***************************************************************************)
(* Proofs about News: what sorting, grouping and counting give for every    *)
(* feed, and from that the four invariants of the run.                     *)
(***************************************************************************)
EXTENDS News, FiniteSetTheorems, SequenceTheorems, TLAPS

-----------------------------------------------------------------------------
(***************************************************************************)
(* Counting up.                                                            *)
(***************************************************************************)

\* A set of natural numbers that is not empty has a least element.
LEMMA LeastNat ==
  ASSUME NEW N \in SUBSET Nat, N # {}
  PROVE  \E n \in N : \A m \in N : n <= m
<1> DEFINE Less == OpToRel(<, Nat)
<1>1. IsWellFoundedOn(Less, Nat)
  BY NatLessThanWellFounded
<1>2. PICK n \in N : \A m \in N : ~(<<m, n>> \in Less)
  BY <1>1, WFMin
<1>3. \A m \in Nat : m < n => <<m, n>> \in Less
  BY <1>2 DEF OpToRel
<1> HIDE DEF Less
<1> QED
  <2>1. \A m \in N : ~(m < n)
    BY <1>2, <1>3
  <2> QED
    BY <2>1

\* What holds of the first number and of the successor of each before the
\* last holds of all of them.
LEMMA CountingUp ==
  ASSUME NEW m \in Nat, NEW N \in Nat, NEW S, m \in S,
         \A n \in m .. N : n \in S /\ n < N => n + 1 \in S
  PROVE  \A n \in m .. N : n \in S
<1> DEFINE bad == {n \in m .. N : n \notin S}
<1> SUFFICES ASSUME bad # {} PROVE FALSE
  OBVIOUS
<1>1. bad \in SUBSET Nat
  OBVIOUS
<1>2. PICK n \in bad : \A k \in bad : n <= k
  BY <1>1, LeastNat
<1>3. n \in m .. N /\ n # m /\ n \notin S
  BY <1>2
<1>4. n - 1 \in m .. N /\ n - 1 \in S
  BY <1>2, <1>3
<1>5. (n - 1) + 1 \in S
  BY <1>3, <1>4
<1> QED
  BY <1>3, <1>5

\* g starts at m with a, and F makes each value from its number and the one before.
Recurs(g, m, N, T, a, F) ==
  g \in [m .. N -> T] /\ g[m] = a /\ \A i \in m .. N : i # m => g[i] = F[<<i, g[i - 1]>>]

\* There is such a function.
LEMMA Recursion ==
  ASSUME NEW m \in Nat, NEW N \in Nat, m <= N, NEW T, NEW a \in T,
         NEW F \in [(m .. N) \X T -> T]
  PROVE  \E g : Recurs(g, m, N, T, a, F)
<1> DEFINE Good(n, g) == g[m] = a /\ \A i \in m .. n : i # m => g[i] = F[<<i, g[i - 1]>>]
           S == {n \in m .. N : \E g \in [m .. n -> T] : Good(n, g)}
<1>1. m \in S
  <2>1. [i \in m .. m |-> a] \in [m .. m -> T] /\ Good(m, [i \in m .. m |-> a])
    OBVIOUS
  <2>2. m \in m .. N
    OBVIOUS
  <2> HIDE DEF Good
  <2> QED
    BY <2>1, <2>2
<1>2. ASSUME NEW n \in m .. N, n \in S, n < N PROVE n + 1 \in S
  <2>1. PICK g \in [m .. n -> T] : Good(n, g)
    BY <1>2
  <2> DEFINE h == [i \in m .. n + 1 |-> IF i = n + 1 THEN F[<<n + 1, g[n]>>] ELSE g[i]]
  <2>2. g[n] \in T /\ n + 1 \in m .. N
    BY <1>2
  <2>3. F[<<n + 1, g[n]>>] \in T
    BY <2>2
  <2>4. h \in [m .. n + 1 -> T]
    BY <2>3
  <2>5. h[m] = a
    BY <2>1
  <2>6. ASSUME NEW i \in m .. n + 1, i # m PROVE h[i] = F[<<i, h[i - 1]>>]
    <3>1. h[i - 1] = g[i - 1]
      <4>1. i - 1 \in m .. n + 1 /\ i - 1 # n + 1
        BY <2>6
      <4> QED
        BY <4>1
    <3>2. CASE i = n + 1
      <4>1. h[i] = F[<<i, g[n]>>] /\ i - 1 = n
        BY <3>2
      <4> HIDE DEF h, Good, S
      <4> QED
        BY <3>1, <4>1
    <3>3. CASE i # n + 1
      <4>1. i \in m .. n /\ h[i] = g[i]
        BY <3>3
      <4>2. g[i] = F[<<i, g[i - 1]>>]
        BY <4>1, <2>1, <2>6
      <4> QED
        BY <3>1, <4>1, <4>2
    <3> QED
      BY <3>2, <3>3
  <2>7. Good(n + 1, h)
    BY <2>5, <2>6
  <2> HIDE DEF h, Good
  <2> QED
    BY <2>2, <2>4, <2>7
<1>3. N \in S
  <2> HIDE DEF S
  <2>1. \A n \in m .. N : n \in S
    BY <1>1, <1>2, CountingUp
  <2> QED
    BY <2>1
<1> QED
  BY <1>3 DEF Recurs

-----------------------------------------------------------------------------
(***************************************************************************)
(* Sorting.                                                                *)
(***************************************************************************)

\* How many of the numbers in I come no later than j.
RankIn(I, key, j) == Cardinality({i \in I : Precedes(key, i, j)})

\* The ranks of n numbers are 1 .. n, each once.
LEMMA Ranks ==
  ASSUME NEW I \in SUBSET Nat, IsFiniteSet(I), NEW key, \A i \in I : key[i] \in Int
  PROVE  /\ Cardinality(I) \in Nat
         /\ \A j \in I : RankIn(I, key, j) \in 1 .. Cardinality(I)
         /\ \A i, j \in I : RankIn(I, key, i) = RankIn(I, key, j) => i = j
         /\ \A k \in 1 .. Cardinality(I) : \E j \in I : RankIn(I, key, j) = k
<1> DEFINE Upto(j) == {i \in I : Precedes(key, i, j)}
           n == Cardinality(I)
           r == [j \in I |-> RankIn(I, key, j)]
<1>1. n \in Nat
  BY FS_CardinalityType
<1>2. ASSUME NEW j \in I
      PROVE  IsFiniteSet(Upto(j)) /\ Cardinality(Upto(j)) \in 1 .. n /\ j \in Upto(j)
  <2>1. Upto(j) \in SUBSET I
    OBVIOUS
  <2>2. IsFiniteSet(Upto(j)) /\ Cardinality(Upto(j)) <= n
    BY <2>1, FS_Subset
  <2>3. j \in Upto(j)
    BY DEF Precedes
  <2>4. Cardinality(Upto(j)) \in Nat /\ Cardinality(Upto(j)) # 0
    BY <2>2, <2>3, FS_CardinalityType, FS_EmptySet
  <2> QED
    BY <1>1, <2>2, <2>3, <2>4
<1>3. ASSUME NEW i \in I, NEW j \in I, i # j, Precedes(key, i, j)
      PROVE  Cardinality(Upto(i)) # Cardinality(Upto(j))
  <2>1. ~Precedes(key, j, i)
    BY <1>3 DEF Precedes
  <2>2. \A k \in I : Precedes(key, k, i) => Precedes(key, k, j)
    BY <1>3 DEF Precedes
  <2>3. Upto(i) \in SUBSET Upto(j) /\ Upto(i) # Upto(j)
    BY <2>1, <2>2, <1>2
  <2> QED
    BY <2>3, <1>2, FS_Subset
<1>4. ASSUME NEW i \in I, NEW j \in I, RankIn(I, key, i) = RankIn(I, key, j) PROVE i = j
  <2>1. Precedes(key, i, j) \/ Precedes(key, j, i)
    BY DEF Precedes
  <2> QED
    BY <2>1, <1>3, <1>4 DEF RankIn
<1>5. \A j \in I : RankIn(I, key, j) \in 1 .. n
  BY <1>2 DEF RankIn
<1>6. r \in Injection(I, 1 .. n)
  BY <1>4, <1>5 DEF Injection, IsInjective
<1>7. IsFiniteSet(1 .. n) /\ Cardinality(1 .. n) = n
  BY <1>1, FS_Interval
<1>8. r \in Surjection(I, 1 .. n)
  BY <1>6, <1>7, FS_Injection
<1> QED
  BY <1>1, <1>4, <1>5, <1>8 DEF Surjection

\* A sorted list holds what the function gives, each number's value once; in
\* ArrangedAt, by the rank of the number.
LEMMA ArrangedAt ==
  ASSUME NEW f, DOMAIN f \in SUBSET Nat, IsFiniteSet(DOMAIN f),
         NEW key, \A i \in DOMAIN f : key[i] \in Int
  PROVE  /\ Cardinality(DOMAIN f) \in Nat
         /\ DOMAIN Arranged(f, key) = 1 .. Cardinality(DOMAIN f)
         /\ Len(Arranged(f, key)) = Cardinality(DOMAIN f)
         /\ \A j \in DOMAIN f : /\ RankIn(DOMAIN f, key, j) \in 1 .. Cardinality(DOMAIN f)
                                /\ Arranged(f, key)[RankIn(DOMAIN f, key, j)] = f[j]
         /\ \A k \in 1 .. Cardinality(DOMAIN f) : \E j \in DOMAIN f :
              RankIn(DOMAIN f, key, j) = k /\ Arranged(f, key)[k] = f[j]
<1> DEFINE I == DOMAIN f
           n == Cardinality(I)
           At(k) == CHOOSE j \in I : RankIn(I, key, j) = k
<1>1. /\ n \in Nat
      /\ \A j \in I : RankIn(I, key, j) \in 1 .. n
      /\ \A i, j \in I : RankIn(I, key, i) = RankIn(I, key, j) => i = j
      /\ \A k \in 1 .. n : \E j \in I : RankIn(I, key, j) = k
  BY Ranks
<1>2. Arranged(f, key) = [k \in 1 .. n |-> f[At(k)]]
  BY DEF Arranged, RankIn
<1>3. Len(Arranged(f, key)) = n
  BY <1>1, <1>2, LenProperties
<1>4. \A j \in I : At(RankIn(I, key, j)) = j
  BY <1>1
<1>5. \A k \in 1 .. n : At(k) \in I /\ RankIn(I, key, At(k)) = k
  BY <1>1
<1> HIDE DEF At, n, I
<1>6. \A j \in I : Arranged(f, key)[RankIn(I, key, j)] = f[j]
  BY <1>1, <1>2, <1>4
<1>7. \A k \in 1 .. n : Arranged(f, key)[k] = f[At(k)]
  BY <1>2
<1> QED
  BY <1>1, <1>2, <1>3, <1>5, <1>6, <1>7 DEF n, I

\* A sorted list is as long as the set it is made of and has no other elements.
LEMMA ArrangedElements ==
  ASSUME NEW I \in SUBSET Nat, IsFiniteSet(I), NEW f, DOMAIN f = I,
         NEW key, \A i \in I : key[i] \in Int
  PROVE  /\ Cardinality(I) \in Nat
         /\ DOMAIN Arranged(f, key) = 1 .. Cardinality(I)
         /\ Len(Arranged(f, key)) = Cardinality(I)
         /\ \A k \in 1 .. Cardinality(I) : \E j \in I : Arranged(f, key)[k] = f[j]
<1> DEFINE n == Cardinality(I)
           At(k) == CHOOSE j \in I : RankIn(I, key, j) = k
<1>1. n \in Nat /\ \A k \in 1 .. n : \E j \in I : RankIn(I, key, j) = k
  BY Ranks
<1>2. Arranged(f, key) = [k \in 1 .. n |-> f[At(k)]]
  BY DEF Arranged, RankIn
<1>3. \A k \in 1 .. n : At(k) \in I
  BY <1>1
<1> HIDE DEF n, At
<1>4. Len(Arranged(f, key)) = n
  BY <1>1, <1>2, LenProperties
<1> QED
  BY <1>1, <1>2, <1>3, <1>4 DEF n

\* Sorting loses no element either.
LEMMA ArrangedRange ==
  ASSUME NEW f, DOMAIN f \in SUBSET Nat, IsFiniteSet(DOMAIN f),
         NEW key, \A i \in DOMAIN f : key[i] \in Int
  PROVE  /\ DOMAIN Arranged(f, key) = 1 .. Cardinality(DOMAIN f)
         /\ SeqSet(Arranged(f, key)) = {f[j] : j \in DOMAIN f}
<1>1. ASSUME NEW j \in DOMAIN f
      PROVE  \E k \in DOMAIN Arranged(f, key) : Arranged(f, key)[k] = f[j]
  <2>1. /\ RankIn(DOMAIN f, key, j) \in DOMAIN Arranged(f, key)
        /\ Arranged(f, key)[RankIn(DOMAIN f, key, j)] = f[j]
    BY ArrangedAt
  <2> QED
    BY <2>1
<1>2. \A k \in DOMAIN Arranged(f, key) : \E j \in DOMAIN f : Arranged(f, key)[k] = f[j]
  BY ArrangedAt
<1>3. DOMAIN Arranged(f, key) = 1 .. Cardinality(DOMAIN f)
  BY ArrangedAt
<1>4. SeqSet(Arranged(f, key)) = {f[j] : j \in DOMAIN f}
  <2> DEFINE s == Arranged(f, key)
  <2>1. \A x : x \in SeqSet(s) <=> \E k \in DOMAIN s : x = s[k]
    BY DEF SeqSet
  <2> HIDE DEF s
  <2>2. \A x : x \in SeqSet(s) <=> \E j \in DOMAIN f : x = f[j]
    BY <1>1, <1>2, <2>1 DEF s
  <2> QED
    BY <2>2 DEF s
<1> QED
  BY <1>3, <1>4

\* Sorting elements of T gives a list of elements of T.
LEMMA ArrangedType ==
  ASSUME NEW T, NEW f, DOMAIN f \in SUBSET Nat, IsFiniteSet(DOMAIN f),
         NEW key, \A i \in DOMAIN f : key[i] \in Int, \A i \in DOMAIN f : f[i] \in T
  PROVE  Arranged(f, key) \in Seq(T)
<1>1. \A k \in 1 .. Cardinality(DOMAIN f) : Arranged(f, key)[k] \in T
  BY ArrangedAt
<1>2. Arranged(f, key) = [k \in 1 .. Cardinality(DOMAIN f) |-> Arranged(f, key)[k]]
  BY DEF Arranged
<1>3. Cardinality(DOMAIN f) \in Nat
  BY FS_CardinalityType
<1> QED
  BY <1>1, <1>2, <1>3

\* All of a list in its order is the list.
LEMMA InOrderOfAll ==
  ASSUME NEW n \in Nat, NEW f, DOMAIN f = 1 .. n, f = [i \in 1 .. n |-> f[i]]
  PROVE  InOrder(f) = f
<1> DEFINE zero == [i \in DOMAIN f |-> 0]
<1>1. IsFiniteSet(1 .. n) /\ Cardinality(1 .. n) = n
  BY FS_Interval
<1>2. ASSUME NEW j \in 1 .. n PROVE RankIn(DOMAIN f, zero, j) = j
  <2>1. {i \in DOMAIN f : Precedes(zero, i, j)} = 1 .. j
    BY DEF Precedes
  <2>2. Cardinality(1 .. j) = j
    BY FS_Interval
  <2> QED
    BY <2>1, <2>2 DEF RankIn
<1>3. DOMAIN f \in SUBSET Nat /\ IsFiniteSet(DOMAIN f) /\ \A i \in DOMAIN f : zero[i] \in Int
  BY <1>1
<1> HIDE DEF zero
<1>4. /\ \A j \in 1 .. n : Arranged(f, zero)[j] = f[j]
      /\ DOMAIN Arranged(f, zero) = 1 .. n
  BY SMTT(20), <1>1, <1>2, <1>3, ArrangedAt
<1>5. Arranged(f, zero) = [j \in DOMAIN Arranged(f, zero) |-> Arranged(f, zero)[j]]
  BY DEF Arranged
<1>6. Arranged(f, zero) = [j \in 1 .. n |-> f[j]]
  BY <1>4, <1>5
<1> QED
  BY <1>6 DEF InOrder, zero

-----------------------------------------------------------------------------
(***************************************************************************)
(* Adding up.                                                              *)
(***************************************************************************)
LEMMA TotalType ==
  ASSUME NEW n \in Nat, NEW s, DOMAIN s = 1 .. n, \A i \in 1 .. n : s[i] \in Nat, Len(s) = n
  PROVE  Total(s) \in Nat
<1> DEFINE F == [p \in (0 .. n) \X Nat |-> IF p[1] = 0 THEN 0 ELSE p[2] + s[p[1]]]
<1>1. F \in [(0 .. n) \X Nat -> Nat]
  OBVIOUS
<1>2. \E g : Recurs(g, 0, n, Nat, 0, F)
  <2> DEFINE zero == 0
  <2>1. zero \in Nat /\ zero <= n /\ F \in [(zero .. n) \X Nat -> Nat]
    BY <1>1
  <2> HIDE DEF F, zero
  <2>2. \E g : Recurs(g, zero, n, Nat, zero, F)
    BY <2>1, Recursion
  <2> QED
    BY <2>2 DEF zero
<1> PICK g : Recurs(g, 0, n, Nat, 0, F)
  BY <1>2
<1>3. \A i \in 0 .. n : i # 0 => F[<<i, g[i - 1]>>] = g[i - 1] + s[i]
  BY DEF Recurs
<1> HIDE DEF F
<1>4. g = [i \in 0 .. n |-> IF i = 0 THEN 0 ELSE g[i - 1] + s[i]]
  BY <1>3 DEF Recurs
<1> DEFINE Sums(h) == h = [i \in 0 .. n |-> IF i = 0 THEN 0 ELSE h[i - 1] + s[i]]
           upTo == CHOOSE h : Sums(h)
<1>5. Sums(upTo) /\ Total(s) = upTo[n]
  <2>1. Total(s) = upTo[n]
    BY DEF Total
  <2>2. Sums(g)
    BY <1>4
  <2> QED
    BY <2>1, <2>2
<1> HIDE DEF upTo
<1> DEFINE S == {i \in 0 .. n : upTo[i] \in Nat}
<1>6. 0 \in S
  BY <1>5
<1>7. \A i \in 0 .. n : i \in S /\ i < n => i + 1 \in S
  <2> TAKE i \in 0 .. n
  <2> HAVE i \in S /\ i < n
  <2>1. i + 1 \in 0 .. n /\ i + 1 # 0 /\ (i + 1) - 1 = i /\ i + 1 \in 1 .. n
    OBVIOUS
  <2>2. upTo[i + 1] = upTo[i] + s[i + 1]
    BY <1>5, <2>1
  <2> QED
    BY <2>1, <2>2
<1> HIDE DEF S, Sums
<1>8. n \in S
  <2> DEFINE m == 0
  <2>1. m \in Nat /\ m \in S /\ (\A i \in m .. n : i \in S /\ i < n => i + 1 \in S) /\ n \in m .. n
    BY <1>6, <1>7
  <2> HIDE DEF m
  <2> QED
    BY <2>1, CountingUp
<1> QED
  BY <1>5, <1>8 DEF S

-----------------------------------------------------------------------------
(***************************************************************************)
(* Grouping.  A story is a set of articles closed under similarity; groups *)
(* are Sound when they divide the articles and none of them holds articles *)
(* of different stories.                                                   *)
(***************************************************************************)
Feed(feed) == DOMAIN feed = 1 .. Len(feed) /\ Len(feed) \in Nat

Inseparable(feed, g) == \A a, b \in g : \A c \in Stories(feed) : a \in c => b \in c

Sound(feed) ==
  {groups \in SUBSET SUBSET DOMAIN feed :
     /\ \A i \in DOMAIN feed : \E g \in groups : i \in g
     /\ \A g, h \in groups : \A i \in g : i \in h => g = h
     /\ \A g \in groups : g # {} /\ Inseparable(feed, g)}

Together(groups, i, j) == \E g \in groups : i \in g /\ j \in g

\* No story reaches max_cluster.
Short(feed) == \A i \in DOMAIN feed : Cardinality(Linked(feed)[i]) < MaxCluster

\* Which of two articles is read first does not matter to their similarity.
LEMMA SimilarSymmetric == \A a, b : Similar(a, b) => Similar(b, a)
<1> TAKE a, b
<1>1. Tokens(a) \cap Tokens(b) = Tokens(b) \cap Tokens(a) /\ Tokens(a) \cup Tokens(b) = Tokens(b) \cup Tokens(a)
  OBVIOUS
<1> QED
  BY <1>1 DEF Similar

\* In a partition every article has one group.
LEMMA GroupOfSound ==
  ASSUME NEW feed, NEW groups \in Sound(feed), NEW i \in DOMAIN feed
  PROVE  /\ GroupOf(groups, i) \in groups
         /\ i \in GroupOf(groups, i)
         /\ GroupOf(groups, i) \subseteq DOMAIN feed
         /\ \A g \in groups : i \in g => g = GroupOf(groups, i)
<1>1. \E g \in groups : i \in g
  BY DEF Sound
<1>2. GroupOf(groups, i) \in groups /\ i \in GroupOf(groups, i)
  BY <1>1 DEF GroupOf
<1> QED
  BY <1>2 DEF Sound

\* A group is part of the story of each of its articles.
LEMMA GroupInStory ==
  ASSUME NEW feed, NEW groups \in Sound(feed), NEW g \in groups, NEW i \in g
  PROVE  g \subseteq Linked(feed)[i]
<1>1. i \in DOMAIN feed /\ g \subseteq DOMAIN feed /\ Inseparable(feed, g)
  BY DEF Sound
<1>2. Linked(feed)[i] = {j \in DOMAIN feed : \A c \in Stories(feed) : i \in c => j \in c}
  BY <1>1 DEF Linked
<1> QED
  BY <1>1, <1>2 DEF Inseparable

\* Where stories are short the limit of the detector is never met.
LEMMA ShortNeverFull ==
  ASSUME NEW feed, Feed(feed), Short(feed), NEW groups \in Sound(feed), NEW g \in groups
  PROVE  ~Full(g)
<1>1. PICK i \in g : TRUE
  BY DEF Sound
<1>2. i \in DOMAIN feed /\ g \subseteq Linked(feed)[i] /\ Linked(feed)[i] \subseteq DOMAIN feed
  <2>1. i \in DOMAIN feed
    BY DEF Sound
  <2> QED
    BY <2>1, GroupInStory DEF Linked
<1>3. IsFiniteSet(DOMAIN feed)
  BY FS_Interval DEF Feed
<1>4. IsFiniteSet(Linked(feed)[i])
  BY <1>2, <1>3, FS_Subset
<1>5. Cardinality(g) <= Cardinality(Linked(feed)[i]) /\ IsFiniteSet(g)
  BY <1>2, <1>4, FS_Subset
<1>6. Cardinality(g) \in Nat /\ Cardinality(Linked(feed)[i]) \in Nat
  BY <1>4, <1>5, FS_CardinalityType
<1> QED
  BY <1>2, <1>5, <1>6, NewsAssumption DEF Short, Full

\* One pair of articles.
LEMMA JoinSound ==
  ASSUME NEW feed, Feed(feed), NEW groups \in Sound(feed), NEW i \in DOMAIN feed, NEW j \in DOMAIN feed
  PROVE  /\ Join(groups, feed, i, j) \in Sound(feed)
         /\ \A a, b : Together(groups, a, b) => Together(Join(groups, feed, i, j), a, b)
         /\ Short(feed) /\ Similar(feed[i], feed[j]) => Together(Join(groups, feed, i, j), i, j)
<1> DEFINE g == GroupOf(groups, i)
           h == GroupOf(groups, j)
           joins == g # h /\ ~Full(g) /\ ~Full(h) /\ Similar(feed[i], feed[j])
           after == (groups \ {g, h}) \cup {g \cup h}
<1>1. Join(groups, feed, i, j) = IF joins THEN after ELSE groups
  BY DEF Join, Merged
<1>2. /\ g \in groups /\ i \in g /\ g \subseteq DOMAIN feed
      /\ h \in groups /\ j \in h /\ h \subseteq DOMAIN feed
  BY GroupOfSound
<1>3. g = h => Together(groups, i, j)
  BY <1>2 DEF Together
<1>4. Short(feed) => ~Full(g) /\ ~Full(h)
  BY <1>2, ShortNeverFull
<1> HIDE DEF g, h
<1>5. CASE ~joins
  BY <1>1, <1>3, <1>4, <1>5
<1>6. CASE joins
  <2>1. Inseparable(feed, g \cup h)
    <3>1. \A c \in Stories(feed) : i \in c <=> j \in c
      BY <1>6, SimilarSymmetric DEF Stories
    <3>2. Inseparable(feed, g) /\ Inseparable(feed, h)
      BY <1>2 DEF Sound
    <3> QED
      BY <1>2, <3>1, <3>2 DEF Inseparable
  <2>2. after \in SUBSET SUBSET DOMAIN feed
    BY <1>2 DEF Sound
  <2>3. ASSUME NEW a, NEW b, Together(groups, a, b) PROVE Together(after, a, b)
    BY <1>2, <2>3 DEF Together
  <2>4. \A a \in DOMAIN feed : \E f \in after : a \in f
    <3>1. \A a \in DOMAIN feed : Together(groups, a, a)
      BY DEF Sound, Together
    <3> QED
      BY <3>1, <2>3 DEF Together
  <2>5. \A f \in after : f # {} /\ Inseparable(feed, f)
    <3>1. \A f \in groups : f # {} /\ Inseparable(feed, f)
      BY DEF Sound
    <3>2. g \cup h # {}
      BY <1>2
    <3> QED
      BY <2>1, <3>1, <3>2
  <2>6. ASSUME NEW f1 \in after, NEW f2 \in after, NEW a \in f1, a \in f2 PROVE f1 = f2
    <3>1. \A u, v \in groups : \A b \in u : b \in v => u = v
      BY DEF Sound
    <3>2. CASE f1 = g \cup h
      <4>1. f2 # g \cup h => f2 \in groups /\ f2 # g /\ f2 # h
        OBVIOUS
      <4> QED
        BY <1>2, <2>6, <3>1, <3>2, <4>1
    <3>3. CASE f2 = g \cup h
      <4>1. f1 # g \cup h => f1 \in groups /\ f1 # g /\ f1 # h
        OBVIOUS
      <4> QED
        BY <1>2, <2>6, <3>1, <3>3, <4>1
    <3>4. CASE f1 # g \cup h /\ f2 # g \cup h
      BY <2>6, <3>1, <3>4
    <3> QED
      BY <3>2, <3>3, <3>4
  <2>7. after \in Sound(feed)
    BY <2>2, <2>4, <2>5, <2>6 DEF Sound
  <2>8. Together(after, i, j)
    BY <1>2 DEF Together
  <2> HIDE DEF after, joins
  <2> QED
    BY <1>1, <1>6, <2>3, <2>7, <2>8
<1> QED
  BY <1>5, <1>6

\* An article against those after it: what was together stays together.
LEMMA RowSound ==
  ASSUME NEW feed, Feed(feed), NEW groups \in Sound(feed), NEW i \in DOMAIN feed
  PROVE  /\ Row(groups, feed, i) \in Sound(feed)
         /\ \A a, b : Together(groups, a, b) => Together(Row(groups, feed, i), a, b)
         /\ Short(feed) => \A j \in DOMAIN feed :
              i < j /\ Similar(feed[i], feed[j]) => Together(Row(groups, feed, i), i, j)
<1> DEFINE n == Len(feed)
           F == [p \in (i .. n) \X Sound(feed) |-> IF p[1] = i THEN groups ELSE Join(p[2], feed, i, p[1])]
           Rows(h) == h = [j \in i .. n |-> IF j = i THEN groups ELSE Join(h[j - 1], feed, i, j)]
           upTo == CHOOSE h : Rows(h)
<1>1. n \in Nat /\ i \in Nat /\ i <= n /\ i \in 1 .. n /\ DOMAIN feed = 1 .. n
  BY DEF Feed
<1> HIDE DEF n
<1>2. \A j \in i .. n : j \in DOMAIN feed
  BY <1>1
<1>3. F \in [(i .. n) \X Sound(feed) -> Sound(feed)]
  <2>1. \A j \in i .. n : \A gs \in Sound(feed) : Join(gs, feed, i, j) \in Sound(feed)
    BY <1>2, JoinSound
  <2> QED
    BY <2>1
<1>4. \A j \in i .. n : \A gs \in Sound(feed) : j # i => F[<<j, gs>>] = Join(gs, feed, i, j)
  OBVIOUS
<1> HIDE DEF F
<1>5. PICK g : Recurs(g, i, n, Sound(feed), groups, F)
  BY <1>1, <1>3, Recursion
<1>6. Rows(g)
  <2>1. \A j \in i .. n : j # i => g[j - 1] \in Sound(feed)
    BY <1>1, <1>5 DEF Recurs
  <2>2. \A j \in i .. n : j # i => g[j] = Join(g[j - 1], feed, i, j)
    BY <1>4, <1>5, <2>1 DEF Recurs
  <2> QED
    BY <1>5, <2>2 DEF Recurs
<1>7. Rows(upTo)
  BY <1>6
<1>8. Row(groups, feed, i) = upTo[n]
  BY DEF Row, n
<1> HIDE DEF upTo
<1>9. upTo[i] = groups /\ \A j \in i .. n : j # i => upTo[j] = Join(upTo[j - 1], feed, i, j)
  BY <1>1, <1>7
<1> HIDE DEF Rows
<1> DEFINE Done(j) == /\ upTo[j] \in Sound(feed)
                      /\ \A a, b : Together(groups, a, b) => Together(upTo[j], a, b)
                      /\ Short(feed) => \A k \in i .. j :
                           i < k /\ Similar(feed[i], feed[k]) => Together(upTo[j], i, k)
           S == {j \in i .. n : Done(j)}
<1>10. i \in S
  BY <1>1, <1>9
<1>11. ASSUME NEW j \in i .. n, j \in S, j < n PROVE j + 1 \in S
  <2>1. j + 1 \in i .. n /\ j + 1 # i /\ (j + 1) - 1 = j /\ j + 1 \in DOMAIN feed
    BY <1>1, <1>11
  <2>2. upTo[j + 1] = Join(upTo[j], feed, i, j + 1)
    BY <1>9, <2>1
  <2>3. Done(j)
    BY <1>11
  <2>4. /\ upTo[j + 1] \in Sound(feed)
        /\ \A a, b : Together(upTo[j], a, b) => Together(upTo[j + 1], a, b)
        /\ Short(feed) /\ Similar(feed[i], feed[j + 1]) => Together(upTo[j + 1], i, j + 1)
    BY <2>1, <2>2, <2>3, JoinSound
  <2>5. \A k \in i .. j + 1 : k = j + 1 \/ k \in i .. j
    OBVIOUS
  <2>6. Done(j + 1)
    BY <2>3, <2>4, <2>5
  <2> HIDE DEF Done
  <2> QED
    BY <2>1, <2>6
<1>12. n \in S
  <2> HIDE DEF S
  <2>1. \A j \in i .. n : j \in S /\ j < n => j + 1 \in S
    BY <1>11
  <2>2. n \in i .. n
    BY <1>1
  <2> QED
    BY <1>1, <1>10, <2>1, <2>2, CountingUp
<1>13. Done(n)
  BY <1>12
<1> QED
  BY <1>1, <1>8, <1>13

\* The union-find gives a partition along stories, in which similar articles of
\* short stories are together.
LEMMA GroupingSound ==
  ASSUME NEW feed, Feed(feed)
  PROVE  /\ Grouping(feed) \in Sound(feed)
         /\ Short(feed) => \A i, j \in DOMAIN feed :
              Similar(feed[i], feed[j]) => Together(Grouping(feed), i, j)
<1> DEFINE n == Len(feed)
           alone == {{k} : k \in DOMAIN feed}
           F == [p \in (0 .. n) \X Sound(feed) |-> IF p[1] = 0 THEN alone ELSE Row(p[2], feed, p[1])]
           Rows(h) == h = [i \in 0 .. n |-> IF i = 0 THEN alone ELSE Row(h[i - 1], feed, i)]
           upTo == CHOOSE h : Rows(h)
<1>1. n \in Nat /\ DOMAIN feed = 1 .. n
  BY DEF Feed
<1> HIDE DEF n
<1>2. alone \in Sound(feed)
  <2>1. alone \in SUBSET SUBSET DOMAIN feed
    OBVIOUS
  <2>2. \A g \in alone : g # {} /\ Inseparable(feed, g)
    BY DEF Inseparable
  <2>3. \A g, h \in alone : \A i \in g : i \in h => g = h
    OBVIOUS
  <2>4. \A i \in DOMAIN feed : \E g \in alone : i \in g
    OBVIOUS
  <2> HIDE DEF alone
  <2> QED
    BY <2>1, <2>2, <2>3, <2>4 DEF Sound
<1>3. F \in [(0 .. n) \X Sound(feed) -> Sound(feed)]
  <2>1. \A i \in 0 .. n : \A gs \in Sound(feed) : i # 0 => Row(gs, feed, i) \in Sound(feed)
    BY <1>1, RowSound
  <2> QED
    BY <1>2, <2>1
<1>4. \A i \in 0 .. n : \A gs \in Sound(feed) : i # 0 => F[<<i, gs>>] = Row(gs, feed, i)
  OBVIOUS
<1> HIDE DEF F, alone
<1>5. \E g : Recurs(g, 0, n, Sound(feed), alone, F)
  <2> DEFINE zero == 0
  <2>1. zero \in Nat /\ zero <= n /\ F \in [(zero .. n) \X Sound(feed) -> Sound(feed)]
    BY <1>1, <1>3
  <2> HIDE DEF zero
  <2>2. \E g : Recurs(g, zero, n, Sound(feed), alone, F)
    BY <1>1, <1>2, <2>1, Recursion
  <2> QED
    BY <2>2 DEF zero
<1> PICK g : Recurs(g, 0, n, Sound(feed), alone, F)
  BY <1>5
<1>6. Rows(g)
  <2>1. \A i \in 0 .. n : i # 0 => g[i - 1] \in Sound(feed)
    BY <1>1 DEF Recurs
  <2>2. \A i \in 0 .. n : i # 0 => g[i] = Row(g[i - 1], feed, i)
    BY <1>4, <2>1 DEF Recurs
  <2> QED
    BY <2>2 DEF Recurs
<1>7. Rows(upTo)
  BY <1>6
<1>8. Grouping(feed) = upTo[n]
  BY DEF Grouping, n, alone
<1> HIDE DEF upTo
<1>9. upTo[0] = alone /\ \A i \in 0 .. n : i # 0 => upTo[i] = Row(upTo[i - 1], feed, i)
  BY <1>1, <1>7
<1> HIDE DEF Rows
<1> DEFINE Done(i) == /\ upTo[i] \in Sound(feed)
                      /\ Short(feed) => \A k \in 1 .. i : \A j \in DOMAIN feed :
                           k < j /\ Similar(feed[k], feed[j]) => Together(upTo[i], k, j)
           S == {i \in 0 .. n : Done(i)}
<1>10. 0 \in S
  BY <1>1, <1>2, <1>9
<1>11. ASSUME NEW i \in 0 .. n, i \in S, i < n PROVE i + 1 \in S
  <2>1. i + 1 \in 0 .. n /\ i + 1 # 0 /\ (i + 1) - 1 = i /\ i + 1 \in DOMAIN feed
    BY <1>1, <1>11
  <2>2. upTo[i + 1] = Row(upTo[i], feed, i + 1)
    BY <1>9, <2>1
  <2>3. Done(i)
    BY <1>11
  <2>4. /\ upTo[i + 1] \in Sound(feed)
        /\ \A a, b : Together(upTo[i], a, b) => Together(upTo[i + 1], a, b)
        /\ Short(feed) => \A j \in DOMAIN feed :
             i + 1 < j /\ Similar(feed[i + 1], feed[j]) => Together(upTo[i + 1], i + 1, j)
    BY <2>1, <2>2, <2>3, RowSound
  <2>5. \A k \in 1 .. i + 1 : k = i + 1 \/ k \in 1 .. i
    OBVIOUS
  <2>6. Done(i + 1)
    BY <2>3, <2>4, <2>5
  <2> HIDE DEF Done
  <2> QED
    BY <2>1, <2>6
<1>12. n \in S
  <2> DEFINE zero == 0
  <2>1. zero \in Nat /\ zero \in S /\ (\A i \in zero .. n : i \in S /\ i < n => i + 1 \in S) /\ n \in zero .. n
    BY <1>1, <1>10, <1>11
  <2> HIDE DEF S, zero
  <2> QED
    BY <1>1, <2>1, CountingUp
<1>13. Done(n)
  BY <1>12
<1>14. ASSUME Short(feed), NEW i \in DOMAIN feed, NEW j \in DOMAIN feed, Similar(feed[i], feed[j])
       PROVE  Together(upTo[n], i, j)
  <2>1. i \in 1 .. n /\ j \in 1 .. n
    BY <1>1
  <2>2. CASE i < j
    BY <1>13, <1>14, <2>1, <2>2
  <2>3. CASE j < i
    <3>1. Similar(feed[j], feed[i])
      BY <1>14, SimilarSymmetric
    <3>2. Together(upTo[n], j, i)
      BY <1>13, <1>14, <2>1, <2>3, <3>1
    <3> QED
      BY <3>2 DEF Together
  <2>4. CASE i = j
    BY <1>13, <2>1, <2>4 DEF Together, Sound
  <2> QED
    BY <2>1, <2>2, <2>3, <2>4
<1> QED
  BY <1>8, <1>13, <1>14

\* When no story reaches max_cluster, the groups are the stories.
LEMMA GroupsAreStories ==
  ASSUME NEW feed, Feed(feed), Short(feed), NEW i \in DOMAIN feed
  PROVE  GroupOf(Grouping(feed), i) = Linked(feed)[i]
<1> DEFINE groups == Grouping(feed)
           g == GroupOf(groups, i)
<1>1. groups \in Sound(feed) /\ \A j, k \in DOMAIN feed : Similar(feed[j], feed[k]) => Together(groups, j, k)
  BY GroupingSound
<1> HIDE DEF groups
<1>2. g \in groups /\ i \in g /\ g \subseteq DOMAIN feed
  BY <1>1, GroupOfSound
<1> HIDE DEF g
<1>3. g \subseteq Linked(feed)[i]
  BY <1>1, <1>2, GroupInStory
<1>4. g \in Stories(feed)
  <2>1. ASSUME NEW j \in g, NEW k \in DOMAIN feed, Similar(feed[j], feed[k]) PROVE k \in g
    <3>1. PICK h \in groups : j \in h /\ k \in h
      BY <1>1, <1>2, <2>1 DEF Together
    <3>2. h = g
      BY <1>1, <1>2, <3>1 DEF Sound
    <3> QED
      BY <3>1, <3>2
  <2> QED
    BY <1>2, <2>1 DEF Stories
<1>5. Linked(feed)[i] \subseteq g
  BY <1>2, <1>4 DEF Linked
<1> QED
  BY <1>3, <1>5 DEF g, groups

-----------------------------------------------------------------------------
(***************************************************************************)
(* Events.                                                                 *)
(***************************************************************************)

\* What a function gives for finitely many arguments is finite.
LEMMA FiniteImage ==
  ASSUME NEW S, IsFiniteSet(S), NEW f
  PROVE  IsFiniteSet({f[x] : x \in S})
<1> DEFINE T == {f[x] : x \in S}
           g == [x \in S |-> f[x]]
<1>1. g \in Surjection(S, T)
  BY DEF Surjection
<1> HIDE DEF T, g
<1>2. IsFiniteSet(T)
  BY <1>1, FS_Surjection
<1> QED
  BY <1>2 DEF T

\* What a list of articles is for the lemmas above.
LEMMA FeedOfArticles ==
  ASSUME NEW feed \in Seq(Articles)
  PROVE  /\ Feed(feed)
         /\ IsFiniteSet(DOMAIN feed)
         /\ DOMAIN feed \in SUBSET Nat
         /\ \A i \in DOMAIN feed : feed[i] \in Articles
<1>1. Len(feed) \in Nat /\ DOMAIN feed = 1 .. Len(feed)
  OBVIOUS
<1>2. IsFiniteSet(1 .. Len(feed))
  BY <1>1, FS_Interval
<1> QED
  BY <1>1, <1>2 DEF Feed

\* What the later stages rely on of an event.
WellMade(e) ==
  /\ IsFiniteSet(e.sources) /\ e.sources # {} /\ e.sources \subseteq DOMAIN ListedTiers
  /\ IsFiniteSet(e.ids)
  /\ e.confidence \in Nat

\* An event's sources and ids are those of its members.
LEMMA EventOfWellMade ==
  ASSUME NEW feed \in Seq(Articles), NEW members \in SUBSET DOMAIN feed, members # {},
         NEW e, e = EventOf(feed, members)
  PROVE  /\ WellMade(e)
         /\ e.sources = {feed[i].source : i \in members}
         /\ e.ids = {feed[i].id : i \in members}
<1> DEFINE names == {feed[i].source : i \in members}
           ids == {feed[i].id : i \in members}
<1>1. IsFiniteSet(members)
  BY FeedOfArticles, FS_Subset
<1>2. IsFiniteSet(names)
  <2> DEFINE f == [i \in DOMAIN feed |-> feed[i].source]
  <2>1. names = {f[i] : i \in members}
    OBVIOUS
  <2> HIDE DEF f, names
  <2> QED
    BY <1>1, <2>1, FiniteImage
<1>3. IsFiniteSet(ids)
  <2> DEFINE f == [i \in DOMAIN feed |-> feed[i].id]
  <2>1. ids = {f[i] : i \in members}
    OBVIOUS
  <2> HIDE DEF f, ids
  <2> QED
    BY <1>1, <2>1, FiniteImage
<1>4. names # {} /\ names \subseteq DOMAIN ListedTiers
  <2>1. \A i \in members : feed[i].source \in DOMAIN ListedTiers
    BY FeedOfArticles, NewsAssumption
  <2> QED
    BY <2>1
<1> DEFINE m == Cardinality(members)
           c == Cardinality(names)
           sure == Smaller(95, 30 + 8 * Smaller(m, 5) + 12 * Smaller(c, 4))
<1>5. m \in Nat /\ c \in Nat
  BY <1>1, <1>2, FS_CardinalityType
<1>6. e.sources = names /\ e.ids = ids /\ e.confidence = sure
  BY DEF EventOf
<1> HIDE DEF m, c, names, ids
<1>7. sure \in Nat
  BY <1>5 DEF Smaller
<1> HIDE DEF sure
<1>8. WellMade(e)
  BY <1>2, <1>3, <1>4, <1>6, <1>7 DEF WellMade
<1> QED
  BY <1>6, <1>8 DEF names, ids

\* The events are those of the groups.
LEMMA DetectedEvents ==
  ASSUME NEW feed \in Seq(Articles)
  PROVE  /\ SeqSet(DetectEvents(feed)) = {EventOf(feed, g) : g \in Grouping(feed)}
         /\ \E n \in Nat : DOMAIN DetectEvents(feed) = 1 .. n
         /\ \A e \in SeqSet(DetectEvents(feed)) : WellMade(e)
<1> DEFINE groups == Grouping(feed)
           heads == {i \in DOMAIN feed : \A j \in GroupOf(groups, i) : i <= j}
           found == [i \in heads |-> EventOf(feed, GroupOf(groups, i))]
           key == [i \in heads |-> found[i].confidence]
<1>1. Feed(feed) /\ IsFiniteSet(DOMAIN feed) /\ DOMAIN feed \in SUBSET Nat
  BY FeedOfArticles
<1>2. groups \in Sound(feed)
  BY <1>1, GroupingSound
<1>3. DetectEvents(feed) = Arranged(found, key)
  BY DEF DetectEvents
<1> HIDE DEF groups
<1>4. \A g \in groups : WellMade(EventOf(feed, g))
  <2>1. \A g \in groups : g \in SUBSET DOMAIN feed /\ g # {}
    BY <1>2 DEF Sound
  <2> QED
    BY <2>1, EventOfWellMade
<1>5. \A i \in heads : GroupOf(groups, i) \in groups
  BY <1>2, GroupOfSound
<1>6. ASSUME NEW g \in groups PROVE \E i \in heads : GroupOf(groups, i) = g
  <2>1. g \in SUBSET Nat /\ g # {} /\ g \subseteq DOMAIN feed
    BY <1>1, <1>2 DEF Sound
  <2>2. PICK i \in g : \A j \in g : i <= j
    BY <2>1, LeastNat
  <2>3. i \in DOMAIN feed /\ GroupOf(groups, i) = g
    BY <1>2, <2>1, GroupOfSound
  <2> QED
    BY <2>2, <2>3
<1>7. heads \in SUBSET DOMAIN feed /\ DOMAIN found = heads
  OBVIOUS
<1>8. \A i \in heads : found[i] = EventOf(feed, GroupOf(groups, i)) /\ key[i] = found[i].confidence
  OBVIOUS
<1> HIDE DEF heads, found, key
<1>9. IsFiniteSet(heads) /\ heads \in SUBSET Nat
  BY <1>1, <1>7, FS_Subset
<1>10. \A i \in heads : key[i] \in Int
  BY <1>4, <1>5, <1>8 DEF WellMade
<1>11. /\ DOMAIN Arranged(found, key) = 1 .. Cardinality(heads)
       /\ SeqSet(Arranged(found, key)) = {found[i] : i \in heads}
  BY <1>7, <1>9, <1>10, ArrangedRange
<1>12. {found[i] : i \in heads} = {EventOf(feed, g) : g \in groups}
  BY <1>5, <1>6, <1>8
<1>13. Cardinality(heads) \in Nat
  BY <1>9, FS_CardinalityType
<1>14. \A e \in {EventOf(feed, g) : g \in groups} : WellMade(e)
  BY <1>4
<1> QED
  BY <1>3, <1>11, <1>12, <1>13, <1>14 DEF groups

-----------------------------------------------------------------------------
(***************************************************************************)
(* Narratives.                                                             *)
(***************************************************************************)
LEMMA NearestAtLeast ==
  ASSUME NEW bound \in Nat, NEW d \in Nat, d > 0, NEW n \in Nat, n >= bound * d
  PROVE  Nearest(n, d) \in Nat /\ Nearest(n, d) >= bound
<1> DEFINE q == n \div d
           r == n % d
<1>1. q \in Nat /\ r \in Nat /\ r < d /\ n = q * d + r
  OBVIOUS
<1>2. Nearest(n, d) = IF 2 * r > d \/ (2 * r = d /\ q % 2 = 1) THEN q + 1 ELSE q
  BY DEF Nearest
<1> HIDE DEF q, r
<1>3. q >= bound
  <2>1. SUFFICES ASSUME q + 1 <= bound PROVE FALSE
    BY <1>1
  <2>2. (q + 1) * d <= bound * d
    BY <1>1, <2>1
  <2>3. (q + 1) * d = q * d + d
    BY <1>1
  <2> QED
    BY <1>1, <2>2, <2>3
<1> QED
  BY <1>1, <1>2, <1>3

\* With an event and a source the formula gives more than the threshold asks.
LEMMA StrengthAboveThreshold ==
  ASSUME NEW n \in Nat, n >= 1, NEW sources \in Nat, sources >= 1, NEW ids \in Nat, NEW confidence \in Nat
  PROVE  Strength(n, sources, ids, confidence) \in Nat /\ Strength(n, sources, ids, confidence) > 300
<1> DEFINE a == Smaller(n, 3)
           b == Smaller(sources, 3)
           c == Smaller(ids, 15)
           bound == 333
           d == 15 * n
           x == 3000 * n + 1000 * n * a + 1000 * n * b + 30 * confidence + 200 * n * c
<1>1. a \in Nat /\ a >= 1 /\ b \in Nat /\ b >= 1 /\ c \in Nat
  BY DEF Smaller
<1>2. Strength(n, sources, ids, confidence) = Nearest(x, d)
  BY DEF Strength
<1> HIDE DEF a, b, c
<1>3. \A p, q \in Nat : q >= 1 => p * q \in Nat /\ p * q >= p
  OBVIOUS
<1>4. 1000 * n * a \in Nat /\ 1000 * n * a >= 1000 * n
  <2>1. 1000 * n \in Nat
    OBVIOUS
  <2> QED
    BY <1>1, <1>3, <2>1
<1>5. 1000 * n * b \in Nat /\ 1000 * n * b >= 1000 * n
  <2>1. 1000 * n \in Nat
    OBVIOUS
  <2> QED
    BY <1>1, <1>3, <2>1
<1>6. 200 * n * c \in Nat
  <2>1. 200 * n \in Nat
    OBVIOUS
  <2> QED
    BY <1>1, <2>1
<1>7. x \in Nat /\ x >= 5000 * n
  BY <1>4, <1>5, <1>6
<1> HIDE DEF x
<1>8. d \in Nat /\ d > 0 /\ bound \in Nat /\ x >= bound * d
  BY <1>7
<1> HIDE DEF d, bound
<1>9. Nearest(x, d) \in Nat /\ Nearest(x, d) >= bound
  BY <1>7, <1>8, NearestAtLeast
<1> QED
  BY <1>2, <1>9 DEF bound

\* So does every narrative of at least one event.
LEMMA NarrativeStrong ==
  ASSUME NEW n \in Nat, n >= 1, NEW matched, DOMAIN matched = 1 .. n, Len(matched) = n,
         \A k \in 1 .. n : WellMade(matched[k]), NEW name
  PROVE  NarrativeOf(name, matched).strength \in Nat /\ NarrativeOf(name, matched).strength > 300
<1> DEFINE sources == UNION {matched[i].sources : i \in DOMAIN matched}
           ids == UNION {matched[i].ids : i \in DOMAIN matched}
           sure == [i \in DOMAIN matched |-> matched[i].confidence]
<1>1. IsFiniteSet(1 .. n)
  BY FS_Interval
<1>2. IsFiniteSet(sources)
  <2> DEFINE f == [i \in DOMAIN matched |-> matched[i].sources]
             T == {f[i] : i \in 1 .. n}
  <2>1. sources = UNION T
    OBVIOUS
  <2>2. \A t \in T : IsFiniteSet(t)
    BY DEF WellMade
  <2> HIDE DEF f, sources
  <2>3. IsFiniteSet(T)
    BY <1>1, FiniteImage
  <2> HIDE DEF T
  <2> QED
    BY <2>1, <2>2, <2>3, FS_UNION
<1>3. IsFiniteSet(ids)
  <2> DEFINE f == [i \in DOMAIN matched |-> matched[i].ids]
             T == {f[i] : i \in 1 .. n}
  <2>1. ids = UNION T
    OBVIOUS
  <2>2. \A t \in T : IsFiniteSet(t)
    BY DEF WellMade
  <2> HIDE DEF f, ids
  <2>3. IsFiniteSet(T)
    BY <1>1, FiniteImage
  <2> HIDE DEF T
  <2> QED
    BY <2>1, <2>2, <2>3, FS_UNION
<1>4. sources # {}
  <2>1. 1 \in DOMAIN matched /\ matched[1].sources # {}
    BY DEF WellMade
  <2> QED
    BY <2>1
<1>5. Total(sure) \in Nat
  <2>1. DOMAIN sure = 1 .. n /\ Len(sure) = n /\ \A i \in 1 .. n : sure[i] \in Nat
    <3>1. \A i \in 1 .. n : sure[i] \in Nat
      BY DEF WellMade
    <3>2. DOMAIN sure = 1 .. n
      OBVIOUS
    <3>3. Len(sure) = n
      BY LenProperties
    <3> QED
      BY <3>1, <3>2, <3>3
  <2> HIDE DEF sure
  <2> QED
    BY <2>1, TotalType
<1>6. NarrativeOf(name, matched).strength
        = Strength(n, Cardinality(sources), Cardinality(ids), Total(sure))
  BY DEF NarrativeOf
<1> HIDE DEF sources, ids, sure
<1>7. /\ Cardinality(sources) \in Nat /\ Cardinality(sources) >= 1
      /\ Cardinality(ids) \in Nat
  <2>1. Cardinality(sources) \in Nat /\ Cardinality(ids) \in Nat
    BY <1>2, <1>3, FS_CardinalityType
  <2>2. Cardinality(sources) # 0
    BY <1>2, <1>4, FS_EmptySet
  <2> QED
    BY <2>1, <2>2
<1> QED
  BY <1>5, <1>6, <1>7, StrengthAboveThreshold

\* A list of narratives, all of them above the threshold.
Strong(found) ==
  /\ \E n \in Nat : DOMAIN found = 1 .. n /\ found = [k \in 1 .. n |-> found[k]]
  /\ \A k \in DOMAIN found : found[k].strength > 300

\* All narratives that are found are strong.
LEMMA ClusteredStrong ==
  ASSUME NEW detected, NEW m \in Nat, DOMAIN detected = 1 .. m,
         \A i \in 1 .. m : WellMade(detected[i])
  PROVE  Strong(ClusterEvents(detected))
<1> DEFINE M(t) == {i \in DOMAIN detected : Templates[t] \in detected[i].themes}
           matched(t) == InOrder([i \in M(t) |-> detected[i]])
           named == {u \in DOMAIN Templates : M(u) # {}}
           found == [t \in named |-> NarrativeOf(Templates[t], matched(t))]
           key == [t \in DOMAIN found |-> found[t].strength]
<1>1. ClusterEvents(detected) = Arranged(found, key)
  BY DEF ClusterEvents
<1>2. ASSUME NEW t \in named PROVE found[t].strength \in Nat /\ found[t].strength > 300
  <2> DEFINE I == M(t)
             f == [i \in I |-> detected[i]]
             zero == [i \in DOMAIN f |-> 0]
             n == Cardinality(I)
  <2>1. I # {} /\ I \subseteq 1 .. m
    BY <1>2
  <2>2. IsFiniteSet(1 .. m)
    BY FS_Interval
  <2>3. found[t] = NarrativeOf(Templates[t], Arranged(f, zero))
    BY <1>2 DEF InOrder
  <2> HIDE DEF found, I, n
  <2>4. DOMAIN f = I /\ (\A i \in I : f[i] = detected[i]) /\ \A i \in I : zero[i] \in Int
    OBVIOUS
  <2> HIDE DEF f, zero
  <2>5. IsFiniteSet(I) /\ I \in SUBSET Nat
    <3>1. I \in SUBSET (1 .. m) /\ I \in SUBSET Nat
      BY <2>1
    <3>2. IsFiniteSet(I)
      BY <2>2, <3>1, FS_Subset
    <3> QED
      BY <3>1, <3>2
  <2>6. n \in Nat /\ n >= 1
    <3>1. n \in Nat
      BY <2>5, FS_CardinalityType DEF n
    <3>2. n # 0
      BY <2>1, <2>5, FS_EmptySet DEF n
    <3> QED
      BY <3>1, <3>2
  <2>7. /\ DOMAIN Arranged(f, zero) = 1 .. n
        /\ Len(Arranged(f, zero)) = n
        /\ \A k \in 1 .. n : \E j \in I : Arranged(f, zero)[k] = f[j]
    BY <2>4, <2>5, ArrangedElements DEF n
  <2>8. \A k \in 1 .. n : WellMade(Arranged(f, zero)[k])
    <3>1. \A j \in I : WellMade(f[j])
      BY <2>1, <2>4
    <3> QED
      BY <2>7, <3>1
  <2> QED
    BY <2>3, <2>6, <2>7, <2>8, NarrativeStrong
<1>3. DOMAIN found = named /\ \A t \in named : key[t] = found[t].strength
  OBVIOUS
<1>4. named \in SUBSET DOMAIN Templates
  OBVIOUS
<1> HIDE DEF found, key, named
<1>5. DOMAIN Templates \in SUBSET Nat /\ IsFiniteSet(DOMAIN Templates)
  <2>1. DOMAIN Templates = 1 .. Len(Templates) /\ Len(Templates) \in Nat
    BY NewsAssumption
  <2> QED
    BY <2>1, FS_Interval
<1>6. named \in SUBSET Nat /\ IsFiniteSet(named)
  BY <1>4, <1>5, FS_Subset
<1>7. \A t \in named : key[t] \in Int
  BY <1>2, <1>3
<1>8. /\ Cardinality(named) \in Nat
      /\ DOMAIN Arranged(found, key) = 1 .. Cardinality(named)
      /\ \A k \in 1 .. Cardinality(named) : \E j \in named : Arranged(found, key)[k] = found[j]
  BY <1>3, <1>6, <1>7, ArrangedElements
<1>9. Arranged(found, key) = [k \in DOMAIN Arranged(found, key) |-> Arranged(found, key)[k]]
  BY DEF Arranged
<1>10. \A k \in DOMAIN Arranged(found, key) : Arranged(found, key)[k].strength > 300
  BY <1>2, <1>8
<1> QED
  BY <1>1, <1>8, <1>9, <1>10 DEF Strong

\* The filter for active narratives drops none that is strong.
LEMMA StrongAreActive ==
  ASSUME NEW found, Strong(found)
  PROVE  ActiveNarratives(found) = found
<1>1. PICK n \in Nat : DOMAIN found = 1 .. n /\ found = [k \in 1 .. n |-> found[k]]
  BY DEF Strong
<1>2. {j \in DOMAIN found : found[j].strength > 300} = 1 .. n
  BY <1>1 DEF Strong
<1>3. ActiveNarratives(found) = InOrder(found)
  BY <1>1, <1>2 DEF ActiveNarratives
<1> QED
  BY <1>1, <1>3, InOrderOfAll

-----------------------------------------------------------------------------
(***************************************************************************)
(* Verification.                                                           *)
(***************************************************************************)
LEMMA TierType ==
  ASSUME NEW name \in DOMAIN ListedTiers
  PROVE  Tier(name) \in Nat
<1> DEFINE tiers == ListedTiers[name] \cup {5}
<1>1. tiers \in SUBSET Nat /\ tiers # {}
  BY NewsAssumption
<1>2. \E t \in tiers : \A u \in tiers : t <= u
  BY <1>1, LeastNat
<1>3. (CHOOSE t \in tiers : \A u \in ListedTiers[name] : t <= u) \in Nat
  BY <1>1, <1>2
<1>4. ExactTier[name] \in Nat
  BY NewsAssumption
<1> QED
  BY <1>3, <1>4 DEF Tier

\* A confirmed event has a name that is authoritative, and another.
LEMMA ConfirmedNames ==
  ASSUME NEW e, WellMade(e), Confirms(e)
  PROVE  \E name, other \in e.sources : name # other /\ Tier(name) <= 2
<1>1. TiersOf(e) \in SUBSET Nat /\ TiersOf(e) # {}
  BY TierType DEF WellMade, TiersOf
<1>2. \E t \in TiersOf(e) : \A u \in TiersOf(e) : t <= u
  BY <1>1, LeastNat
<1>3. BestTier(e) \in TiersOf(e)
  BY <1>2 DEF BestTier
<1>4. PICK name \in e.sources : Tier(name) = BestTier(e)
  BY <1>3 DEF TiersOf
<1>5. e.sources # {name}
  <2>1. Cardinality({name}) = 1
    BY FS_Singleton
  <2>2. Cardinality(e.sources) >= 2
    BY DEF Confirms
  <2> QED
    BY <2>1, <2>2
<1> QED
  BY <1>4, <1>5 DEF Confirms

-----------------------------------------------------------------------------
(***************************************************************************)
(* Copies.                                                                 *)
(***************************************************************************)

\* As many numbers, further on.
Shifted(I, n) == {n + i : i \in I}

\* Shifting numbers keeps how many there are.
LEMMA ShiftedSet ==
  ASSUME NEW S \in SUBSET Nat, IsFiniteSet(S), NEW n \in Nat
  PROVE  /\ IsFiniteSet({n + i : i \in S})
         /\ Cardinality({n + i : i \in S}) = Cardinality(S)
<1> DEFINE T == {n + i : i \in S}
           f == [i \in S |-> n + i]
<1>1. f \in Bijection(S, T)
  <2>1. f \in [S -> T] /\ \A i \in S : f[i] = n + i
    OBVIOUS
  <2>2. \A t \in T : \E i \in S : t = n + i
    OBVIOUS
  <2> HIDE DEF f, T
  <2>3. \A i, j \in S : f[i] = f[j] => i = j
    BY <2>1
  <2>4. f \in Injection(S, T)
    BY <2>1, <2>3 DEF Injection, IsInjective
  <2>5. f \in Surjection(S, T)
    BY <2>1, <2>2 DEF Surjection
  <2> QED
    BY <2>4, <2>5 DEF Bijection
<1>2. ExistsBijection(S, T)
  BY <1>1 DEF ExistsBijection
<1> HIDE DEF T
<1>3. IsFiniteSet(T) /\ Cardinality(T) = Cardinality(S)
  BY <1>2, FS_Bijection
<1> QED
  BY <1>3 DEF T

\* Sorting does not depend on where the numbers begin.
LEMMA ArrangedShifted ==
  ASSUME NEW I \in SUBSET Nat, IsFiniteSet(I), NEW n \in Nat,
         NEW f, DOMAIN f = I, NEW key, \A i \in I : key[i] \in Int,
         NEW g, DOMAIN g = Shifted(I, n), NEW keyOfG,
         \A i \in I : g[n + i] = f[i] /\ keyOfG[n + i] = key[i]
  PROVE  Arranged(g, keyOfG) = Arranged(f, key)
<1> USE DEF Shifted
<1> DEFINE J == {n + i : i \in I}
           At(k) == CHOOSE j \in I : RankIn(I, key, j) = k
           AtOfG(k) == CHOOSE j \in J : RankIn(J, keyOfG, j) = k
<1>1. IsFiniteSet(J) /\ Cardinality(J) = Cardinality(I) /\ J \in SUBSET Nat
  <2>1. J \in SUBSET Nat
    OBVIOUS
  <2>2. IsFiniteSet(J) /\ Cardinality(J) = Cardinality(I)
    BY ShiftedSet
  <2> QED
    BY <2>1, <2>2
<1>2. \A j \in J : keyOfG[j] \in Int
  OBVIOUS
<1>3. ASSUME NEW j \in I PROVE RankIn(J, keyOfG, n + j) = RankIn(I, key, j)
  <2> DEFINE Before == {i \in I : Precedes(key, i, j)}
  <2>1. Before \in SUBSET I
    OBVIOUS
  <2>2. {k \in J : Precedes(keyOfG, k, n + j)} = {n + i : i \in Before}
    <3>1. ASSUME NEW i \in I PROVE Precedes(keyOfG, n + i, n + j) <=> Precedes(key, i, j)
      <4>1. keyOfG[n + i] = key[i] /\ keyOfG[n + j] = key[j]
        OBVIOUS
      <4>2. n + i <= n + j <=> i <= j
        <5>1. n \in Nat /\ i \in Nat /\ j \in Nat
          OBVIOUS
        <5> QED
          BY ONLY <5>1
      <4> QED
        BY <4>1, <4>2 DEF Precedes
    <3> QED
      BY <3>1
  <2> HIDE DEF Before
  <2>3. IsFiniteSet(Before) /\ Before \in SUBSET Nat
    BY <2>1, FS_Subset
  <2>4. Cardinality({n + i : i \in Before}) = Cardinality(Before)
    BY <2>3, ShiftedSet
  <2> QED
    BY <2>2, <2>4 DEF RankIn, Before
<1>4. /\ Cardinality(I) \in Nat
      /\ \A j \in I : RankIn(I, key, j) \in 1 .. Cardinality(I)
      /\ \A i, j \in I : RankIn(I, key, i) = RankIn(I, key, j) => i = j
      /\ \A k \in 1 .. Cardinality(I) : \E j \in I : RankIn(I, key, j) = k
  BY Ranks
<1>5. \A i, j \in J : RankIn(J, keyOfG, i) = RankIn(J, keyOfG, j) => i = j
  <2> HIDE DEF J
  <2> QED
    BY <1>1, <1>2, Ranks
<1>6. ASSUME NEW k \in 1 .. Cardinality(I) PROVE g[AtOfG(k)] = f[At(k)]
  <2>1. At(k) \in I /\ RankIn(I, key, At(k)) = k
    BY <1>4
  <2>2. n + At(k) \in J /\ RankIn(J, keyOfG, n + At(k)) = k
    BY <1>3, <2>1
  <2>3. AtOfG(k) \in J /\ RankIn(J, keyOfG, AtOfG(k)) = k
    BY <2>2
  <2> HIDE DEF At, AtOfG, J
  <2>4. AtOfG(k) = n + At(k)
    BY <1>5, <2>2, <2>3
  <2> QED
    BY <2>1, <2>4
<1>7. /\ Arranged(f, key) = [k \in 1 .. Cardinality(I) |-> f[At(k)]]
      /\ Arranged(g, keyOfG) = [k \in 1 .. Cardinality(J) |-> g[AtOfG(k)]]
  BY DEF Arranged, RankIn
<1> HIDE DEF At, AtOfG, J
<1> QED
  BY <1>1, <1>6, <1>7

\* The articles of a feed that count: no newer copy, no earlier one as new.
Firsts(feed, key) ==
  {i \in DOMAIN feed : \A j \in DOMAIN feed : j # i /\ Copies(feed[j], feed[i]) => ~Precedes(key, j, i)}

\* Of older copies before the feed none counts, and the rest is sorted as before.
LEMMA UniqueOfSwollen ==
  ASSUME NEW feed \in Seq(Articles)
  PROVE  Unique(OlderCopies(feed) \o feed) = Unique(feed)
<1> DEFINE n == Len(feed)
           older == OlderCopies(feed)
           both == older \o feed
           key == [i \in DOMAIN feed |-> feed[i].at]
           keyOfBoth == [i \in DOMAIN both |-> both[i].at]
<1>1. n \in Nat /\ DOMAIN feed = 1 .. n
  OBVIOUS
<1>2. /\ DOMAIN older = 1 .. n
      /\ \A i \in 1 .. n : /\ older[i].at = feed[i].at - 1
                           /\ older[i].url = feed[i].url
                           /\ older[i].title = feed[i].title
  <2>1. older = [i \in 1 .. n |-> [feed[i] EXCEPT !.at = @ - 1, !.topics = {}]]
    BY <1>1 DEF OlderCopies
  <2>2. \A i \in 1 .. n : DOMAIN feed[i] = ArticleFields
    BY <1>1, FeedOfArticles, NewsAssumption
  <2> QED
    BY ZenonT(60), <2>1, <2>2 DEF ArticleFields
<1>3. older \in Seq({older[i] : i \in 1 .. n}) /\ Len(older) = n
  <2>1. older = [i \in 1 .. n |-> older[i]]
    BY <1>1 DEF OlderCopies
  <2> HIDE DEF older, n
  <2>2. \A i \in 1 .. n : older[i] \in {older[k] : k \in 1 .. n}
    OBVIOUS
  <2>3. older \in Seq({older[k] : k \in 1 .. n})
    BY <1>1, <2>1, <2>2
  <2>4. Len(older) = n
    BY <1>1, <1>2, <2>3, LenProperties
  <2> QED
    BY <2>3, <2>4
<1> HIDE DEF older
<1>4. /\ DOMAIN both = 1 .. (n + n)
      /\ \A i \in 1 .. n : both[i] = older[i] /\ both[n + i] = feed[i]
  <2> DEFINE T == {older[i] : i \in 1 .. n} \cup Articles
  <2>1. older \in Seq(T) /\ feed \in Seq(T)
    BY <1>1, <1>3, FeedOfArticles
  <2>2. Len(feed) = n
    OBVIOUS
  <2> HIDE DEF T, n
  <2> DEFINE p == Len(older)
             q == Len(feed)
  <2>a. /\ both \in Seq(T) /\ Len(both) = p + q
        /\ \A i \in 1 .. p + q : both[i] = IF i <= p THEN older[i] ELSE feed[i - p]
    BY <2>1, ConcatProperties
  <2>b. p = n /\ q = n
    BY <1>3, <2>2
  <2> HIDE DEF p, q
  <2>3. /\ both \in Seq(T) /\ Len(both) = n + n
        /\ \A i \in 1 .. n + n : both[i] = IF i <= n THEN older[i] ELSE feed[i - n]
    BY <2>a, <2>b
  <2>4. DOMAIN both = 1 .. (n + n)
    BY <1>1, <2>3
  <2>5. \A i \in 1 .. n : /\ i \in 1 .. n + n /\ n + i \in 1 .. n + n /\ (n + i) - n = i
                          /\ ~(n + i <= n)
    BY <1>1
  <2> HIDE DEF both
  <2> QED
    BY <2>3, <2>4, <2>5
<1> HIDE DEF n, both
<1>5. \A i \in 1 .. n : feed[i].at \in Int
  BY <1>1, FeedOfArticles, NewsAssumption
<1>6. \A i \in 1 .. n : /\ key[i] = feed[i].at
                        /\ keyOfBoth[i] = feed[i].at - 1
                        /\ keyOfBoth[n + i] = feed[i].at
  <2>1. \A i \in 1 .. n : i \in DOMAIN both /\ n + i \in DOMAIN both
    BY <1>1, <1>4
  <2>2. \A i \in 1 .. n : both[i].at = feed[i].at - 1 /\ both[n + i].at = feed[i].at
    BY <1>2, <1>4
  <2> QED
    BY <1>1, <2>1, <2>2
<1> HIDE DEF key, keyOfBoth
<1>7. \A i, j \in 1 .. n : Copies(feed[j], feed[i])
        <=> Copies(both[j], both[n + i]) /\ Copies(both[n + j], both[n + i])
  BY <1>2, <1>4 DEF Copies
<1> DEFINE I == Firsts(feed, key)
           J == Firsts(both, keyOfBoth)
<1>8. ASSUME NEW k \in J PROVE \E i \in I : k = n + i
  <2>1. k \in 1 .. (n + n)
    BY <1>4 DEF Firsts
  <2>2. k \notin 1 .. n
    <3>1. SUFFICES ASSUME k \in 1 .. n PROVE FALSE
      OBVIOUS
    <3>2. n + k \in DOMAIN both /\ n + k # k
      BY <1>1, <1>4, <3>1
    <3>3. Copies(both[n + k], both[k])
      BY <1>2, <1>4, <3>1 DEF Copies
    <3>4. Precedes(keyOfBoth, n + k, k)
      BY <1>5, <1>6, <3>1 DEF Precedes
    <3> QED
      BY <3>2, <3>3, <3>4 DEF Firsts
  <2>3. PICK i \in 1 .. n : k = n + i
    <3>1. k - n \in 1 .. n /\ k = n + (k - n)
      BY <1>1, <2>1, <2>2
    <3> QED
      BY <3>1
  <2>4. ASSUME NEW j \in 1 .. n, j # i, Copies(feed[j], feed[i]) PROVE ~Precedes(key, j, i)
    <3>1. n + j \in DOMAIN both /\ n + j # k /\ Copies(both[n + j], both[k])
      BY <1>1, <1>4, <1>7, <2>3, <2>4
    <3>2. ~Precedes(keyOfBoth, n + j, n + i)
      BY <2>3, <3>1 DEF Firsts
    <3> QED
      BY <1>1, <1>5, <1>6, <3>2 DEF Precedes
  <2> QED
    BY <1>1, <2>3, <2>4 DEF Firsts
<1>9. ASSUME NEW i \in I PROVE n + i \in J
  <2>1. i \in 1 .. n /\ n + i \in DOMAIN both
    BY <1>1, <1>4 DEF Firsts
  <2>2. \A j \in 1 .. n : j # i /\ Copies(feed[j], feed[i]) => ~Precedes(key, j, i)
    BY <1>1 DEF Firsts
  <2>3. ASSUME NEW k \in DOMAIN both, k # n + i, Copies(both[k], both[n + i])
        PROVE  ~Precedes(keyOfBoth, k, n + i)
    <3>1. CASE k \in 1 .. n
      <4>1. Copies(feed[k], feed[i])
        BY <1>2, <1>4, <2>1, <2>3, <3>1 DEF Copies
      <4>2. k = i \/ ~Precedes(key, k, i)
        BY <2>2, <3>1, <4>1
      <4> QED
        BY SMTT(20), <1>1, <1>5, <1>6, <2>1, <3>1, <4>2 DEF Precedes
    <3>2. CASE k \notin 1 .. n
      <4>1. PICK j \in 1 .. n : k = n + j
        <5>1. k - n \in 1 .. n /\ k = n + (k - n)
          BY <1>1, <1>4, <3>2
        <5> QED
          BY <5>1
      <4>2. j # i /\ Copies(feed[j], feed[i])
        BY <1>4, <2>1, <2>3, <4>1
      <4>3. ~Precedes(key, j, i)
        BY <2>2, <4>2
      <4> QED
        BY <1>1, <1>5, <1>6, <2>1, <4>1, <4>3 DEF Precedes
    <3> QED
      BY <3>1, <3>2
  <2> QED
    BY <2>1, <2>3 DEF Firsts
<1> DEFINE f == [i \in I |-> feed[i]]
           g == [j \in J |-> both[j]]
<1>10. Unique(feed) = Arranged(f, key) /\ Unique(both) = Arranged(g, keyOfBoth)
  BY DEF Unique, OncePerPage, Firsts, key, keyOfBoth
<1>11. J = {n + i : i \in I}
  BY <1>8, <1>9
<1>12. I \in SUBSET (1 .. n)
  BY <1>1 DEF Firsts
<1> HIDE DEF I, J
<1>13. I \in SUBSET Nat /\ IsFiniteSet(I)
  <2>1. IsFiniteSet(1 .. n)
    BY <1>1, FS_Interval
  <2>2. IsFiniteSet(I)
    BY <1>12, <2>1, FS_Subset
  <2> QED
    BY <1>12, <2>2
<1>14. \A i \in I : g[n + i] = f[i] /\ keyOfBoth[n + i] = key[i]
  BY <1>4, <1>5, <1>6, <1>11, <1>12
<1>15. DOMAIN f = I /\ DOMAIN g = Shifted(I, n)
  BY <1>11 DEF Shifted
<1> HIDE DEF f, g
<1>16. \A i \in I : key[i] \in Int
  BY <1>5, <1>6, <1>12
<1>17. Arranged(g, keyOfBoth) = Arranged(f, key)
  BY SMTT(20), <1>1, <1>13, <1>16, <1>14, <1>15, ArrangedShifted
<1> QED
  BY <1>10, <1>17 DEF both, older

-----------------------------------------------------------------------------
(***************************************************************************)
(* The inductive invariant: which articles there are, and what each stage  *)
(* made of what.                                                           *)
(***************************************************************************)
EventsMade ==
  /\ stage \in {"detected", "clustered"} => events = DetectEvents(Given)
  /\ stage = "verified" => events = VerifyEvents(DetectEvents(Given))

FeaturesMade == stage = "digested" => features = ArticleIntelligence(articles)

IInv ==
  /\ articles \in Seq(Articles)
  /\ EventsMade
  /\ Strong(narratives)
  /\ FeaturesMade

\* Screening keeps articles of the batch.
LEMMA ScreenedType ==
  ASSUME NEW batch \in Seq(Articles)
  PROVE  Screened(batch) \in Seq(Articles)
<1> DEFINE I == {j \in DOMAIN batch : j \in Kept(batch) /\ GoldRelevance(batch[j]) >= 10}
           f == [i \in I |-> batch[i]]
           zero == [i \in DOMAIN f |-> 0]
<1>1. IsFiniteSet(DOMAIN batch) /\ DOMAIN batch \in SUBSET Nat /\ \A i \in DOMAIN batch : batch[i] \in Articles
  BY FeedOfArticles
<1>2. I \in SUBSET DOMAIN batch
  OBVIOUS
<1>3. Screened(batch) = Arranged(f, zero)
  BY DEF Screened, InOrder
<1> HIDE DEF I
<1>4. IsFiniteSet(I)
  BY <1>1, <1>2, FS_Subset
<1>5. DOMAIN f \in SUBSET Nat /\ IsFiniteSet(DOMAIN f)
  BY <1>1, <1>2, <1>4
<1>6. (\A i \in DOMAIN f : zero[i] \in Int) /\ \A i \in DOMAIN f : f[i] \in Articles
  BY <1>1, <1>2
<1> HIDE DEF f, zero
<1> QED
  BY <1>3, <1>5, <1>6, ArrangedType

\* Each article twice.
LEMMA GivenType ==
  ASSUME articles \in Seq(Articles)
  PROVE  Given \in Seq(Articles) /\ SeqSet(Given) = SeqSet(articles)
<1>1. Given \in Seq(Articles)
  BY ConcatProperties DEF Given
<1> DEFINE n == Len(articles)
<1>2. n \in Nat /\ DOMAIN articles = 1 .. n
  OBVIOUS
<1>3. Len(Given) = n + n /\ \A i \in 1 .. n + n : Given[i] = IF i <= n THEN articles[i] ELSE articles[i - n]
  BY ConcatProperties DEF Given
<1>4. DOMAIN Given = 1 .. n + n
  BY <1>1, <1>3
<1> HIDE DEF n
<1>5. \A i \in DOMAIN Given : Given[i] \in SeqSet(articles)
  BY <1>2, <1>3, <1>4 DEF SeqSet
<1>6. \A i \in 1 .. n : i \in DOMAIN Given /\ Given[i] = articles[i]
  BY <1>2, <1>3, <1>4
<1> QED
  BY <1>1, <1>2, <1>5, <1>6 DEF SeqSet

\* No narratives are no weak narratives.
LEMMA EmptyStrong == Strong(<<>>)
<1> DEFINE zero == 0
<1>1. zero \in Nat /\ DOMAIN <<>> = 1 .. zero /\ <<>> = [k \in 1 .. zero |-> <<>>[k]]
  OBVIOUS
<1> HIDE DEF zero
<1> QED
  BY <1>1 DEF Strong

\* The invariant holds before the first cycle,
LEMMA InitIInv == Init => IInv
<1> SUFFICES ASSUME Init PROVE IInv
  OBVIOUS
<1>1. articles = <<>> /\ narratives = <<>> /\ stage = "idle"
  BY DEF Init
<1> QED
  BY <1>1, EmptyStrong DEF IInv, EventsMade, FeaturesMade

\* and every stage of the pipeline keeps it.
LEMMA NextIInv == IInv /\ [Next]_vars => IInv'
<1> SUFFICES ASSUME IInv, [Next]_vars PROVE IInv'
  OBVIOUS
<1>1. articles \in Seq(Articles) /\ EventsMade /\ Strong(narratives) /\ FeaturesMade
  BY DEF IInv
<1>2. CASE Screen
  <2>1. PICK batch \in Batches : articles' \in {Screened(batch), batch}
    BY <1>2 DEF Screen
  <2>2. batch \in Seq(Articles)
    BY NewsAssumption
  <2>3. articles' \in Seq(Articles)
    BY <2>1, <2>2, ScreenedType
  <2>4. narratives' = narratives /\ stage' = "screened"
    BY <1>2 DEF Screen
  <2>5. Strong(narratives)'
    BY <1>1, <2>4
  <2> QED
    BY <2>3, <2>4, <2>5 DEF IInv, EventsMade, FeaturesMade
<1>3. CASE Detect
  <2>1. articles' = articles /\ narratives' = narratives /\ stage' = "detected" /\ events' = DetectEvents(Given)
    BY <1>3 DEF Detect
  <2>2. Given' = Given
    BY <2>1 DEF Given
  <2>3. Strong(narratives)'
    BY <1>1, <2>1
  <2>4. EventsMade'
    BY <2>1, <2>2 DEF EventsMade
  <2> QED
    BY <1>1, <2>1, <2>3, <2>4 DEF IInv, FeaturesMade
<1>4. CASE Cluster
  <2>1. /\ articles' = articles /\ events' = events /\ narratives' = ClusterEvents(events)
        /\ stage = "detected" /\ stage' = "clustered"
    BY <1>4 DEF Cluster
  <2>2. Given' = Given
    BY <2>1 DEF Given
  <2>3. events = DetectEvents(Given)
    BY <1>1, <2>1 DEF EventsMade
  <2>4. Given \in Seq(Articles)
    BY <1>1, GivenType
  <2>5. PICK n \in Nat : DOMAIN events = 1 .. n
    BY <2>3, <2>4, DetectedEvents
  <2>6. \A i \in 1 .. n : WellMade(events[i])
    <3>1. \A e \in SeqSet(events) : WellMade(e)
      BY <2>3, <2>4, DetectedEvents
    <3> QED
      BY <2>5, <3>1 DEF SeqSet
  <2>7. Strong(ClusterEvents(events))
    BY <2>5, <2>6, ClusteredStrong
  <2>8. Strong(narratives)'
    BY <2>1, <2>7
  <2>9. EventsMade'
    BY <2>1, <2>2, <2>3 DEF EventsMade
  <2> QED
    BY <1>1, <2>1, <2>8, <2>9 DEF IInv, FeaturesMade
<1>5. CASE Verify
  <2>1. /\ articles' = articles /\ narratives' = narratives /\ events' = VerifyEvents(events)
        /\ stage = "clustered" /\ stage' = "verified"
    BY <1>5 DEF Verify
  <2>2. Given' = Given
    BY <2>1 DEF Given
  <2>3. events = DetectEvents(Given)
    BY <1>1, <2>1 DEF EventsMade
  <2>4. Strong(narratives)'
    BY <1>1, <2>1
  <2>5. EventsMade'
    BY <2>1, <2>2, <2>3 DEF EventsMade
  <2> QED
    BY <1>1, <2>1, <2>4, <2>5 DEF IInv, FeaturesMade
<1>6. CASE Digest
  <2>1. /\ articles' = articles /\ narratives' = narratives /\ stage' = "digested"
        /\ features' = ArticleIntelligence(articles)
    BY <1>6 DEF Digest
  <2>2. Strong(narratives)'
    BY <1>1, <2>1
  <2>3. FeaturesMade'
    BY <2>1 DEF FeaturesMade
  <2> QED
    BY <1>1, <2>1, <2>2, <2>3 DEF IInv, EventsMade
<1>7. CASE Forget
  <2>1. articles' = <<>> /\ narratives' = <<>> /\ stage' = "idle"
    BY <1>7 DEF Forget
  <2>2. Strong(narratives)'
    BY <2>1, EmptyStrong
  <2> QED
    BY <2>1, <2>2 DEF IInv, EventsMade, FeaturesMade
<1>8. CASE UNCHANGED vars
  <2>1. /\ articles' = articles /\ narratives' = narratives /\ stage' = stage
        /\ events' = events /\ features' = features
    BY <1>8 DEF vars
  <2>2. Given' = Given
    BY <2>1 DEF Given
  <2>3. Strong(narratives)'
    BY <1>1, <2>1
  <2>4. EventsMade' /\ FeaturesMade'
    BY <1>1, <2>1, <2>2 DEF EventsMade, FeaturesMade
  <2> QED
    BY <1>1, <2>1, <2>3, <2>4 DEF IInv
<1> QED
  BY <1>2, <1>3, <1>4, <1>5, <1>6, <1>7, <1>8 DEF Next

\* What the stages hold is what they made of the articles of the cycle: no
\* stage works on events, narratives or features of another one.
LEMMA Reachable == Spec => []IInv
<1> QED
  BY InitIInv, NextIInv, PTL DEF Spec

-----------------------------------------------------------------------------
\* As long as no story reaches max_cluster, the union-find over the pairs in
\* their order finds the stories, for every feed.
THEOREM DetectsStories == Spec => []EventsAreStories
<1>1. IInv => EventsAreStories
  <2> SUFFICES ASSUME IInv, stage = "detected",
                      \A i \in DOMAIN Given : Cardinality(Linked(Given)[i]) < MaxCluster
               PROVE  {e.ids : e \in SeqSet(events)}
                      = {{Given[j].id : j \in Linked(Given)[i]} : i \in DOMAIN Given}
    BY DEF EventsAreStories
  <2>1. Given \in Seq(Articles) /\ events = DetectEvents(Given)
    BY GivenType DEF IInv, EventsMade
  <2> DEFINE feed == Given
             groups == Grouping(feed)
             IdsOf(g) == {feed[j].id : j \in g}
  <2>2. Feed(feed) /\ Short(feed)
    BY <2>1, FeedOfArticles DEF Short
  <2>3. groups \in Sound(feed)
    BY <2>2, GroupingSound
  <2>4. \A g \in groups : EventOf(feed, g).ids = IdsOf(g)
    <3>1. \A g \in groups : g \in SUBSET DOMAIN feed /\ g # {}
      BY <2>3 DEF Sound
    <3> QED
      BY <2>1, <3>1, EventOfWellMade
  <2>5. SeqSet(events) = {EventOf(feed, g) : g \in groups}
    BY <2>1, DetectedEvents
  <2>6. \A i \in DOMAIN feed : Linked(feed)[i] \in groups
    BY <2>2, <2>3, GroupsAreStories, GroupOfSound
  <2>7. \A g \in groups : \E i \in DOMAIN feed : g = Linked(feed)[i]
    <3>1. ASSUME NEW g \in groups PROVE \E i \in DOMAIN feed : g = Linked(feed)[i]
      <4>1. PICK i \in g : i \in DOMAIN feed
        BY <2>3 DEF Sound
      <4>2. g = GroupOf(groups, i)
        BY <2>3, <4>1, GroupOfSound
      <4> QED
        BY <2>2, <4>1, <4>2, GroupsAreStories
    <3> QED
      BY <3>1
  <2> HIDE DEF feed, groups, IdsOf
  <2>8. {e.ids : e \in SeqSet(events)} = {IdsOf(g) : g \in groups}
    BY <2>4, <2>5
  <2>9. {IdsOf(g) : g \in groups} = {IdsOf(Linked(feed)[i]) : i \in DOMAIN feed}
    BY <2>6, <2>7
  <2> QED
    BY <2>8, <2>9 DEF feed, IdsOf
<1> QED
  BY <1>1, Reachable, PTL

\* A confirmed event was told under two names in two articles of the cycle,
\* one name authoritative: neither the number of articles nor the article
\* that is given twice confirms anything.
THEOREM ConfirmationNeedsTwo == Spec => []ConfirmedByTwo
<1>1. IInv => ConfirmedByTwo
  <2> SUFFICES ASSUME IInv, stage = "verified", NEW v \in SeqSet(events), v.confirmed
               PROVE  \E a, b \in SeqSet(articles) :
                        {a.id, b.id} \subseteq v.ids /\ a.source # b.source /\ Tier(a.source) <= 2
    BY DEF ConfirmedByTwo
  <2> DEFINE feed == Given
             found == DetectEvents(feed)
  <2>1. feed \in Seq(Articles) /\ SeqSet(feed) = SeqSet(articles) /\ events = VerifyEvents(found)
    BY GivenType DEF IInv, EventsMade
  <2> HIDE DEF feed
  <2>2. PICK e \in SeqSet(found) : v = Verified(e)
    <3> HIDE DEF found
    <3> QED
      BY <2>1 DEF SeqSet, VerifyEvents
  <2>3. PICK g \in Grouping(feed) : e = EventOf(feed, g)
    BY <2>1, DetectedEvents
  <2>4. g \in SUBSET DOMAIN feed /\ g # {}
    <3>1. Grouping(feed) \in Sound(feed)
      BY <2>1, FeedOfArticles, GroupingSound
    <3> QED
      BY <3>1 DEF Sound
  <2>5. /\ WellMade(e)
        /\ e.sources = {feed[i].source : i \in g}
        /\ e.ids = {feed[i].id : i \in g}
    BY <2>1, <2>3, <2>4, EventOfWellMade
  <2>6. v.confirmed = Confirms(e) /\ v.ids = e.ids
    BY <2>2, <2>3 DEF Verified, EventOf
  <2>7. PICK name \in e.sources, other \in e.sources : name # other /\ Tier(name) <= 2
    BY <2>5, <2>6, ConfirmedNames
  <2>8. PICK i \in g, j \in g : feed[i].source = name /\ feed[j].source = other
    BY <2>5, <2>7
  <2>9. feed[i] \in SeqSet(articles) /\ feed[j] \in SeqSet(articles)
    BY <2>1, <2>4, <2>8 DEF SeqSet
  <2>10. {feed[i].id, feed[j].id} \subseteq v.ids
    BY <2>5, <2>6
  <2> QED
    BY <2>7, <2>8, <2>9, <2>10
<1> QED
  BY <1>1, Reachable, PTL

\* The formula of the strength never gives less than a third, so the threshold
\* of the orchestrator and the outlook leaves no narrative out.
THEOREM NarrativesAlwaysActive == Spec => []EveryNarrativeActive
<1>1. IInv => EveryNarrativeActive
  BY StrongAreActive DEF IInv, EveryNarrativeActive
<1> QED
  BY <1>1, Reachable, PTL

\* Older copies under the same page and title, whatever else they say, change
\* nothing but the count of copies.
THEOREM OlderCopiesChangeNothing == Spec => []OlderCopiesIgnored
<1>1. IInv => OlderCopiesIgnored
  <2> SUFFICES ASSUME IInv, stage = "digested"
               PROVE  [ArticleIntelligence(OlderCopies(articles) \o articles)
                         EXCEPT !.copies = features.copies] = features
    BY DEF OlderCopiesIgnored
  <2>1. features = ArticleIntelligence(articles) /\ articles \in Seq(Articles)
    BY DEF IInv, FeaturesMade
  <2>2. Unique(OlderCopies(articles) \o articles) = Unique(articles)
    BY <2>1, UniqueOfSwollen
  <2> DEFINE Features(c, u, cs, r, h, d) ==
               [copies |-> c, unique |-> u, clusters |-> cs, relevance |-> r, high |-> h, duration |-> d]
             Average(u) == IF u = <<>> THEN 0
                           ELSE Nearest(Total([i \in DOMAIN u |-> Relevance(u[i])]), Len(u))
             Highs(u) == Cardinality({i \in DOMAIN u : Relevance(u[i]) >= 70})
             Lasts(u) == Duration(u, Clusters(u), Now)
             Summary(u, c) == Features(c, Len(u), Clusters(u), Average(u), Highs(u), Lasts(u))
  <2>3. \A feed : ArticleIntelligence(feed) = Summary(Unique(feed), Len(feed) - Len(Unique(feed)))
    BY DEF ArticleIntelligence
  <2>4. \A c, u, cs, r, h, d, other :
          /\ Features(c, u, cs, r, h, d).copies = c
          /\ [Features(c, u, cs, r, h, d) EXCEPT !.copies = other] = Features(other, u, cs, r, h, d)
    OBVIOUS
  <2> HIDE DEF Features, Average, Highs, Lasts
  <2>5. \A u, c, other : Summary(u, c).copies = c /\ [Summary(u, c) EXCEPT !.copies = other] = Summary(u, other)
    BY <2>4
  <2> HIDE DEF Summary
  <2> QED
    BY <2>1, <2>2, <2>3, <2>5
<1> QED
  BY <1>1, Reachable, PTL
==============================================================================
