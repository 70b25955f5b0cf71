---------------------------- MODULE CommitteeProofs ----------------------------
(***************************************************************************)
(* The committee's routing, for any providers, models, retries, circuit    *)
(* age, desk and prompts: a cycle that is accepted is one provider's,      *)
(* whole; no provider is called while its circuit is open; and the         *)
(* committee falls back on the desk only when every provider it could ask  *)
(* has failed.                                                             *)
(*                                                                         *)
(* None of the three is inductive.  That a locked cycle's votes are the    *)
(* locked provider's needs that the request under way can only reach it    *)
(* (LockedOrder, CalledIsEligible); that circuits are respected, that the  *)
(* dict of failures and the history agree (AgesAgree); and that a fallback *)
(* means exhaustion, where the providers not yet failed may still be: in   *)
(* the order of the request under way (Exhausting), or being called by a   *)
(* later member than the one that abstained (GaveUp).                      *)
(***************************************************************************)
EXTENDS Committee, FiniteSetTheorems, SequenceTheorems,
        WellFoundedInduction, NaturalsInduction, TLAPS

Elements(s) == {s[i] : i \in DOMAIN s}

\* The providers the client would call.
Callable == Elements(Configured) \cap Enabled \cap Supported

\* A circuit is as old as the provider's last failure, and a provider without
\* one has not failed for ResetAge ticks.
AgesAgree ==
  \A p \in Provider :
    sinceFail[p] = IF p \in DOMAIN failures THEN failures[p] ELSE ResetAge

\* The provider being called is the first left, one that may be called, and
\* the one an answer comes from; nobody is left when the request has failed.
CalledIsEligible ==
  /\ req.phase \in {"calling", "answered"} =>
       req.order # <<>> /\ Head(req.order) \in Enabled \cap Supported
  /\ req.phase = "answered" => req.by = Head(req.order)
  /\ req.phase = "failed" => req.order = <<>>

\* A request is an AI member's whose prompt fits, in its turn.
TurnOfAsked ==
  req.phase # "idle" => stage # "concluded" /\ Turn \in AIMember \ tooLong

\* A locked cycle has a provider, and asks no other.
LockedOrder ==
  stage = "locked" =>
    /\ at \in 1 .. Len(chain)
    /\ req.phase # "idle" => req.order \in Seq({chain[at]})

\* An unlocked request still has every provider before it that has not failed.
Exhausting ==
  stage = "unlocked" /\ req.phase \in {"choosing", "calling", "failed"} =>
    Callable \subseteq DOMAIN failures \cup Elements(req.order)

\* A member that could ask has voted and nobody has answered: every provider
\* has failed, or is being tried again.
GaveUp ==
  /\ stage = "unlocked"
  /\ req.phase # "answered"
  /\ (2 .. Len(votes)) \ tooLong # {}
  /\ \A m \in 2 .. Len(votes) : votes[m].provider \notin Provider
  => \A p \in Callable :
       p \in DOMAIN failures \/ (req.phase = "calling" /\ p = Head(req.order))

IInv ==
  /\ TypeOK
  /\ AgesAgree
  /\ CalledIsEligible
  /\ TurnOfAsked
  /\ LockedOrder
  /\ CycleLocked
  /\ Exhausting
  /\ GaveUp
-----------------------------------------------------------------------------
\* A set of natural numbers that is not empty has a least element.
LEMMA LeastNat ==
  ASSUME NEW N \in SUBSET Nat, N # {}
  PROVE  \E n \in N : \A m \in N : n <= m
<1> DEFINE Less == OpToRel(<, Nat)
<1>1. IsWellFoundedOn(Less, Nat)
  BY NatLessThanWellFounded
<1>2. PICK n \in N : \A m \in N : ~(<<m, n>> \in Less)
  BY <1>1, WFMin
<1>3. \A m \in Nat : m < n => <<m, n>> \in Less
  BY <1>2 DEF OpToRel
<1> HIDE DEF Less
<1> QED
  <2>1. \A m \in N : ~(m < n)
    BY <1>2, <1>3
  <2> QED
    BY <2>1

\* The rank of a place in a sequence counts on by one at the members of T.
LEMMA RankStep ==
  ASSUME NEW s, NEW T, NEW i \in Nat
  PROVE  /\ Rank(s, T, i) \in Nat
         /\ Rank(s, T, 0) = 0
         /\ Rank(s, T, i + 1) = IF s[i + 1] \in T THEN Rank(s, T, i) + 1 ELSE Rank(s, T, i)
<1> DEFINE upTo(n) == {j \in 1 .. n : s[j] \in T}
<1>1. \A n \in Nat : IsFiniteSet(upTo(n))
  <2> TAKE n \in Nat
  <2>1. IsFiniteSet(1 .. n)
    BY FS_Interval
  <2>2. upTo(n) \subseteq 1 .. n
    OBVIOUS
  <2> QED
    BY <2>1, <2>2, FS_Subset
<1>2. upTo(0) = {}
  OBVIOUS
<1>3. upTo(i + 1) = IF s[i + 1] \in T THEN upTo(i) \cup {i + 1} ELSE upTo(i)
  OBVIOUS
<1>4. i + 1 \notin upTo(i)
  OBVIOUS
<1>5. Cardinality(upTo(i) \cup {i + 1}) = Cardinality(upTo(i)) + 1
  BY <1>1, <1>4, FS_AddElement
<1> QED
  BY <1>1, <1>2, <1>3, <1>5, FS_CardinalityType, FS_EmptySet DEF Rank

\* Ranks grow, and at a member of T strictly.
LEMMA RankGrows ==
  ASSUME NEW s, NEW T, NEW i \in Nat, NEW j \in Nat, i < j
  PROVE  /\ Rank(s, T, i) <= Rank(s, T, j)
         /\ s[j] \in T => Rank(s, T, i) < Rank(s, T, j)
<1> DEFINE upTo(n) == {m \in 1 .. n : s[m] \in T}
<1>1. IsFiniteSet(upTo(j)) /\ IsFiniteSet(upTo(i))
  <2>1. IsFiniteSet(1 .. j) /\ IsFiniteSet(1 .. i)
    BY FS_Interval
  <2>2. upTo(j) \subseteq 1 .. j /\ upTo(i) \subseteq 1 .. i
    OBVIOUS
  <2> QED
    BY <2>1, <2>2, FS_Subset
<1>2. upTo(i) \subseteq upTo(j)
  OBVIOUS
<1>3. s[j] \in T => upTo(i) # upTo(j)
  <2>1. s[j] \in T => j \in upTo(j) /\ j \notin upTo(i)
    OBVIOUS
  <2> QED
    BY <2>1
<1>4. /\ Cardinality(upTo(i)) <= Cardinality(upTo(j))
      /\ Cardinality(upTo(j)) = Cardinality(upTo(i)) => upTo(i) = upTo(j)
  BY <1>1, <1>2, FS_Subset
<1>5. Cardinality(upTo(i)) \in Nat /\ Cardinality(upTo(j)) \in Nat
  BY <1>1, FS_CardinalityType
<1> HIDE DEF upTo
<1>6. /\ Cardinality(upTo(i)) <= Cardinality(upTo(j))
      /\ s[j] \in T => Cardinality(upTo(i)) < Cardinality(upTo(j))
  BY <1>3, <1>4, <1>5
<1> QED
  BY <1>6 DEF Rank, upTo

\* Every rank up to the last is that of a member of T.
LEMMA RankReached ==
  ASSUME NEW s, NEW T, NEW n \in Nat, NEW k \in 1 .. Rank(s, T, n)
  PROVE  \E i \in 1 .. n : s[i] \in T /\ Rank(s, T, i) = k
<1> DEFINE N == {i \in 0 .. n : Rank(s, T, i) >= k}
<1>1. \A i \in Nat : Rank(s, T, i) \in Nat
  BY RankStep
<1>2. n \in N /\ N \in SUBSET Nat
  BY <1>1
<1>3. PICK i \in N : \A m \in N : i <= m
  BY <1>2, LeastNat
<1>4. i # 0
  BY <1>3, RankStep
<1>5. i - 1 \in 0 .. n /\ i - 1 \notin N
  BY <1>3, <1>4
<1>6. Rank(s, T, i - 1) < k /\ i - 1 \in Nat
  BY <1>1, <1>5
<1>7. Rank(s, T, (i - 1) + 1) = IF s[(i - 1) + 1] \in T THEN Rank(s, T, i - 1) + 1
                                                        ELSE Rank(s, T, i - 1)
  BY <1>6, RankStep
<1>8. (i - 1) + 1 = i
  BY <1>3
<1>9. Rank(s, T, i) = IF s[i] \in T THEN Rank(s, T, i - 1) + 1 ELSE Rank(s, T, i - 1)
  BY <1>7, <1>8
<1> QED
  BY <1>1, <1>3, <1>4, <1>6, <1>9

\* Among is the filter: it holds members of T only, and all there are.
LEMMA AmongProperties ==
  ASSUME NEW S, NEW s \in Seq(S), NEW T
  PROVE  /\ Among(s, T) \in Seq(S \cap T)
         /\ \A i \in 1 .. Len(s) : s[i] \in T =>
              \E k \in 1 .. Len(Among(s, T)) : Among(s, T)[k] = s[i]
<1> DEFINE n == Rank(s, T, Len(s))
           At(k) == CHOOSE i \in 1 .. Len(s) : s[i] \in T /\ Rank(s, T, i) = k
<1>1. Len(s) \in Nat /\ n \in Nat
  BY RankStep
<1>2. \A k \in 1 .. n : At(k) \in 1 .. Len(s) /\ s[At(k)] \in T /\ Rank(s, T, At(k)) = k
  <2> TAKE k \in 1 .. n
  <2>1. \E i \in 1 .. Len(s) : s[i] \in T /\ Rank(s, T, i) = k
    BY <1>1, RankReached
  <2> QED
    BY <2>1
<1>3. Among(s, T) = [k \in 1 .. n |-> s[At(k)]]
  BY DEF Among
<1>4. Among(s, T) \in [1 .. n -> S \cap T]
  BY <1>2, <1>3, ElementOfSeq
<1>5. Among(s, T) \in Seq(S \cap T) /\ Len(Among(s, T)) = n
  BY <1>1, <1>4
<1>6. ASSUME NEW i \in 1 .. Len(s), s[i] \in T
      PROVE  \E k \in 1 .. n : Among(s, T)[k] = s[i]
  <2> DEFINE k == Rank(s, T, i)
  <2>1. k \in 1 .. n
    <3>1. Rank(s, T, 0) < Rank(s, T, i)
      BY <1>1, <1>6, RankGrows
    <3>2. k <= n
      BY <1>1, RankGrows, RankStep
    <3>3. Rank(s, T, 0) = 0 /\ Rank(s, T, i) \in Nat
      <4>1. i \in Nat
        BY <1>1
      <4> QED
        BY <4>1, RankStep
    <3> QED
      BY <1>1, <3>1, <3>2, <3>3
  <2>2. At(k) = i
    <3>1. At(k) \in 1 .. Len(s) /\ s[At(k)] \in T /\ Rank(s, T, At(k)) = k
      BY <1>2, <2>1
    <3> HIDE DEF At
    <3>2. k \in Nat
      BY <2>1
    <3>3. ~(At(k) < i)
      BY <1>1, <1>6, <3>1, <3>2, RankGrows
    <3>4. ~(i < At(k))
      BY <1>1, <3>1, <3>2, RankGrows
    <3> QED
      BY <3>1, <3>3, <3>4
  <2> QED
    BY <1>3, <2>1, <2>2
<1> QED
  BY <1>5, <1>6

-----------------------------------------------------------------------------
\* A sequence over a set is one over a larger set.
LEMMA SeqWidens ==
  ASSUME NEW S, NEW T, S \subseteq T, NEW s \in Seq(S)
  PROVE  s \in Seq(T)
<1>1. Len(s) \in Nat /\ s \in [1 .. Len(s) -> S]
  BY LenProperties
<1>2. s \in [1 .. Len(s) -> T]
  BY <1>1
<1> QED
  BY <1>1, <1>2

\* Sorting by preference keeps every provider.
LEMMA PreferringProperties ==
  ASSUME NEW first
  PROVE  /\ Preferring(first, Configured) \in Seq(Provider)
         /\ \A i \in DOMAIN Configured :
              \E k \in DOMAIN Preferring(first, Configured) :
                Preferring(first, Configured)[k] = Configured[i]
<1> DEFINE a == Among(Configured, {first})
           b == Among(Configured, Provider \ {first})
<1>0. Configured \in Seq(Provider) /\ DOMAIN Configured = 1 .. Len(Configured)
  BY ClientAssumption
<1>1. a \in Seq(Provider) /\ b \in Seq(Provider)
  <2>1. a \in Seq(Provider \cap {first}) /\ b \in Seq(Provider \cap (Provider \ {first}))
    BY <1>0, AmongProperties
  <2> HIDE DEF a, b
  <2>2. a \in Seq(Provider)
    BY <2>1, SeqWidens
  <2>3. b \in Seq(Provider)
    BY <2>1, SeqWidens
  <2> QED
    BY <2>2, <2>3
<1>2. ASSUME NEW i \in DOMAIN Configured
      PROVE  \/ \E k \in 1 .. Len(a) : a[k] = Configured[i]
             \/ \E k \in 1 .. Len(b) : b[k] = Configured[i]
  <2>1. Configured[i] \in {first} \/ Configured[i] \in Provider \ {first}
    BY <1>0, ElementOfSeq
  <2>2. CASE Configured[i] \in {first}
    <3>1. \E k \in 1 .. Len(a) : a[k] = Configured[i]
      BY SMTT(20), <1>0, <2>2, AmongProperties
    <3> QED
      BY <3>1
  <2>3. CASE Configured[i] \in Provider \ {first}
    <3>1. \E k \in 1 .. Len(b) : b[k] = Configured[i]
      BY SMTT(20), <1>0, <2>3, AmongProperties
    <3> QED
      BY <3>1
  <2> QED
    BY <2>1, <2>2, <2>3
<1> HIDE DEF a, b
<1>3. /\ a \o b \in Seq(Provider) /\ Len(a \o b) = Len(a) + Len(b)
      /\ \A k \in 1 .. Len(a) : (a \o b)[k] = a[k]
      /\ \A k \in 1 .. Len(b) : (a \o b)[Len(a) + k] = b[k]
  BY <1>1, ConcatProperties
<1>4. ASSUME NEW i \in DOMAIN Configured
      PROVE  \E k \in DOMAIN (a \o b) : (a \o b)[k] = Configured[i]
  <2>1. CASE \E k \in 1 .. Len(a) : a[k] = Configured[i]
    BY <1>1, <1>3, <2>1
  <2>2. CASE \E k \in 1 .. Len(b) : b[k] = Configured[i]
    <3>1. PICK k \in 1 .. Len(b) : b[k] = Configured[i]
      BY <2>2
    <3>2. (a \o b)[Len(a) + k] = Configured[i]
      BY <1>3, <3>1
    <3>3. Len(a) + k \in DOMAIN (a \o b)
      BY <1>1, <1>3, LenProperties
    <3> QED
      BY <3>2, <3>3
  <2> QED
    BY <1>2, <2>1, <2>2
<1>5. Preferring(first, Configured) = a \o b
  BY DEF Preferring, a, b
<1> QED
  BY <1>3, <1>4, <1>5

\* The chain of a deliberation is made of providers.
LEMMA ChainType ==
  ASSUME NEW deep \in BOOLEAN
  PROVE  ProviderChain(deep) \in Seq(Provider)
<1> DEFINE s == IF deep THEN Preferring(DeepProvider, Configured) ELSE Configured
<1>1. s \in Seq(Provider)
  BY PreferringProperties, ClientAssumption
<1> HIDE DEF s
<1>2. Among(s, Enabled) \in Seq(Provider \cap Enabled)
  BY <1>1, AmongProperties
<1>3. Among(s, Enabled) \in Seq(Provider)
  BY <1>2, SeqWidens
<1> QED
  BY <1>3 DEF ProviderChain, s

\* A locked request has no order but the locked provider.
LEMMA LockedRequest ==
  ASSUME NEW p \in Provider
  PROVE  /\ RequestOrder(p, FALSE, Preferred) \in Seq({p})
         /\ RequestOrder(p, FALSE, Preferred) \in Seq(Provider)
<1>1. Among(Configured, {p}) \in Seq(Provider \cap {p})
  BY AmongProperties, ClientAssumption
<1>2. Among(Configured, {p}) \in Seq({p}) /\ Among(Configured, {p}) \in Seq(Provider)
  BY <1>1, SeqWidens
<1> QED
  BY <1>2, ClientAssumption DEF RequestOrder

\* A request that is not locked has every configured provider before it.
LEMMA UnlockedRequest ==
  /\ RequestOrder(NoProvider, FALSE, Preferred) \in Seq(Provider)
  /\ \A i \in DOMAIN Configured :
       \E k \in DOMAIN RequestOrder(NoProvider, FALSE, Preferred) :
         RequestOrder(NoProvider, FALSE, Preferred)[k] = Configured[i]
<1>1. RequestOrder(NoProvider, FALSE, Preferred)
        = IF Preferred # NoProvider THEN Preferring(Preferred, Configured) ELSE Configured
  BY DEF RequestOrder
<1> QED
  BY <1>1, PreferringProperties, ClientAssumption

-----------------------------------------------------------------------------
\* What is left when the first of a sequence is taken off.
LEMMA HeadAndTail ==
  ASSUME NEW S, NEW s \in Seq(S), s # <<>>
  PROVE  /\ Head(s) \in S /\ Tail(s) \in Seq(S)
         /\ Elements(s) = {Head(s)} \cup Elements(Tail(s))
<1>1. Len(s) \in Nat \ {0} /\ s \in [1 .. Len(s) -> S] /\ Head(s) = s[1]
  BY LenProperties, EmptySeq
<1>2. /\ Tail(s) \in Seq(S) /\ Len(Tail(s)) = Len(s) - 1
      /\ \A i \in 1 .. Len(Tail(s)) : Tail(s)[i] = s[i + 1]
  BY HeadTailProperties
<1>3. DOMAIN s = 1 .. Len(s) /\ DOMAIN Tail(s) = 1 .. Len(s) - 1
  BY <1>1, <1>2, LenProperties
<1>4. ASSUME NEW i \in DOMAIN s PROVE s[i] \in {Head(s)} \cup Elements(Tail(s))
  <2>1. CASE i = 1
    BY <1>1, <2>1
  <2>2. CASE i # 1
    <3>1. i - 1 \in DOMAIN Tail(s) /\ Tail(s)[i - 1] = s[(i - 1) + 1]
      BY <1>1, <1>2, <1>3, <2>2
    <3>2. (i - 1) + 1 = i
      BY <1>1, <1>3
    <3> QED
      BY <3>1, <3>2 DEF Elements
  <2> QED
    BY <2>1, <2>2
<1>5. ASSUME NEW i \in DOMAIN Tail(s) PROVE Tail(s)[i] \in Elements(s)
  <2>1. i + 1 \in DOMAIN s /\ Tail(s)[i] = s[i + 1]
    BY <1>1, <1>2, <1>3
  <2> QED
    BY <2>1 DEF Elements
<1>6. Head(s) \in Elements(s)
  BY <1>1, <1>3 DEF Elements
<1> QED
  BY <1>1, <1>2, <1>4, <1>5, <1>6 DEF Elements

Circuits == UNION {[S -> 0 .. ResetAge] : S \in SUBSET Provider}

\* Opening and deleting a circuit concern that circuit only.
LEMMA CircuitUpdates ==
  ASSUME NEW f \in Circuits, NEW p \in Provider
  PROVE  /\ DOMAIN f \subseteq Provider /\ \A q \in DOMAIN f : f[q] \in 0 .. ResetAge
         /\ Without(f, p) \in Circuits
         /\ DOMAIN Without(f, p) = DOMAIN f \ {p}
         /\ \A q \in DOMAIN f \ {p} : Without(f, p)[q] = f[q]
         /\ With(f, p, 0) \in Circuits
         /\ DOMAIN With(f, p, 0) = DOMAIN f \cup {p}
         /\ With(f, p, 0)[p] = 0
         /\ \A q \in DOMAIN f \ {p} : With(f, p, 0)[q] = f[q]
<1>1. PICK S \in SUBSET Provider : f \in [S -> 0 .. ResetAge]
  BY DEF Circuits
<1>2. Without(f, p) \in [S \ {p} -> 0 .. ResetAge]
  BY <1>1 DEF Without
<1>3. With(f, p, 0) \in [S \cup {p} -> 0 .. ResetAge]
  BY <1>1, ClientAssumption DEF With
<1>4. Without(f, p) \in Circuits /\ With(f, p, 0) \in Circuits
  BY <1>2, <1>3 DEF Circuits
<1> QED
  BY <1>1, <1>4 DEF Without, With

\* A request is the record of its fields.
LEMMA RequestFields ==
  ASSUME NEW r \in Request
  PROVE  /\ r = [phase |-> r.phase, order |-> r.order, model |-> r.model,
                 tries |-> r.tries, by |-> r.by]
         /\ r.phase \in Phase /\ r.order \in Seq(Provider) /\ r.model \in Nat
         /\ r.tries \in 0 .. HttpRetries /\ r.by \in Provider \cup {NoProvider}
BY DEF Request

\* A record of these fields is a request.
LEMMA RequestOf ==
  ASSUME NEW phase \in Phase, NEW order \in Seq(Provider), NEW model \in Nat,
         NEW tries \in 0 .. HttpRetries, NEW by \in Provider \cup {NoProvider}
  PROVE  [phase |-> phase, order |-> order, model |-> model, tries |-> tries, by |-> by]
           \in Request
BY DEF Request

\* The initial state satisfies the inductive invariant.
LEMMA InitIInv == Init => IInv
<1> SUFFICES ASSUME Init PROVE IInv
  OBVIOUS
<1> USE DEF Init, ClientInit, NoRequest
<1>1. TypeOK
  <2>1. failures \in [{} -> 0 .. ResetAge]
    OBVIOUS
  <2>2. failures \in UNION {[S -> 0 .. ResetAge] : S \in SUBSET Provider}
    BY <2>1
  <2>3. sinceFail \in [Provider -> 0 .. ResetAge]
    BY ClientAssumption
  <2>4. req \in Request
    BY ClientAssumption DEF Request, Phase
  <2>5. chain \in Seq(Provider) /\ votes \in Seq(Vote) /\ Len(votes) <= 4
    OBVIOUS
  <2>6. desk \in Ballot /\ report.confidence \in Percent
    BY DEF Neutral, NoReport, Ballot, Direction, Percent
  <2>7. stage \in {"concluded", "locked", "unlocked"}
    OBVIOUS
  <2>8. healed \in BOOLEAN
    OBVIOUS
  <2>9. at \in Nat \ {0} /\ tooLong \subseteq AIMember
    OBVIOUS
  <2> HIDE DEF Init, ClientInit
  <2> QED
    BY <2>2, <2>3, <2>4, <2>5, <2>6, <2>7, <2>8, <2>9 DEF TypeOK, ClientTypeOK
<1>2. AgesAgree
  BY DEF AgesAgree
<1> QED
  BY <1>1, <1>2 DEF IInv, CalledIsEligible, TurnOfAsked, LockedOrder, CycleLocked, Exhausting, GaveUp

-----------------------------------------------------------------------------
\* Trying the next model, or giving the provider up and opening its circuit.
LEMMA ModelFailsIInv ==
  ASSUME IInv, req.phase = "calling", NEW status, ModelFails(status),
         UNCHANGED healed, UNCHANGED committeeVars
  PROVE  IInv'
<1> DEFINE p == Head(req.order)
<1> USE DEF IInv
<1>0. /\ req \in Request /\ req.order # <<>> /\ req.order \in Seq(Provider)
      /\ p \in Provider /\ Tail(req.order) \in Seq(Provider)
      /\ Elements(req.order) = {p} \cup Elements(Tail(req.order))
  <2>1. req \in Request /\ req.order # <<>> /\ req.order \in Seq(Provider)
    BY DEF TypeOK, ClientTypeOK, Request, CalledIsEligible
  <2> QED
    BY <2>1, HeadAndTail
<1>1. CASE CanTryNextModel(p, status)
  <2>1. /\ req' = [req EXCEPT !.model = @ + 1, !.tries = 0]
        /\ UNCHANGED <<failures, sinceFail>>
    BY <1>1 DEF ModelFails
  <2>2. /\ req' \in Request /\ req'.phase = req.phase /\ req'.order = req.order
        /\ req'.by = req.by
    <3>1. req' = [phase |-> req.phase, order |-> req.order, model |-> req.model + 1,
                  tries |-> 0, by |-> req.by]
      BY <1>0, <2>1 DEF Request
    <3>2. req.model + 1 \in Nat /\ 0 \in 0 .. HttpRetries
      BY <1>0, ClientAssumption, RequestFields
    <3> QED
      BY <1>0, <3>1, <3>2, RequestFields, RequestOf
  <2>3. TypeOK'
    BY <2>1, <2>2 DEF TypeOK, ClientTypeOK, committeeVars
  <2> QED
    BY <2>1, <2>2, <2>3 DEF AgesAgree, CalledIsEligible, TurnOfAsked, Turn, LockedOrder,
      CycleLocked, Exhausting, GaveUp, committeeVars
<1>2. CASE ~CanTryNextModel(p, status)
  <2>1. /\ req' = [req EXCEPT !.phase = "choosing", !.order = Tail(@), !.model = 1, !.tries = 0]
        /\ failures' = With(failures, p, 0)
        /\ sinceFail' = [sinceFail EXCEPT ![p] = 0]
    BY <1>2 DEF ModelFails
  <2>2. /\ req' \in Request /\ req'.phase = "choosing" /\ req'.order = Tail(req.order)
    <3>1. req' = [phase |-> "choosing", order |-> Tail(req.order), model |-> 1,
                  tries |-> 0, by |-> req.by]
      BY <1>0, <2>1 DEF Request
    <3>2. "choosing" \in Phase /\ 1 \in Nat /\ 0 \in 0 .. HttpRetries
      BY ClientAssumption DEF Phase
    <3> QED
      BY <1>0, <3>1, <3>2, RequestFields, RequestOf
  <2>3. /\ failures' \in Circuits /\ DOMAIN failures' = DOMAIN failures \cup {p}
        /\ failures'[p] = 0 /\ \A q \in DOMAIN failures \ {p} : failures'[q] = failures[q]
    <3>1. failures \in Circuits
      BY DEF TypeOK, ClientTypeOK, Circuits
    <3> QED
      BY <1>0, <2>1, <3>1, CircuitUpdates
  <2>4. TypeOK'
    <3>1. sinceFail' \in [Provider -> 0 .. ResetAge]
      BY <1>0, <2>1, ClientAssumption DEF TypeOK, ClientTypeOK
    <3> QED
      BY <2>2, <2>3, <3>1 DEF TypeOK, ClientTypeOK, Circuits, committeeVars
  <2>5. AgesAgree'
    BY <1>0, <2>1, <2>3 DEF AgesAgree, TypeOK, ClientTypeOK
  <2>6. TurnOfAsked' /\ CycleLocked'
    BY DEF TurnOfAsked, Turn, CycleLocked, committeeVars
  <2>7. LockedOrder'
    <3> SUFFICES ASSUME stage = "locked"
                 PROVE  at \in 1 .. Len(chain) /\ Tail(req.order) \in Seq({chain[at]})
      BY <2>2 DEF LockedOrder, committeeVars
    <3>1. at \in 1 .. Len(chain) /\ req.order \in Seq({chain[at]})
      BY DEF LockedOrder
    <3> QED
      BY <1>0, <3>1, HeadAndTail
  <2>8. Exhausting'
    BY <1>0, <2>2, <2>3 DEF Exhausting, committeeVars
  <2>9. GaveUp'
    BY <2>2, <2>3 DEF GaveUp, committeeVars
  <2> QED
    BY <2>2, <2>4, <2>5, <2>6, <2>7, <2>8, <2>9 DEF CalledIsEligible
<1> QED
  BY <1>1, <1>2

\* Any step of the client while a request is under way.
LEMMA ClientIInv ==
  ASSUME IInv, ClientStep, UNCHANGED committeeVars
  PROVE  IInv'
<1> USE DEF IInv
<1>0. req \in Request /\ failures \in Circuits
  BY DEF TypeOK, ClientTypeOK, Circuits
<1>1. CASE SkipProvider
  <2>1. /\ req.phase = "choosing" /\ req.order # <<>>
        /\ LET p == Head(req.order)
           IN  p \notin Enabled \/ p \notin Supported \/ CircuitOpen(p)
        /\ req' = [req EXCEPT !.order = Tail(@)]
        /\ UNCHANGED <<failures, sinceFail, healed>>
    BY <1>1 DEF SkipProvider
  <2>2. /\ req.order \in Seq(Provider) /\ Tail(req.order) \in Seq(Provider)
        /\ Elements(req.order) = {Head(req.order)} \cup Elements(Tail(req.order))
    BY <1>0, <2>1, RequestFields, HeadAndTail
  <2>3. req' \in Request /\ req'.phase = "choosing" /\ req'.order = Tail(req.order)
    <3>1. req' = [phase |-> req.phase, order |-> Tail(req.order), model |-> req.model,
                  tries |-> req.tries, by |-> req.by]
      BY <1>0, <2>1 DEF Request
    <3>2. req' \in Request
      BY <1>0, <2>2, <3>1, RequestFields, RequestOf
    <3> QED
      BY <2>1, <3>1, <3>2
  <2>4. TypeOK'
    BY <2>1, <2>3 DEF TypeOK, ClientTypeOK, committeeVars
  <2>5. LockedOrder'
    <3> SUFFICES ASSUME stage = "locked"
                 PROVE  at \in 1 .. Len(chain) /\ Tail(req.order) \in Seq({chain[at]})
      BY <2>3 DEF LockedOrder, committeeVars
    <3>1. at \in 1 .. Len(chain) /\ req.order \in Seq({chain[at]})
      BY <2>1 DEF LockedOrder
    <3> QED
      BY <2>1, <3>1, HeadAndTail
  <2>6. Head(req.order) \in Callable => Head(req.order) \in DOMAIN failures
    BY <2>1 DEF Callable, CircuitOpen
  <2>7. Exhausting'
    BY <2>1, <2>2, <2>3, <2>6 DEF Exhausting, committeeVars
  <2>8. GaveUp'
    BY <2>1, <2>3 DEF GaveUp, committeeVars
  <2> QED
    BY <2>1, <2>3, <2>4, <2>5, <2>7, <2>8
    DEF AgesAgree, CalledIsEligible, TurnOfAsked, Turn, CycleLocked, committeeVars
<1>2. CASE CallProvider
  <2> DEFINE p == Head(req.order)
  <2>1. /\ req.phase = "choosing" /\ req.order # <<>>
        /\ p \in Enabled \cap Supported /\ ~CircuitOpen(p)
        /\ failures' = Without(failures, p)
        /\ req' = [req EXCEPT !.phase = "calling", !.model = 1, !.tries = 0]
        /\ UNCHANGED <<sinceFail, healed>>
    BY <1>2 DEF CallProvider
  <2>2. req.order \in Seq(Provider) /\ p \in Provider /\ p \in Elements(req.order)
    BY <1>0, <2>1, RequestFields, HeadAndTail
  <2>3. /\ req' \in Request /\ req'.phase = "calling" /\ req'.order = req.order
    <3>1. req' = [phase |-> "calling", order |-> req.order, model |-> 1,
                  tries |-> 0, by |-> req.by]
      BY <1>0, <2>1 DEF Request
    <3>2. "calling" \in Phase /\ 1 \in Nat /\ 0 \in 0 .. HttpRetries
      BY ClientAssumption DEF Phase
    <3> QED
      BY <1>0, <2>2, <3>1, <3>2, RequestFields, RequestOf
  <2>4. /\ failures' \in Circuits /\ DOMAIN failures' = DOMAIN failures \ {p}
        /\ \A q \in DOMAIN failures' : failures'[q] = failures[q]
        /\ \A q \in DOMAIN failures : failures[q] \in 0 .. ResetAge
    <3>1. /\ Without(failures, p) \in Circuits
          /\ DOMAIN Without(failures, p) = DOMAIN failures \ {p}
          /\ \A q \in DOMAIN failures \ {p} : Without(failures, p)[q] = failures[q]
      BY <1>0, <2>2, CircuitUpdates
    <3>2. \A q \in DOMAIN failures : failures[q] \in 0 .. ResetAge
      BY <1>0, <2>2, CircuitUpdates
    <3> QED
      BY <2>1, <3>1, <3>2
  <2>5. TypeOK'
    BY <2>1, <2>3, <2>4 DEF TypeOK, ClientTypeOK, Circuits, committeeVars
  <2>6. AgesAgree'
    <3>1. sinceFail[p] = ResetAge
      BY <2>1, <2>2, <2>4, ClientAssumption DEF AgesAgree, CircuitOpen, Expired
    <3> QED
      BY <2>1, <2>4, <3>1 DEF AgesAgree
  <2>7. Exhausting'
    BY <2>1, <2>2, <2>3, <2>4 DEF Exhausting, committeeVars
  <2>8. GaveUp'
    BY <2>1, <2>3, <2>4 DEF GaveUp, committeeVars
  <2> QED
    BY <2>1, <2>3, <2>5, <2>6, <2>7, <2>8
    DEF CalledIsEligible, TurnOfAsked, Turn, LockedOrder, CycleLocked, committeeVars
<1>3. CASE ValidReply
  <2>1. /\ req.phase = "calling"
        /\ req' = [req EXCEPT !.phase = "answered", !.by = Head(req.order)]
        /\ UNCHANGED <<failures, sinceFail, healed>>
    BY <1>3 DEF ValidReply
  <2>2. req.order # <<>> /\ Head(req.order) \in Enabled \cap Supported
    BY <2>1 DEF CalledIsEligible
  <2>3. /\ req' \in Request /\ req'.phase = "answered" /\ req'.order = req.order
        /\ req'.by = Head(req.order)
    <3>1. req' = [phase |-> "answered", order |-> req.order, model |-> req.model,
                  tries |-> req.tries, by |-> Head(req.order)]
      BY <1>0, <2>1 DEF Request
    <3>2. "answered" \in Phase /\ Head(req.order) \in Provider
      BY <2>2, ClientAssumption DEF Phase
    <3> QED
      BY <1>0, <3>1, <3>2, RequestFields, RequestOf
  <2>4. TypeOK'
    BY <2>1, <2>3 DEF TypeOK, ClientTypeOK, committeeVars
  <2> QED
    BY <2>1, <2>2, <2>3, <2>4 DEF AgesAgree, CalledIsEligible, TurnOfAsked, Turn,
      LockedOrder, CycleLocked, Exhausting, GaveUp, committeeVars
<1>4. CASE UnusableReply
  BY <1>4, ModelFailsIInv DEF UnusableReply
<1>5. CASE HttpRetry
  <2>1. /\ req.phase = "calling" /\ req.tries < HttpRetries
        /\ req' = [req EXCEPT !.tries = @ + 1]
        /\ UNCHANGED <<failures, sinceFail, healed>>
    BY <1>5 DEF HttpRetry
  <2>2. /\ req' \in Request /\ req'.phase = req.phase /\ req'.order = req.order
    <3>1. req' = [phase |-> req.phase, order |-> req.order, model |-> req.model,
                  tries |-> req.tries + 1, by |-> req.by]
      BY <1>0, <2>1 DEF Request
    <3>2. req.tries + 1 \in 0 .. HttpRetries
      BY <1>0, <2>1, ClientAssumption, RequestFields
    <3> QED
      BY <1>0, <3>1, <3>2, RequestFields, RequestOf
  <2>3. TypeOK'
    BY <2>1, <2>2 DEF TypeOK, ClientTypeOK, committeeVars
  <2> QED
    BY <2>1, <2>2, <2>3 DEF AgesAgree, CalledIsEligible, TurnOfAsked, Turn,
      LockedOrder, CycleLocked, Exhausting, GaveUp, committeeVars
<1>6. CASE HttpExhausted
  BY <1>6, ModelFailsIInv DEF HttpExhausted
<1>7. CASE ChainExhausted
  <2>1. /\ req.phase = "choosing" /\ req.order = <<>>
        /\ req' = [req EXCEPT !.phase = "failed"]
        /\ UNCHANGED <<failures, sinceFail, healed>>
    BY <1>7 DEF ChainExhausted
  <2>2. req' \in Request /\ req'.phase = "failed" /\ req'.order = req.order
    <3>1. req' = [phase |-> "failed", order |-> req.order, model |-> req.model,
                  tries |-> req.tries, by |-> req.by]
      BY <1>0, <2>1 DEF Request
    <3> QED
      BY <1>0, <3>1, RequestFields, RequestOf DEF Phase
  <2>3. TypeOK'
    BY <2>1, <2>2 DEF TypeOK, ClientTypeOK, committeeVars
  <2> QED
    BY <2>1, <2>2, <2>3 DEF AgesAgree, CalledIsEligible, TurnOfAsked, Turn,
      LockedOrder, CycleLocked, Exhausting, GaveUp, committeeVars
<1> QED
  BY <1>1, <1>2, <1>3, <1>4, <1>5, <1>6, <1>7 DEF ClientStep

\* Time passes, or the providers heal.
LEMMA OutsideIInv ==
  ASSUME IInv, Outside
  PROVE  IInv'
<1> USE DEF IInv
<1>1. CASE Tick /\ UNCHANGED committeeVars
  <2>0. failures \in Circuits
    BY DEF TypeOK, ClientTypeOK, Circuits
  <2>1. /\ failures' = [p \in DOMAIN failures |-> Older(failures[p])]
        /\ sinceFail' = [p \in Provider |-> Older(sinceFail[p])]
        /\ UNCHANGED <<req, healed>>
    BY <1>1 DEF Tick
  <2>2. \A a \in 0 .. ResetAge : Older(a) \in 0 .. ResetAge
    BY ClientAssumption DEF Older
  <2>3. PICK S \in SUBSET Provider : failures \in [S -> 0 .. ResetAge]
    BY <2>0 DEF Circuits
  <2>4. failures' \in [S -> 0 .. ResetAge] /\ failures' \in Circuits
    BY <2>1, <2>2, <2>3 DEF Circuits
  <2>5. sinceFail' \in [Provider -> 0 .. ResetAge]
    BY <2>1, <2>2 DEF TypeOK, ClientTypeOK
  <2>6. TypeOK'
    BY <1>1, <2>1, <2>4, <2>5 DEF TypeOK, ClientTypeOK, Circuits, committeeVars
  <2>7. Older(ResetAge) = ResetAge
    BY ClientAssumption DEF Older
  <2>8. AgesAgree'
    BY <2>1, <2>3, <2>7 DEF AgesAgree
  <2>9. DOMAIN failures' = DOMAIN failures
    BY <2>1
  <2> QED
    BY <1>1, <2>1, <2>6, <2>8, <2>9 DEF CalledIsEligible, TurnOfAsked, Turn, LockedOrder,
      CycleLocked, Exhausting, GaveUp, committeeVars
<1>2. CASE Heal /\ UNCHANGED committeeVars
  BY <1>2 DEF Heal, TypeOK, ClientTypeOK, AgesAgree, CalledIsEligible, TurnOfAsked, Turn,
    LockedOrder, CycleLocked, Exhausting, GaveUp, committeeVars
<1> QED
  BY <1>1, <1>2 DEF Outside

-----------------------------------------------------------------------------
\* Votes and reports.

\* Dividing a natural number leaves one.
LEMMA QuotientIsNat ==
  ASSUME NEW a \in Nat, NEW b \in Nat, b > 0
  PROVE  a \div b \in Nat
OBVIOUS

\* What the desk votes is a ballot: a side with 50 percent or more, or waiting.
LEMMA DeskVoteIsBallot ==
  ASSUME NEW bullish \in Nat, NEW bearish \in Nat, NEW some \in BOOLEAN
  PROVE  DeskVote(bullish, bearish, some) \in Ballot
<1> DEFINE total == bullish + bearish
           net == bullish - bearish
           Sure(n) == IF 50 + (40 * n) \div total < 90 THEN 50 + (40 * n) \div total ELSE 90
<1>1. total \in Nat /\ net \in Int
  OBVIOUS
<1>2. ASSUME total > 0, NEW n \in Nat PROVE Sure(n) \in Percent
  <2>1. (40 * n) \div total \in Nat
    <3>1. 40 * n \in Nat
      OBVIOUS
    <3> QED
      BY <1>1, <1>2, <3>1, QuotientIsNat
  <2> QED
    BY <2>1 DEF Percent
<1>3. \/ DeskVote(bullish, bearish, some) \in {[direction |-> "WAIT", confidence |-> n] : n \in {30, 40}}
      \/ total > 0 /\ net \in Nat /\ DeskVote(bullish, bearish, some) = [direction |-> "BUY", confidence |-> Sure(net)]
      \/ total > 0 /\ -net \in Nat /\ DeskVote(bullish, bearish, some) = [direction |-> "SELL", confidence |-> Sure(-net)]
  BY DEF DeskVote
<1> HIDE DEF Sure
<1> QED
  BY <1>2, <1>3 DEF Ballot, Direction, Percent

\* A direction's share is at most the sum of the weights.
LEMMA ShareBounded ==
  ASSUME NEW cast, \A m \in Member : cast[m].confidence \in Percent,
         NEW d \in Direction
  PROVE  Share(cast, d) \in Nat /\ Share(cast, d) <= 10000
<1> DEFINE c(m) == IF cast[m].direction = d THEN cast[m].confidence ELSE 0
<1>1. Weight[1] = 25 /\ Weight[2] = 30 /\ Weight[3] = 25 /\ Weight[4] = 20
  BY DEF Weight, Member
<1>2. \A m \in Member : c(m) \in Nat /\ c(m) <= 100
  BY DEF Percent
<1>3. /\ Part(cast, d, 1) = c(1) * 25 /\ Part(cast, d, 2) = c(2) * 30
      /\ Part(cast, d, 3) = c(3) * 25 /\ Part(cast, d, 4) = c(4) * 20
  BY <1>1, <1>2 DEF Part, Member
<1>4. Share(cast, d) = c(1) * 25 + c(2) * 30 + c(3) * 25 + c(4) * 20
  BY <1>3 DEF Share
<1>5. /\ c(1) \in Nat /\ c(2) \in Nat /\ c(3) \in Nat /\ c(4) \in Nat
      /\ c(1) <= 100 /\ c(2) <= 100 /\ c(3) <= 100 /\ c(4) <= 100
  BY <1>2 DEF Member
<1> HIDE DEF c
<1> QED
  BY <1>4, <1>5

\* Rounding to whole percent keeps a bound that is a whole percent.
LEMMA RoundedBounded ==
  ASSUME NEW bound \in Nat, NEW share \in Nat, share <= 100 * bound
  PROVE  Rounded(share) \in Nat /\ Rounded(share) <= bound
<1> DEFINE q == share \div 100
           r == share % 100
<1>1. q \in Nat /\ r \in 0 .. 99 /\ share = 100 * q + r
  OBVIOUS
<1>2. Rounded(share) \in {q, q + 1} /\ (Rounded(share) = q + 1 => r >= 50)
  BY <1>1 DEF Rounded
<1> HIDE DEF q, r
<1> QED
  BY <1>1, <1>2

\* A report is at most 95 percent sure, whatever was voted.
LEMMA ReportBounded ==
  ASSUME NEW cast, \A m \in Member : cast[m].confidence \in Percent
  PROVE  Report(cast).confidence \in 0 .. 95
<1>1. Best(cast) \in Direction
  BY DEF Best, Direction
<1>2. Share(cast, Best(cast)) \in Nat
  BY <1>1, ShareBounded
<1>3. Confidence(cast) \in Nat /\ Confidence(cast) <= 100 * 95
  BY <1>2 DEF Confidence, Capped
<1>4. Report(cast).confidence = Rounded(Confidence(cast))
  BY DEF Report
<1>5. Rounded(Confidence(cast)) \in Nat /\ Rounded(Confidence(cast)) <= 95
  <2> DEFINE bound == 95
  <2>1. bound \in Nat /\ Confidence(cast) <= 100 * bound
    BY <1>3
  <2> HIDE DEF bound
  <2>2. Rounded(Confidence(cast)) \in Nat /\ Rounded(Confidence(cast)) <= bound
    BY <1>3, <2>1, RoundedBounded
  <2> QED
    BY <2>2 DEF bound
<1> QED
  BY <1>4, <1>5

\* A vote cast is a vote.
LEMMA CastVote ==
  ASSUME NEW b \in Ballot, NEW p \in Provider \cup {Deterministic, Fallback}
  PROVE  Cast(b, p) \in Vote /\ Cast(b, p).provider = p
BY DEF Cast, Ballot, Vote

\* One more vote leaves the others as they are.
LEMMA VoteAdded ==
  ASSUME NEW v \in Vote, votes \in Seq(Vote), Len(votes) < 4, votes' = Append(votes, v)
  PROVE  /\ votes' \in Seq(Vote) /\ Len(votes') = Len(votes) + 1 /\ Len(votes') <= 4
         /\ votes'[Len(votes')] = v
         /\ \A m \in 1 .. Len(votes) : votes'[m] = votes[m]
BY AppendProperties

\* There are never more than four votes, and whose turn it is tells how many.
LEMMA VotesCounted ==
  ASSUME TypeOK
  PROVE  /\ votes \in Seq(Vote) /\ Len(votes) \in Nat /\ Len(votes) <= 4
         /\ Turn \in AIMember => Len(votes) \in 1 .. 3
         /\ Turn \notin Member => Len(votes) = 4
<1>1. votes \in Seq(Vote) /\ Len(votes) <= 4
  BY DEF TypeOK
<1>2. Len(votes) \in Nat
  BY <1>1, LenProperties
<1> DEFINE n == Len(votes)
<1>3. n \in Nat /\ n <= 4
  BY <1>1, <1>2
<1>4. Turn = n + 1
  BY DEF Turn
<1> HIDE DEF n
<1>5. n + 1 \in 2 .. 4 => n \in 1 .. 3
  BY <1>3
<1>6. n + 1 \notin 1 .. 4 => n = 4
  BY <1>3
<1>7. /\ Turn \in AIMember => n \in 1 .. 3
      /\ Turn \notin Member => n = 4
  BY <1>4, <1>5, <1>6 DEF AIMember, Member
<1> QED
  BY <1>1, <1>2, <1>7 DEF n

\* A request taken back is one too.
LEMMA NoRequestIsRequest == NoRequest \in Request
<1>1. "idle" \in Phase /\ <<>> \in Seq(Provider) /\ 0 \in 0 .. HttpRetries
  BY ClientAssumption DEF Phase
<1> QED
  BY <1>1, RequestOf DEF NoRequest

\* A deliberation starts without votes and without a request.
LEMMA DeliberateIInv ==
  ASSUME IInv, NEW deep \in BOOLEAN, Deliberate(deep)
  PROVE  IInv'
<1> USE DEF IInv
<1>1. /\ stage = "concluded"
      /\ chain' = ProviderChain(deep) /\ at' = 1
      /\ stage' = IF chain' = <<>> THEN "unlocked" ELSE "locked"
      /\ tooLong' \in Contexts /\ votes' = <<>>
      /\ UNCHANGED <<report, failures, req, sinceFail, healed>>
  BY DEF Deliberate
<1>2. req.phase = "idle"
  BY <1>1 DEF TurnOfAsked
<1>3. chain' \in Seq(Provider)
  BY <1>1, ChainType
<1>4. desk' \in Ballot
  <2>1. PICK d \in Desks : desk' = DeskVote(d.bullish, d.bearish, d.some)
    BY DEF Deliberate
  <2>2. d.bullish \in Nat /\ d.bearish \in Nat /\ d.some \in BOOLEAN
    BY CommitteeAssumption
  <2> QED
    BY <2>1, <2>2, DeskVoteIsBallot
<1>5. TypeOK'
  <2>1. tooLong' \subseteq AIMember
    BY <1>1, CommitteeAssumption
  <2>2. votes' \in Seq(Vote) /\ Len(votes') <= 4
    BY <1>1
  <2> QED
    BY <1>1, <1>3, <1>4, <2>1, <2>2 DEF TypeOK, ClientTypeOK
<1>6. LockedOrder'
  <2>1. stage' = "locked" => at' \in 1 .. Len(chain')
    BY <1>1, <1>3, EmptySeq, LenProperties
  <2> QED
    BY <1>1, <1>2, <2>1 DEF LockedOrder
<1>7. CycleLocked' /\ GaveUp'
  <2>1. 2 .. Len(votes') = {}
    BY <1>1
  <2> QED
    BY <2>1 DEF CycleLocked, GaveUp
<1> QED
  BY <1>1, <1>2, <1>5, <1>6, <1>7
  DEF AgesAgree, CalledIsEligible, TurnOfAsked, Exhausting

\* The desk's own vote asks nobody.
LEMMA AnchorIInv ==
  ASSUME IInv, AnchorVotes
  PROVE  IInv'
<1> USE DEF IInv
<1>1. /\ stage # "concluded" /\ Turn = Anchor
      /\ votes' = Append(votes, Cast(desk, Deterministic))
      /\ UNCHANGED <<stage, chain, at, desk, tooLong, report, failures, req, sinceFail, healed>>
  BY DEF AnchorVotes
<1>2. votes \in Seq(Vote) /\ Len(votes) = 0
  BY <1>1 DEF Turn, Anchor, TypeOK
<1>3. req.phase = "idle"
  BY <1>1 DEF TurnOfAsked, Anchor, AIMember
<1>4. Cast(desk, Deterministic) \in Vote
  BY CastVote DEF TypeOK
<1>5. votes' \in Seq(Vote) /\ Len(votes') = 1
  BY <1>1, <1>2, <1>4, VoteAdded
<1>6. TypeOK'
  BY <1>1, <1>5 DEF TypeOK, ClientTypeOK
<1>7. CycleLocked' /\ GaveUp'
  <2>1. 2 .. Len(votes') = {}
    BY <1>5
  <2> QED
    BY <2>1 DEF CycleLocked, GaveUp
<1> QED
  BY <1>1, <1>3, <1>6, <1>7
  DEF AgesAgree, CalledIsEligible, TurnOfAsked, LockedOrder, Exhausting

\* In a locked cycle a request names no provider but the locked one.
LEMMA AskIInv ==
  ASSUME IInv, AskMember
  PROVE  IInv'
<1> USE DEF IInv
<1> DEFINE order == RequestOrder(LockedProvider, FALSE, Preferred)
<1>1. /\ stage # "concluded" /\ Turn \in AIMember \ tooLong
      /\ req.phase = "idle"
      /\ req' = [NoRequest EXCEPT !.phase = "choosing", !.order = order]
      /\ UNCHANGED <<failures, sinceFail, healed>> /\ UNCHANGED committeeVars
  BY DEF AskMember, StartRequest
<1>2. stage = "locked" => /\ at \in 1 .. Len(chain) /\ chain[at] \in Provider
                          /\ LockedProvider = chain[at]
  <2>1. stage = "locked" => at \in 1 .. Len(chain) /\ chain \in Seq(Provider)
    BY DEF LockedOrder, TypeOK
  <2> QED
    BY <2>1, ElementOfSeq DEF LockedProvider
<1>3. stage # "locked" => LockedProvider = NoProvider
  BY DEF LockedProvider
<1>4. order \in Seq(Provider)
  BY <1>2, <1>3, LockedRequest, UnlockedRequest
<1>5. stage = "locked" => order \in Seq({chain[at]})
  BY <1>2, LockedRequest
<1>6. stage = "unlocked" => Elements(Configured) \subseteq Elements(order)
  BY <1>3, UnlockedRequest DEF Elements
<1> HIDE DEF order
<1>7. req' \in Request /\ req'.phase = "choosing" /\ req'.order = order
  <2>1. req' = [phase |-> "choosing", order |-> order, model |-> 1, tries |-> 0,
                by |-> NoProvider]
    BY <1>1 DEF NoRequest
  <2>2. req' \in Request
    <3>1. "choosing" \in Phase /\ 1 \in Nat /\ 0 \in 0 .. HttpRetries
      BY ClientAssumption DEF Phase
    <3> QED
      BY <1>4, <2>1, <3>1, RequestOf
  <2> QED
    BY <2>1, <2>2
<1>8. TypeOK'
  BY <1>1, <1>7 DEF TypeOK, ClientTypeOK, committeeVars
<1>9. Exhausting'
  BY <1>1, <1>6, <1>7 DEF Exhausting, Callable, committeeVars
<1>10. GaveUp'
  BY <1>1, <1>7 DEF GaveUp, committeeVars
<1>11. LockedOrder'
  BY <1>1, <1>2, <1>5, <1>7 DEF LockedOrder, committeeVars
<1> QED
  BY <1>1, <1>7, <1>8, <1>9, <1>10, <1>11
  DEF AgesAgree, CalledIsEligible, TurnOfAsked, Turn, CycleLocked, committeeVars

\* A vote names the provider that was called.
LEMMA MemberVotesIInv ==
  ASSUME IInv, MemberVotes
  PROVE  IInv'
<1> USE DEF IInv
<1>1. /\ req.phase = "answered" /\ req' = NoRequest
      /\ UNCHANGED <<stage, chain, at, desk, tooLong, report, failures, sinceFail, healed>>
  BY DEF MemberVotes, Release
<1>2. PICK b \in Ballots : votes' = Append(votes, Cast(b, req.by))
  BY DEF MemberVotes
<1>3. req.by \in Provider /\ req.by = Head(req.order) /\ req.order # <<>>
  BY <1>1, ClientAssumption DEF CalledIsEligible
<1>4. Cast(b, req.by) \in Vote /\ Cast(b, req.by).provider = req.by
  BY <1>3, CastVote, CommitteeAssumption
<1>5. votes \in Seq(Vote) /\ Len(votes) \in 1 .. 3
  <2>1. Turn \in AIMember
    BY <1>1 DEF TurnOfAsked
  <2> QED
    BY <2>1, VotesCounted
<1>6. /\ votes' \in Seq(Vote) /\ Len(votes') = Len(votes) + 1 /\ Len(votes') <= 4
      /\ votes'[Len(votes')] = Cast(b, req.by)
      /\ \A m \in 1 .. Len(votes) : votes'[m] = votes[m]
  BY <1>2, <1>4, <1>5, VoteAdded
<1>7. req'.phase = "idle" /\ req' \in Request
  BY <1>1, NoRequestIsRequest DEF NoRequest
<1>8. TypeOK'
  BY <1>1, <1>6, <1>7 DEF TypeOK, ClientTypeOK
<1>9. CycleLocked'
  <2> SUFFICES ASSUME stage = "locked", NEW m \in 2 .. Len(votes')
               PROVE  votes'[m].provider = chain[at]
    BY <1>1 DEF CycleLocked
  <2>1. CASE m = Len(votes')
    <3>1. req.order \in Seq({chain[at]})
      BY <1>1 DEF LockedOrder
    <3>2. Head(req.order) = chain[at]
      BY <1>3, <3>1, HeadAndTail
    <3> QED
      BY <1>3, <1>4, <1>6, <2>1, <3>2
  <2>2. CASE m # Len(votes')
    <3>1. m \in 2 .. Len(votes)
      BY <1>5, <1>6, <2>2
    <3> QED
      BY <1>5, <1>6, <3>1 DEF CycleLocked
  <2> QED
    BY <2>1, <2>2
<1>10. GaveUp'
  <2>1. Len(votes') \in 2 .. Len(votes') /\ votes'[Len(votes')].provider \in Provider
    BY <1>3, <1>4, <1>5, <1>6
  <2> QED
    BY <2>1 DEF GaveUp
<1> QED
  BY <1>1, <1>7, <1>8, <1>9, <1>10
  DEF AgesAgree, CalledIsEligible, TurnOfAsked, LockedOrder, Exhausting

\* A locked cycle that fails is forgotten whole.
LEMMA CycleFailsIInv ==
  ASSUME IInv, CycleFails
  PROVE  IInv'
<1> USE DEF IInv
<1>1. /\ stage = "locked" /\ votes' = <<>> /\ req' = NoRequest
      /\ IF at < Len(chain) THEN at' = at + 1 /\ stage' = "locked"
                            ELSE at' = at /\ stage' = "unlocked"
      /\ UNCHANGED <<chain, desk, tooLong, report, failures, sinceFail, healed>>
  BY DEF CycleFails, Release
<1>2. req'.phase = "idle" /\ req' \in Request
  BY <1>1, NoRequestIsRequest DEF NoRequest
<1>3. at \in 1 .. Len(chain) /\ Len(chain) \in Nat
  BY <1>1 DEF LockedOrder, TypeOK
<1>4. TypeOK'
  <2>1. votes' \in Seq(Vote) /\ Len(votes') <= 4
    BY <1>1
  <2>2. at' \in Nat \ {0} /\ stage' \in {"concluded", "locked", "unlocked"}
    BY <1>1, <1>3
  <2> QED
    BY <1>1, <1>2, <2>1, <2>2 DEF TypeOK, ClientTypeOK
<1>5. stage' = "locked" => at' \in 1 .. Len(chain')
  BY <1>1, <1>3
<1>6. CycleLocked' /\ GaveUp'
  <2>1. 2 .. Len(votes') = {}
    BY <1>1
  <2> QED
    BY <2>1 DEF CycleLocked, GaveUp
<1> QED
  BY <1>1, <1>2, <1>4, <1>5, <1>6
  DEF AgesAgree, CalledIsEligible, TurnOfAsked, LockedOrder, Exhausting

\* Only a member of the last round abstains, after its request failed or because
\* its prompt is too long.
LEMMA AbstainsIInv ==
  ASSUME IInv, MemberAbstains
  PROVE  IInv'
<1> USE DEF IInv
<1>1. /\ stage = "unlocked" /\ NoAnswer /\ req' = NoRequest
      /\ votes' = Append(votes, UnavailableVote(desk))
      /\ UNCHANGED <<stage, chain, at, desk, tooLong, report, failures, sinceFail, healed>>
  BY DEF MemberAbstains, Release
<1>2. Turn \in AIMember
  BY <1>1 DEF NoAnswer, TurnOfAsked, TypeOK
<1>3. votes \in Seq(Vote) /\ Len(votes) \in 1 .. 3 /\ Turn = Len(votes) + 1
  BY <1>2, VotesCounted DEF Turn
<1>4. UnavailableVote(desk) \in Vote
  <2>1. [direction |-> "WAIT", confidence |-> 30] \in Ballot
    BY DEF Ballot, Direction, Percent
  <2> QED
    BY <2>1, CastVote DEF UnavailableVote
<1>5. /\ votes' \in Seq(Vote) /\ Len(votes') = Len(votes) + 1 /\ Len(votes') <= 4
      /\ \A m \in 1 .. Len(votes) : votes'[m] = votes[m]
  BY <1>1, <1>3, <1>4, VoteAdded
<1>6. req'.phase = "idle" /\ req' \in Request
  BY <1>1, NoRequestIsRequest DEF NoRequest
<1>7. TypeOK'
  BY <1>1, <1>5, <1>6 DEF TypeOK, ClientTypeOK
<1>8. CycleLocked'
  BY <1>1 DEF CycleLocked
<1>9. GaveUp'
  <2> SUFFICES ASSUME NEW n \in (2 .. Len(votes')) \ tooLong,
                      \A m \in 2 .. Len(votes') : votes'[m].provider \notin Provider
               PROVE  Callable \subseteq DOMAIN failures
    BY <1>1 DEF GaveUp
  <2>1. CASE req.phase = "failed"
    <3>1. Callable \subseteq DOMAIN failures \cup Elements(req.order) /\ req.order = <<>>
      BY <1>1, <2>1 DEF Exhausting, CalledIsEligible
    <3>2. Elements(<<>>) = {}
      BY DEF Elements
    <3> QED
      BY <3>1, <3>2
  <2>2. CASE req.phase = "idle" /\ Turn \in tooLong
    <3>1. n \in (2 .. Len(votes)) \ tooLong
      BY <1>3, <1>5, <2>2
    <3>2. \A m \in 2 .. Len(votes) : votes[m].provider \notin Provider
      BY <1>3, <1>5
    <3> QED
      BY <1>1, <2>2, <3>1, <3>2 DEF GaveUp
  <2> QED
    BY <1>1, <2>1, <2>2 DEF NoAnswer
<1> QED
  BY <1>1, <1>6, <1>7, <1>8, <1>9
  DEF AgesAgree, CalledIsEligible, TurnOfAsked, LockedOrder, Exhausting

\* The report leaves the votes as they are.
LEMMA ConcludeIInv ==
  ASSUME IInv, Conclude
  PROVE  IInv'
<1> USE DEF IInv
<1>1. /\ stage # "concluded" /\ Turn \notin Member
      /\ report' = Report(votes) /\ stage' = "concluded"
      /\ UNCHANGED <<chain, at, desk, tooLong, votes, failures, req, sinceFail, healed>>
  BY DEF Conclude
<1>2. req.phase = "idle"
  BY <1>1 DEF TurnOfAsked, AIMember, Member
<1>3. \A m \in Member : votes[m] \in Vote
  <2>1. votes \in Seq(Vote) /\ Len(votes) = 4
    BY <1>1, VotesCounted
  <2> QED
    BY <2>1, ElementOfSeq DEF Member
<1>4. report'.confidence \in Percent
  <2>1. \A m \in Member : votes[m].confidence \in Percent
    BY <1>3 DEF Vote
  <2>2. Report(votes).confidence \in 0 .. 95
    BY <2>1, ReportBounded
  <2> QED
    BY <1>1, <2>2 DEF Percent
<1>5. TypeOK'
  BY <1>1, <1>4 DEF TypeOK, ClientTypeOK
<1> QED
  BY <1>1, <1>2, <1>5
  DEF AgesAgree, CalledIsEligible, TurnOfAsked, LockedOrder, CycleLocked, Exhausting, GaveUp

\* Every step keeps the invariant.
LEMMA StepIInv == IInv /\ [Next]_vars => IInv'
<1> SUFFICES ASSUME IInv, [Next]_vars PROVE IInv'
  OBVIOUS
<1>1. ASSUME NEW deep \in BOOLEAN, Deliberate(deep) PROVE IInv'
  BY <1>1, DeliberateIInv
<1>2. CASE CommitteeStep
  BY <1>2, AnchorIInv, AskIInv, MemberVotesIInv, CycleFailsIInv, AbstainsIInv, ConcludeIInv,
     ClientIInv DEF CommitteeStep
<1>3. CASE Outside
  BY <1>3, OutsideIInv
<1>4. CASE UNCHANGED vars
  BY <1>4 DEF vars, IInv, TypeOK, ClientTypeOK, AgesAgree, CalledIsEligible, TurnOfAsked, Turn,
     LockedOrder, CycleLocked, Exhausting, GaveUp
<1> QED
  BY <1>1, <1>2, <1>3, <1>4 DEF Next

-----------------------------------------------------------------------------
\* The inductive invariant holds in every reachable state.
LEMMA Reachable == Spec => []IInv
BY InitIInv, StepIInv, PTL DEF Spec

\* deliberate: a cycle is one provider's.  While a provider is locked, no vote
\* beside the anchor's comes from another or from nobody, whatever circuits
\* open, expire or are deleted between the members' calls.
THEOREM CyclesAreWhole == Spec => []CycleLocked
<1>1. IInv => CycleLocked
  BY DEF IInv
<1> QED
  BY <1>1, Reachable, PTL

\* _circuit_open: no completion, of this or a later deliberation, calls a
\* provider that failed less than ResetAge ticks ago.
THEOREM CircuitsRespected == Spec => CircuitRespected
<1>1. IInv /\ [Next]_vars
        => [req.phase = "choosing" /\ req'.phase = "calling"
              => sinceFail[Head(req.order)] = ResetAge]_vars
  <2> SUFFICES ASSUME IInv, Next, req.phase = "choosing", req'.phase = "calling"
               PROVE  sinceFail[Head(req.order)] = ResetAge
    OBVIOUS
  <2>1. req' # req
    OBVIOUS
  <2>2. CASE CallProvider
    <3> DEFINE p == Head(req.order)
    <3>1. failures \in Circuits /\ req.order \in Seq(Provider) /\ req.order # <<>>
      BY <2>2, RequestFields DEF CallProvider, IInv, TypeOK, ClientTypeOK, Circuits
    <3>2. p \in Provider /\ ~CircuitOpen(p)
      BY <2>2, <3>1, HeadAndTail DEF CallProvider
    <3>3. \A q \in DOMAIN failures : failures[q] \in 0 .. ResetAge
      BY <3>1, <3>2, CircuitUpdates
    <3> QED
      BY <3>2, <3>3, ClientAssumption DEF IInv, AgesAgree, CircuitOpen, Expired
  <2>3. CASE SkipProvider \/ ChainExhausted
    <3>1. req'.phase \in {"choosing", "failed"}
      BY <2>3, RequestFields
      DEF SkipProvider, ChainExhausted, IInv, TypeOK, ClientTypeOK, Request
    <3> QED
      BY <3>1
  <2>4. CASE ValidReply \/ UnusableReply \/ HttpRetry \/ HttpExhausted
    BY <2>4 DEF ValidReply, UnusableReply, HttpRetry, HttpExhausted
  <2>5. CASE MemberVotes \/ CycleFails \/ MemberAbstains
    BY <2>5 DEF MemberVotes, CycleFails, MemberAbstains, Release, NoRequest
  <2>6. CASE AskMember
    BY <2>6 DEF AskMember, StartRequest
  <2>7. CASE AnchorVotes \/ Conclude \/ \E deep \in BOOLEAN : Deliberate(deep)
    BY <2>1, <2>7 DEF AnchorVotes, Conclude, Deliberate
  <2>8. CASE Outside
    BY <2>1, <2>8 DEF Outside, Tick, Heal
  <2> QED
    BY <2>2, <2>3, <2>4, <2>5, <2>6, <2>7, <2>8 DEF Next, CommitteeStep, ClientStep
<1> QED
  BY <1>1, Reachable, PTL DEF Spec, CircuitRespected

\* deliberate and complete: a new report without any AI vote, in a deliberation
\* where some member could ask, means that every provider the client would call
\* has failed.
THEOREM FallbackMeansExhaustion == Spec => FallbackOnlyAfterExhaustion
<1> DEFINE Fell == /\ report' # report /\ report'.provider = "deterministic_fallback"
                   /\ tooLong # AIMember
           Failed == \A p \in {Configured[i] : i \in DOMAIN Configured} \cap Enabled \cap Supported :
                       p \in DOMAIN failures
<1>1. IInv /\ [Next]_vars => [Fell => Failed]_vars
  <2> SUFFICES ASSUME IInv, Next, Fell PROVE Failed
    OBVIOUS
  <2>1. CASE Conclude
    <3>1. /\ stage # "concluded" /\ Turn \notin Member
          /\ report' = Report(votes) /\ report'.provider = "deterministic_fallback"
      BY <2>1 DEF Conclude
    <3>2. Len(votes) = 4 /\ req.phase = "idle"
      BY <3>1, VotesCounted DEF IInv, TurnOfAsked, AIMember, Member
    <3>3. \A m \in Member : votes[m].provider \notin Provider
      BY <3>1, CommitteeAssumption DEF Report, HasAI
    <3>4. stage = "unlocked"
      <4> SUFFICES ASSUME stage = "locked" PROVE FALSE
        BY <3>1 DEF IInv, TypeOK
      <4>1. chain[at] \in Provider
        BY ElementOfSeq DEF IInv, TypeOK, LockedOrder
      <4>2. votes[2].provider = chain[at]
        BY <3>2 DEF IInv, CycleLocked
      <4> QED
        BY <3>3, <4>1, <4>2 DEF Member
    <3>5. (2 .. Len(votes)) \ tooLong # {}
      <4>1. tooLong \subseteq AIMember /\ tooLong # AIMember
        BY DEF IInv, TypeOK
      <4>2. 2 .. Len(votes) = AIMember
        BY <3>2 DEF AIMember
      <4> QED
        BY <4>1, <4>2
    <3>6. \A m \in 2 .. Len(votes) : votes[m].provider \notin Provider
      BY <3>2, <3>3 DEF Member
    <3>7. \A p \in Callable : p \in DOMAIN failures
      BY <3>2, <3>4, <3>5, <3>6 DEF IInv, GaveUp
    <3> QED
      BY <3>7 DEF Callable, Elements
  <2>2. CASE \/ AnchorVotes \/ AskMember \/ MemberVotes \/ CycleFails \/ MemberAbstains
             \/ Outside \/ \E deep \in BOOLEAN : Deliberate(deep)
             \/ ClientStep /\ UNCHANGED committeeVars
    BY <2>2 DEF AnchorVotes, AskMember, MemberVotes, CycleFails, MemberAbstains, Outside,
      Deliberate, committeeVars
  <2> QED
    BY <2>1, <2>2 DEF Next, CommitteeStep
<1> QED
  BY <1>1, Reachable, PTL DEF Spec, FallbackOnlyAfterExhaustion

\* Types and bounds: a request only ever has providers before it, no
\* circuit is older than ResetAge, and the report is within its range.
THEOREM CommitteeTypes == Spec => []TypeOK
<1>1. IInv => TypeOK
  BY DEF IInv
<1> QED
  BY <1>1, Reachable, PTL
==============================================================================
