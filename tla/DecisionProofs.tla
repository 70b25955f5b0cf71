----------------------------- MODULE DecisionProofs -----------------------------
(***************************************************************************)
(* What a cycle decides and what the modes make of it, for every set of    *)
(* features, macro series, flows, articles and answers of the models, and  *)
(* not only for those of the run.                                          *)
(*                                                                         *)
(* The stages of a cycle are functions of what was collected, so the       *)
(* inductive invariant only says that each stage's result is what its      *)
(* inputs make it (IInv).  The argument is in the lemmas: what each of the *)
(* six engines guarantees of its report (Bundles), and what of that the    *)
(* decision engine, the committee and the policy keep.                     *)
(***************************************************************************)
EXTENDS Decision, FiniteSetTheorems, SequenceTheorems, TLAPS

\* What the engines guarantee of the severities they report: how many, and a
\* grave one when the prices or the macro data are missing or an event is near.
RisksOK(b) ==
  /\ DOMAIN b = Engine
  /\ \A e \in Engine : b[e].risks \in Seq(Severity)
  /\ \A e \in Engine \ {"fundamental"} : Len(b[e].risks) <= 1
  /\ Len(b["fundamental"].risks) <= 4

MissingIsGrave(b) ==
  /\ b["technical"].status # "SUCCESS" => SeqRange(b["technical"].risks) \cap Grave # {}
  /\ b["fundamental"].status # "SUCCESS" \/ b["fundamental"].events # 0 =>
       SeqRange(b["fundamental"].risks) \cap Grave # {}

-----------------------------------------------------------------------------
\* Lists of risks.

\* A list of one severity.
LEMMA OneRisk ==
  ASSUME NEW s \in Severity
  PROVE  /\ <<s>> \in Seq(Severity) /\ Len(<<s>>) = 1 /\ SeqRange(<<s>>) = {s}
BY DEF SeqRange

\* What two lists hold, put one after the other.
LEMMA Joined ==
  ASSUME NEW S, NEW s \in Seq(S), NEW t \in Seq(S)
  PROVE  /\ s \o t \in Seq(S) /\ Len(s \o t) = Len(s) + Len(t)
         /\ SeqRange(s \o t) = SeqRange(s) \cup SeqRange(t)
<1> DEFINE u == s \o t
           m == Len(s)
           n == Len(t)
<1>1. m \in Nat /\ n \in Nat /\ DOMAIN s = 1 .. m /\ DOMAIN t = 1 .. n
  BY LenProperties
<1>2. /\ u \in Seq(S) /\ Len(u) = m + n
      /\ \A i \in 1 .. m + n : u[i] = IF i <= m THEN s[i] ELSE t[i - m]
  BY ConcatProperties
<1>3. DOMAIN u = 1 .. m + n
  BY <1>2, LenProperties
<1> HIDE DEF u, m, n
<1>4. ASSUME NEW i \in 1 .. m + n PROVE u[i] \in SeqRange(s) \cup SeqRange(t)
  <2>1. CASE i <= m
    <3>1. i \in 1 .. m /\ u[i] = s[i]
      BY <1>1, <1>2, <2>1
    <3> QED
      BY <1>1, <3>1 DEF SeqRange
  <2>2. CASE ~(i <= m)
    <3>1. i - m \in 1 .. n /\ u[i] = t[i - m]
      BY <1>1, <1>2, <2>2
    <3> QED
      BY <1>1, <3>1 DEF SeqRange
  <2> QED
    BY <2>1, <2>2
<1>5. ASSUME NEW i \in 1 .. m PROVE s[i] \in SeqRange(u)
  <2>1. i \in 1 .. m + n /\ u[i] = s[i]
    BY <1>1, <1>2
  <2> QED
    BY <1>3, <2>1 DEF SeqRange
<1>6. ASSUME NEW i \in 1 .. n PROVE t[i] \in SeqRange(u)
  <2>1. m + i \in 1 .. m + n /\ u[m + i] = t[i]
    <3>1. m + i \in 1 .. m + n /\ ~(m + i <= m) /\ (m + i) - m = i
      BY <1>1
    <3> QED
      BY <1>2, <3>1
  <2> QED
    BY <1>3, <2>1 DEF SeqRange
<1>7. SeqRange(u) = SeqRange(s) \cup SeqRange(t)
  BY <1>1, <1>3, <1>4, <1>5, <1>6 DEF SeqRange
<1> QED
  BY <1>2, <1>7 DEF u, m, n

\* The first of a list: all that was in its beginning is.
LEMMA Beginning ==
  ASSUME NEW S, NEW s \in Seq(S), NEW t \in Seq(S), Len(s) <= 10
  PROVE  LET first == SubSeq(s \o t, 1, Smaller(10, Len(s \o t)))
         IN  /\ first \in Seq(S) /\ Len(first) <= 10
             /\ SeqRange(s) \subseteq SeqRange(first)
<1> DEFINE u == s \o t
           k == Smaller(10, Len(u))
           first == SubSeq(u, 1, k)
<1>1. Len(s) \in Nat /\ Len(t) \in Nat /\ DOMAIN s = 1 .. Len(s)
  BY LenProperties
<1>2. /\ u \in Seq(S) /\ Len(u) = Len(s) + Len(t)
      /\ \A i \in 1 .. Len(s) + Len(t) : u[i] = IF i <= Len(s) THEN s[i] ELSE t[i - Len(s)]
  BY ConcatProperties
<1> HIDE DEF u
<1>3. k \in Nat /\ k <= Len(u) /\ k <= 10 /\ Len(s) <= k
  BY <1>1, <1>2 DEF Smaller
<1> HIDE DEF k
<1>4. \A i \in 1 .. k : u[i] \in S
  BY <1>1, <1>2, <1>3, ElementOfSeq
<1>5. first \in Seq(S) /\ Len(first) = k /\ \A i \in 1 .. k : first[i] = u[i]
  BY <1>3, <1>4, SubSeqProperties
<1>6. DOMAIN first = 1 .. k
  BY <1>5, LenProperties
<1> HIDE DEF first
<1>7. ASSUME NEW i \in DOMAIN s PROVE s[i] \in SeqRange(first)
  <2>1. i \in 1 .. k /\ first[i] = s[i]
    BY <1>1, <1>2, <1>3, <1>5
  <2> QED
    BY <1>6, <2>1 DEF SeqRange
<1>8. SeqRange(s) \subseteq SeqRange(first)
  BY <1>7 DEF SeqRange
<1> QED
  BY <1>3, <1>5, <1>8 DEF first, k, u

-----------------------------------------------------------------------------
\* What the engines report.

\* The reports of a bundle, one by one.
Reported(b, market, macro, flow, wire, level) ==
  /\ DOMAIN b = Engine
  /\ b["technical"] = WithPullback(TechnicalAnalysis(market.f, market.stale), level)
  /\ b["fundamental"] = FundamentalAnalysis(macro.m, macro.size)
  /\ b["institutional"] = InstitutionalAnalysis(flow.cot, flow.etf)
  /\ b["news"] = NewsAnalysis(wire.fresh, wire.newsAI, wire.answer, wire.bullish, wire.bearish)
  /\ b["geopolitical"] = GeopoliticalAnalysis(wire.recent, wire.geoAI, wire.answer,
                                              wire.hits, wire.topics, wire.countries)
  /\ b["regime"] = RegimeAnalysis(TechnicalAnalysis(market.f, market.stale),
                                  b["fundamental"], b["news"], b["geopolitical"])

\* A bundle consists of the six reports.
LEMMA Reports ==
  ASSUME NEW market, NEW macro, NEW flow, NEW wire
  PROVE  \E level : Reported(Bundle(market, macro, flow, wire), market, macro, flow, wire, level)
BY DEF Bundle, Engine, Reported

\* No engine lists more severities than these, whatever it is given.
LEMMA BundleRisks ==
  ASSUME NEW market, NEW macro, NEW flow, NEW wire,
         NEW b, b = Bundle(market, macro, flow, wire)
  PROVE  RisksOK(b)
<1>0. PICK level : Reported(b, market, macro, flow, wire, level)
  BY Reports
<1>1. /\ <<>> \in Seq(Severity) /\ Len(<<>>) <= 1
      /\ \A s \in Severity : <<s>> \in Seq(Severity) /\ Len(<<s>>) <= 1
  BY EmptySeq
<1>2. "MEDIUM" \in Severity /\ "HIGH" \in Severity /\ "CRITICAL" \in Severity
  BY DEF Severity
<1>3. \A c : OnlyIf(c, "MEDIUM") \in Seq(Severity) /\ Len(OnlyIf(c, "MEDIUM")) <= 1
  BY <1>1, <1>2 DEF OnlyIf
<1>4. \A c : OnlyIf(c, "HIGH") \in Seq(Severity) /\ Len(OnlyIf(c, "HIGH")) <= 1
  BY <1>1, <1>2 DEF OnlyIf
<1>5. b["technical"].risks \in Seq(Severity) /\ Len(b["technical"].risks) <= 1
  <2> DEFINE t == TechnicalAnalysis(market.f, market.stale)
  <2>1. t.risks \in {<<"CRITICAL">>, <<"MEDIUM">>, <<>>}
    BY DEF TechnicalAnalysis, InsufficientData
  <2>2. b["technical"].risks = t.risks
    BY <1>0 DEF Reported, WithPullback, TechnicalAnalysis, InsufficientData
  <2> QED
    BY <1>1, <1>2, <2>1, <2>2
<1>6. b["fundamental"].risks \in Seq(Severity) /\ Len(b["fundamental"].risks) <= 4
  <2>1. PICK q, r, s, t :
          /\ {q, r, s, t} \subseteq {x \in Seq(Severity) : Len(x) <= 1}
          /\ b["fundamental"].risks = q \o r \o s \o t
    <3> DEFINE q0 == OnlyIf("DFII10" \notin DOMAIN macro.m.series, "HIGH")
               r0 == OnlyIf(macro.m.events > 0, "HIGH")
               s0 == OnlyIf(macro.m.observations = 0, "HIGH")
               t0 == OnlyIf(macro.size = 0, "MEDIUM")
    <3>1. b["fundamental"].risks = q0 \o r0 \o s0 \o t0
      <4>1. b["fundamental"] = FundamentalAnalysis(macro.m, macro.size)
        BY <1>0 DEF Reported
      <4>2. FundamentalAnalysis(macro.m, macro.size).risks = q0 \o r0 \o s0 \o t0
        BY DEF FundamentalAnalysis
      <4> QED
        BY <4>1, <4>2
    <3>2. {q0, r0, s0} \subseteq {<<>>, <<"HIGH">>} /\ t0 \in {<<>>, <<"MEDIUM">>}
      BY DEF OnlyIf
    <3> HIDE DEF q0, r0, s0, t0
    <3>3. {q0, r0, s0, t0} \subseteq {x \in Seq(Severity) : Len(x) <= 1}
      BY <1>1, <1>2, <3>2
    <3> QED
      BY <3>1, <3>3
  <2>2. q \o r \in Seq(Severity) /\ Len(q \o r) = Len(q) + Len(r)
    BY <2>1, Joined
  <2>3. q \o r \o s \in Seq(Severity) /\ Len(q \o r \o s) = Len(q \o r) + Len(s)
    BY <2>1, <2>2, Joined
  <2>4. q \o r \o s \o t \in Seq(Severity) /\ Len(q \o r \o s \o t) = Len(q \o r \o s) + Len(t)
    BY <2>1, <2>3, Joined
  <2>5. Len(q) \in Nat /\ Len(r) \in Nat /\ Len(s) \in Nat /\ Len(t) \in Nat
    BY <2>1, LenProperties
  <2> QED
    BY <2>1, <2>2, <2>3, <2>4, <2>5
<1>7. b["institutional"].risks \in Seq(Severity) /\ Len(b["institutional"].risks) <= 1
  BY <1>0, <1>3 DEF Reported, InstitutionalAnalysis
<1>8. b["news"].risks \in Seq(Severity) /\ Len(b["news"].risks) <= 1
  BY <1>0, <1>3 DEF Reported, NewsAnalysis
<1>9. b["geopolitical"].risks \in Seq(Severity) /\ Len(b["geopolitical"].risks) <= 1
  BY <1>0, <1>1, <1>2, <1>3 DEF Reported, GeopoliticalAnalysis
<1>10. b["regime"].risks \in Seq(Severity) /\ Len(b["regime"].risks) <= 1
  BY <1>0, <1>1, <1>2 DEF Reported, RegimeAnalysis
<1>11. DOMAIN b = Engine
  BY <1>0 DEF Reported
<1> QED
  BY <1>5, <1>6, <1>7, <1>8, <1>9, <1>10, <1>11 DEF RisksOK, Engine

\* Missing prices, missing macro data and a scheduled release are grave risks.
LEMMA BundleMissing ==
  ASSUME NEW market, NEW macro \in Macros, NEW flow, NEW wire,
         NEW b, b = Bundle(market, macro, flow, wire)
  PROVE  MissingIsGrave(b)
<1>0. PICK level : Reported(b, market, macro, flow, wire, level)
  BY Reports
<1>1. ASSUME b["technical"].status # "SUCCESS"
      PROVE  SeqRange(b["technical"].risks) \cap Grave # {}
  <2> DEFINE t == TechnicalAnalysis(market.f, market.stale)
  <2>1. b["technical"].status = t.status /\ b["technical"].risks = t.risks
    BY <1>0 DEF Reported, WithPullback, TechnicalAnalysis, InsufficientData
  <2>2. t.risks = <<"CRITICAL">>
    BY <1>1, <2>1 DEF TechnicalAnalysis, InsufficientData
  <2> QED
    BY <2>1, <2>2 DEF SeqRange, Grave
<1>2. ASSUME b["fundamental"].status # "SUCCESS" \/ b["fundamental"].events # 0
      PROVE  SeqRange(b["fundamental"].risks) \cap Grave # {}
  <2> DEFINE m == macro.m
             q == OnlyIf("DFII10" \notin DOMAIN m.series, "HIGH")
             r == OnlyIf(m.events > 0, "HIGH")
             s == OnlyIf(m.observations = 0, "HIGH")
             t == OnlyIf(macro.size = 0, "MEDIUM")
  <2>1. /\ b["fundamental"].risks = q \o r \o s \o t
        /\ b["fundamental"].events = m.events
        /\ b["fundamental"].status = IF m.observations > 0 THEN "SUCCESS" ELSE "PARTIAL_SUCCESS"
    <3>1. b["fundamental"] = FundamentalAnalysis(macro.m, macro.size)
      BY <1>0 DEF Reported
    <3>2. /\ FundamentalAnalysis(macro.m, macro.size).risks = q \o r \o s \o t
          /\ FundamentalAnalysis(macro.m, macro.size).events = m.events
          /\ FundamentalAnalysis(macro.m, macro.size).status
               = IF m.observations > 0 THEN "SUCCESS" ELSE "PARTIAL_SUCCESS"
      BY DEF FundamentalAnalysis
    <3> QED
      BY <3>1, <3>2
  <2>2. m.events \in Nat /\ m.observations \in Nat
    BY FeatureAssumption
  <2>3. m.events > 0 \/ m.observations = 0
    BY <1>2, <2>1, <2>2
  <2>4. /\ {q, r, s, t} \subseteq Seq(Severity)
        /\ m.events > 0 => SeqRange(r) = {"HIGH"}
        /\ m.observations = 0 => SeqRange(s) = {"HIGH"}
    <3>1. /\ {q, r, s} \subseteq {<<>>, <<"HIGH">>} /\ t \in {<<>>, <<"MEDIUM">>}
          /\ m.events > 0 => r = <<"HIGH">>
          /\ m.observations = 0 => s = <<"HIGH">>
      BY DEF OnlyIf
    <3>2. "HIGH" \in Severity /\ "MEDIUM" \in Severity
      BY DEF Severity
    <3> QED
      <4> HIDE DEF q, r, s, t
      <4>1. <<>> \in Seq(Severity) /\ <<"HIGH">> \in Seq(Severity) /\ <<"MEDIUM">> \in Seq(Severity)
        BY <3>2, EmptySeq
      <4>2. SeqRange(<<"HIGH">>) = {"HIGH"}
        BY <3>2, OneRisk
      <4> QED
        BY <3>1, <4>1, <4>2
  <2> HIDE DEF q, r, s, t
  <2>5. SeqRange(q \o r \o s \o t) = SeqRange(q) \cup SeqRange(r) \cup SeqRange(s) \cup SeqRange(t)
    <3>1. q \o r \in Seq(Severity) /\ SeqRange(q \o r) = SeqRange(q) \cup SeqRange(r)
      BY <2>4, Joined
    <3>2. q \o r \o s \in Seq(Severity) /\ SeqRange(q \o r \o s) = SeqRange(q \o r) \cup SeqRange(s)
      <4> DEFINE u == q \o r
      <4>1. u \in Seq(Severity) /\ s \in Seq(Severity)
        BY <2>4, <3>1
      <4> HIDE DEF u
      <4>2. u \o s \in Seq(Severity) /\ SeqRange(u \o s) = SeqRange(u) \cup SeqRange(s)
        BY <4>1, Joined
      <4> QED
        BY <4>2 DEF u
    <3>3. SeqRange(q \o r \o s \o t) = SeqRange(q \o r \o s) \cup SeqRange(t)
      <4> DEFINE u == q \o r \o s
      <4>1. u \in Seq(Severity) /\ t \in Seq(Severity)
        BY <2>4, <3>2
      <4> HIDE DEF u
      <4>2. SeqRange(u \o t) = SeqRange(u) \cup SeqRange(t)
        BY <4>1, Joined
      <4> QED
        BY <4>2 DEF u
    <3> QED
      BY <3>1, <3>2, <3>3
  <2> QED
    BY <2>1, <2>3, <2>4, <2>5 DEF Grave
<1> QED
  BY <1>1, <1>2 DEF MissingIsGrave

-----------------------------------------------------------------------------
\* How sure the engines are and how high they score.

\* Rounding gives a number of the same size.
LEMMA ClampBounded ==
  ASSUME NEW n \in Int
  PROVE  Clamp(n) \in Nat /\ Clamp(n) <= 100
BY DEF Clamp, Clip

\* Rounding an integer quotient gives an integer,
LEMMA NearestType ==
  ASSUME NEW n \in Int, NEW d \in Nat, d > 0
  PROVE  Nearest(n, d) \in Int
<1>1. n \div d \in Int
  OBVIOUS
<1> QED
  BY <1>1 DEF Nearest

\* and keeps a bound that is an integer.
LEMMA NearestBounded ==
  ASSUME NEW bound \in Nat, NEW d \in Nat, d > 0, NEW n \in Nat, n <= bound * d
  PROVE  Nearest(n, d) \in Nat /\ Nearest(n, d) <= bound
<1> DEFINE q == n \div d
           r == n % d
<1>1. q \in Nat /\ r \in Nat /\ r < d /\ n = q * d + r
  OBVIOUS
<1>2. Nearest(n, d) = IF 2 * r > d \/ (2 * r = d /\ q % 2 = 1) THEN q + 1 ELSE q
  BY DEF Nearest
<1> HIDE DEF q, r
<1>3. q <= bound
  <2>1. SUFFICES ASSUME q >= bound + 1 PROVE FALSE
    BY <1>1
  <2>2. q * d >= (bound + 1) * d
    BY <1>1, <2>1
  <2>3. (bound + 1) * d = bound * d + d
    OBVIOUS
  <2> QED
    BY <1>1, <2>2, <2>3
<1>4. q = bound => r = 0
  BY <1>1
<1> QED
  BY <1>1, <1>2, <1>3, <1>4

\* Cutting off gives an integer.
LEMMA TruncType ==
  ASSUME NEW a \in Int, NEW b \in Nat, b > 0
  PROVE  Trunc(a, b) \in Int
<1>1. a \div b \in Int /\ (-a) \div b \in Int
  OBVIOUS
<1> QED
  BY <1>1 DEF Trunc

\* The largest confidence and the largest score each engine can report.
Surest ==
  [e \in Engine |-> CASE e = "technical" -> 95 [] e = "institutional" -> 85 [] OTHER -> 90]
Highest ==
  [e \in Engine |-> CASE e = "fundamental" -> 88 [] e = "institutional" -> 65
                      [] e = "regime" -> 70 [] OTHER -> 100]

\* Signed amounts are amounts.
LEMMA SignedType == \A d : \A n \in Int : Signed(d, n) \in Int
BY DEF Signed

\* TechnicalEngine: the ranges of confidence and score, and what each bias says
\* of the score.
LEMMA TechnicalBounds ==
  ASSUME NEW market \in Markets, NEW t, t = TechnicalAnalysis(market.f, market.stale)
  PROVE  /\ t.confidence \in Nat /\ t.confidence <= 95
         /\ t.score \in Nat /\ t.score <= 100
         /\ t.bias = "BEARISH" => t.score <= 40
         /\ t.bias # "BULLISH" => t.score < 60
<1> DEFINE f == market.f
<1>1. /\ f.count \in Nat
      /\ f.close \in Int /\ f.spread \in Int /\ f.momentum \in Int /\ f.quality \in Int
      /\ f.per \in Nat /\ f.per > 0 /\ f.base \in Nat /\ f.base > 0
  BY FeatureAssumption
<1>2. CASE f.count < 5 \/ f.close <= 0
  <2>1. t = InsufficientData
    BY <1>2 DEF TechnicalAnalysis
  <2> QED
    BY <2>1 DEF InsufficientData
<1>3. CASE ~(f.count < 5 \/ f.close <= 0)
  <2>1. TechnicalConfidence(f) \in Nat /\ TechnicalConfidence(f) <= 95
    <3> HIDE DEF f
    <3> QED
      BY <1>1 DEF TechnicalConfidence, Smaller
  <2> DEFINE score == TechnicalScore(TrendScore(f), MomentumScore(f), f.quality,
                                     StructureAdjustment(f))
  <2>2. t.confidence = TechnicalConfidence(f) /\ t.score = score /\ t.bias = BiasFromScore(score)
    BY <1>3 DEF TechnicalAnalysis
  <2>3. score \in Nat /\ score <= 100
    <3> HIDE DEF f
    <3>1. TrendScore(f) \in Int
      <4>1. f.per * f.close \in Nat /\ f.per * f.close > 0
        BY <1>1, <1>3
      <4>2. 1000 * f.spread \in Int
        BY <1>1
      <4>3. Trunc(1000 * f.spread, f.per * f.close) \in Int
        BY <4>1, <4>2, TruncType
      <4>4. 50 + Trunc(1000 * f.spread, f.per * f.close) \in Int
        BY <4>3
      <4> QED
        BY <4>4, ClampBounded DEF TrendScore
    <3>2. MomentumScore(f) \in Int
      <4>1. Trunc(8 * f.momentum, f.base) \in Int
        BY <1>1, TruncType
      <4>2. 50 + Trunc(8 * f.momentum, f.base) \in Int
        BY <4>1
      <4> QED
        BY <4>2, ClampBounded DEF MomentumScore
    <3>3. StructureAdjustment(f) \in Int
      <4>1. \A d : /\ Signed(d, 12) \in Int /\ Signed(d, 5) \in Int /\ Signed(d, 3) \in Int
                   /\ Signed(d, 2) \in Int /\ Signed(d, 4) \in Int /\ Signed(d, 6) \in Int
        BY SignedType
      <4>2. /\ (IF f.gaps = <<>> THEN 0 ELSE Signed(f.gaps[Len(f.gaps)].direction, 5)) \in Int
            /\ (IF f.aligned THEN Signed(f.primary, 6) ELSE 0) \in Int
        BY <4>1
      <4>3. ZoneAmount(f.zone) \in Int
        BY DEF ZoneAmount
      <4> DEFINE a == Signed(f.structure, 12)
                 g == IF f.gaps = <<>> THEN 0 ELSE Signed(f.gaps[Len(f.gaps)].direction, 5)
                 h == IF f.aligned THEN Signed(f.primary, 6) ELSE 0
                 z == ZoneAmount(f.zone)
                 s(d, n) == Signed(d, n)
      <4>4. StructureAdjustment(f)
              = a + g + s(f.order, 5) + s(f.breaker, 3) + s(f.mitigation, 2) + s(f.sweep, 5)
                + z + s(f.vwap, 4) + s(f.volume, 4) + s(f.asian, 4) + h
        BY DEF StructureAdjustment
      <4>5. a \in Int /\ g \in Int /\ h \in Int /\ z \in Int
        BY <4>1, <4>2, <4>3
      <4> HIDE DEF a, g, h, z
      <4> QED
        BY <4>1, <4>4, <4>5
    <3> DEFINE n == 32 * TrendScore(f) + 24 * MomentumScore(f) + 14 * f.quality + 2000
                    + 100 * StructureAdjustment(f)
               d == 100
    <3>4. n \in Int /\ d \in Nat /\ d > 0
      BY <1>1, <3>1, <3>2, <3>3
    <3>5. score = Clamp(Nearest(n, d))
      BY DEF TechnicalScore
    <3> HIDE DEF n, d
    <3>6. Nearest(n, d) \in Int
      BY <3>4, NearestType
    <3> QED
      BY <3>5, <3>6, ClampBounded
  <2> HIDE DEF score
  <2> QED
    BY <2>1, <2>2, <2>3 DEF BiasFromScore
<1> QED
  BY <1>2, <1>3

\* FundamentalEngine: the same.
LEMMA FundamentalBounds ==
  ASSUME NEW macro \in Macros, NEW t, t = FundamentalAnalysis(macro.m, macro.size)
  PROVE  /\ t.confidence \in Nat /\ t.confidence <= 90
         /\ t.score \in Nat /\ t.score <= 88
         /\ t.bias = "BEARISH" => t.score <= 40
         /\ t.bias # "BULLISH" => t.score < 60
         /\ t.events \in Nat
<1> DEFINE m == macro.m
<1>1. /\ macro.size \in Nat /\ m.observations \in Nat /\ m.events \in Nat /\ m.change \in Int
      /\ \A id \in DOMAIN m.series : m.series[id] \in Int
  BY FeatureAssumption
<1>2. /\ t.confidence = FundamentalConfidence(m, macro.size) /\ t.events = m.events
      /\ t.score = FundamentalScore(m) /\ t.bias = BiasFromScore(FundamentalScore(m))
  BY DEF FundamentalAnalysis
<1> HIDE DEF m
<1>3. FundamentalConfidence(m, macro.size) \in Nat /\ FundamentalConfidence(m, macro.size) <= 90
  BY <1>1 DEF FundamentalConfidence, Smaller, Larger
<1>4. DollarScore(m) \in Int /\ DollarScore(m) <= 68
  BY <1>1 DEF DollarScore
<1>5. MacroAdjustment(m) \in Int /\ MacroAdjustment(m) <= 20
  <2>1. \A id : Contribution(m, id) \in Int
    BY <1>1 DEF Contribution
  <2> DEFINE n == Contribution(m, "FEDFUNDS") + Contribution(m, "DFII10")
              + Contribution(m, "CPIAUCSL") + Contribution(m, "PAYEMS")
              + Contribution(m, "GDPC1") + Contribution(m, "NAPM")
              + Contribution(m, "T10Y2Y")
  <2>2. n \in Int
    BY <2>1
  <2>3. MacroAdjustment(m) = Clip(-20, 20, n)
    BY DEF MacroAdjustment
  <2> HIDE DEF n
  <2> QED
    BY <2>2, <2>3 DEF Clip
<1>6. Smaller(15, 5 * m.events) \in Nat
  BY <1>1 DEF Smaller
<1>7. FundamentalScore(m) \in Nat /\ FundamentalScore(m) <= 88
  BY <1>4, <1>5, <1>6 DEF FundamentalScore, Clamp, Clip
<1> QED
  BY <1>1, <1>2, <1>3, <1>7 DEF BiasFromScore

\* InstitutionalEngine: the same, whatever the flows are.
LEMMA InstitutionalBounds ==
  ASSUME NEW cot, NEW etf, NEW t, t = InstitutionalAnalysis(cot, etf)
  PROVE  /\ t.confidence \in Nat /\ t.confidence <= 85
         /\ t.score \in Nat /\ t.score <= 65
         /\ t.bias = "BEARISH" => t.score <= 40
         /\ t.bias # "BULLISH" => t.score < 60
<1> DEFINE n == CotScore(cot) + EtfScore(etf)
           d == 2
           bound == 65
           score == Nearest(n, d)
<1>1. t.score = score /\ t.bias = BiasFromScore(score)
  BY DEF InstitutionalAnalysis
<1>2. t.confidence \in Nat /\ t.confidence <= 85
  BY DEF InstitutionalAnalysis
<1>3. d \in Nat /\ d > 0 /\ bound \in Nat /\ n \in Nat /\ n <= bound * d
  BY DEF CotScore, EtfScore
<1> HIDE DEF n, d, bound
<1>4. score \in Nat /\ score <= bound
  BY <1>3, NearestBounded
<1> HIDE DEF score
<1> QED
  BY <1>1, <1>2, <1>4 DEF BiasFromScore, bound

\* NewsEngine: the ranges of confidence and score.
LEMMA NewsBounds ==
  ASSUME NEW wire \in Wires,
         NEW t, t = NewsAnalysis(wire.fresh, wire.newsAI, wire.answer, wire.bullish, wire.bearish)
  PROVE  /\ t.confidence \in Nat /\ t.confidence <= 90
         /\ t.score \in Nat /\ t.score <= 100
<1> DEFINE a == wire.answer
<1>1. /\ wire.fresh \in Nat /\ wire.bullish \in Nat /\ wire.bearish \in Nat
      /\ a.magnitude \in Int /\ a.reliability \in Int
  BY FeatureAssumption
<1> DEFINE byAI == wire.newsAI /\ wire.fresh > 0
<1>2. /\ t.score = IF byAI THEN AIScore(a) ELSE Clamp(50 + 6 * (wire.bullish - wire.bearish))
      /\ t.confidence = IF byAI THEN Clip(15, 90, a.reliability)
                        ELSE Smaller(IF wire.fresh > 0 THEN 35 ELSE 80, 35 + 5 * wire.fresh)
  BY DEF NewsAnalysis
<1> HIDE DEF a, byAI
<1>3. AIScore(a) \in Nat /\ AIScore(a) <= 100
  <2> DEFINE n == Signed(a.direction, 4 * a.magnitude)
             d == 10
  <2>1. n \in Int /\ d \in Nat /\ d > 0
    <3>1. 4 * a.magnitude \in Int
      BY <1>1
    <3> QED
      BY <3>1, SignedType
  <2>2. AIScore(a) = Clamp(50 + Trunc(n, d))
    BY DEF AIScore
  <2> HIDE DEF n, d
  <2>3. 50 + Trunc(n, d) \in Int
    BY <2>1, TruncType
  <2> QED
    BY <2>2, <2>3, ClampBounded
<1>4. 50 + 6 * (wire.bullish - wire.bearish) \in Int
  BY <1>1
<1>5. t.score \in Nat /\ t.score <= 100
  BY <1>2, <1>3, <1>4, ClampBounded
<1>6. t.confidence \in Nat /\ t.confidence <= 90
  BY <1>1, <1>2 DEF Clip, Smaller
<1> QED
  BY <1>5, <1>6

\* GeopoliticalEngine: the ranges of confidence and score.
LEMMA GeopoliticalBounds ==
  ASSUME NEW wire \in Wires,
         NEW t, t = GeopoliticalAnalysis(wire.recent, wire.geoAI, wire.answer,
                                         wire.hits, wire.topics, wire.countries)
  PROVE  /\ t.confidence \in Nat /\ t.confidence <= 90
         /\ t.score \in Nat /\ t.score <= 100
<1> DEFINE a == wire.answer
           byAI == wire.geoAI /\ wire.recent > 0
           found == 35 + 10 * wire.hits + 6 * wire.topics + 8 * wire.countries
<1>1. /\ wire.recent \in Nat /\ wire.hits \in Nat /\ wire.topics \in Nat
      /\ wire.countries \in Nat /\ a.severity \in Int /\ a.reliability \in Int
  BY FeatureAssumption
<1>2. /\ t.score = IF byAI THEN Clamp(a.severity) ELSE Clamp(found)
      /\ t.confidence = IF byAI THEN Clip(15, 90, a.reliability)
                        ELSE Smaller(IF wire.recent > 0 THEN 35 ELSE 80, 30 + 5 * wire.recent)
  BY DEF GeopoliticalAnalysis
<1>3. found \in Int
  BY <1>1
<1> HIDE DEF a, byAI, found
<1>4. t.score \in Nat /\ t.score <= 100
  BY <1>1, <1>2, <1>3, ClampBounded
<1>5. t.confidence \in Nat /\ t.confidence <= 90
  BY <1>1, <1>2 DEF Clip, Smaller
<1> QED
  BY <1>4, <1>5

\* A bearish regime takes bearish prices.
LEMMA RegimeBounds ==
  ASSUME NEW t, NEW f, NEW n, NEW g,
         t.confidence \in Nat, f.confidence \in Nat, n.confidence \in Nat, g.confidence \in Nat,
         f.events \in Nat, g.score \in Nat,
         NEW r, r = RegimeAnalysis(t, f, n, g)
  PROVE  /\ r.confidence \in Nat /\ r.confidence <= 90
         /\ r.score \in Nat /\ r.score <= 70
         /\ r.bias = "BEARISH" => r.score <= 40 /\ t.bias = "BEARISH"
         /\ r.bias # "BULLISH" => r.score <= 50
         /\ g.score >= 70 => r.regime \in {"EVENT_DRIVEN", "RISK_OFF"}
<1> DEFINE regime == Classify(t, f, g)
           sum == t.confidence + f.confidence + n.confidence + g.confidence
           d == 4
<1>1. /\ r.regime = regime /\ r.score = RegimeScore(regime) /\ r.bias = RegimeBias(regime)
      /\ r.confidence = Smaller(90, Nearest(sum, d))
  BY DEF RegimeAnalysis
<1>2. regime = "BEAR" => t.bias = "BEARISH"
  BY DEF Classify
<1>3. g.score >= 70 => regime \in {"EVENT_DRIVEN", "RISK_OFF"}
  BY DEF Classify
<1>4. sum \in Nat /\ d \in Nat /\ d > 0 /\ sum <= sum * d
  BY DEF d
<1> HIDE DEF regime, sum, d
<1>5. Nearest(sum, d) \in Nat
  BY <1>4, NearestBounded
<1>6. r.confidence \in Nat /\ r.confidence <= 90
  BY <1>1, <1>5 DEF Smaller
<1>7. /\ r.score \in Nat /\ r.score <= 70
      /\ r.bias = "BEARISH" => r.score <= 40 /\ regime = "BEAR"
      /\ r.bias # "BULLISH" => r.score <= 50
  BY <1>1 DEF RegimeScore, RegimeBias
<1> QED
  BY <1>1, <1>2, <1>3, <1>6, <1>7

\* What the engines guarantee of their confidences, scores and biases.
NumbersOK(b) ==
  /\ \A e \in Engine : /\ b[e].confidence \in Nat /\ b[e].confidence <= Surest[e]
                       /\ b[e].score \in Nat /\ b[e].score <= Highest[e]
                       /\ b[e].bias = "BEARISH" /\ e \in Aligning => b[e].score <= 40
                       /\ b[e].bias # "BULLISH" /\ e \in Aligning => b[e].score < 60
  /\ b["regime"].bias = "BEARISH" => b["technical"].bias = "BEARISH"
  /\ b["regime"].bias # "BULLISH" => b["regime"].score <= 50
  /\ b["geopolitical"].score >= 70 => b["regime"].regime \in {"EVENT_DRIVEN", "RISK_OFF"}

\* The numbers of all reports are in these ranges.
LEMMA BundleNumbers ==
  ASSUME NEW market \in Markets, NEW macro \in Macros, NEW flow \in Flows, NEW wire \in Wires,
         NEW b, b = Bundle(market, macro, flow, wire)
  PROVE  NumbersOK(b)
<1>1. PICK level : Reported(b, market, macro, flow, wire, level)
  BY Reports
<1> DEFINE t == TechnicalAnalysis(market.f, market.stale)
<1>2. /\ t.confidence \in Nat /\ t.confidence <= 95 /\ t.score \in Nat /\ t.score <= 100
      /\ t.bias = "BEARISH" => t.score <= 40
      /\ t.bias # "BULLISH" => t.score < 60
  BY TechnicalBounds
<1>3. /\ b["technical"].confidence = t.confidence /\ b["technical"].score = t.score
      /\ b["technical"].bias = t.bias
  BY <1>1 DEF Reported, WithPullback, TechnicalAnalysis, InsufficientData
<1>4. /\ b["fundamental"].confidence \in Nat /\ b["fundamental"].confidence <= 90
      /\ b["fundamental"].score \in Nat /\ b["fundamental"].score <= 88
      /\ b["fundamental"].bias = "BEARISH" => b["fundamental"].score <= 40
      /\ b["fundamental"].bias # "BULLISH" => b["fundamental"].score < 60
      /\ b["fundamental"].events \in Nat
  BY <1>1, FundamentalBounds DEF Reported
<1>5. /\ b["institutional"].confidence \in Nat /\ b["institutional"].confidence <= 85
      /\ b["institutional"].score \in Nat /\ b["institutional"].score <= 65
      /\ b["institutional"].bias = "BEARISH" => b["institutional"].score <= 40
      /\ b["institutional"].bias # "BULLISH" => b["institutional"].score < 60
  BY <1>1, InstitutionalBounds DEF Reported
<1>6. /\ b["news"].confidence \in Nat /\ b["news"].confidence <= 90
      /\ b["news"].score \in Nat /\ b["news"].score <= 100
  BY <1>1, NewsBounds DEF Reported
<1>7. /\ b["geopolitical"].confidence \in Nat /\ b["geopolitical"].confidence <= 90
      /\ b["geopolitical"].score \in Nat /\ b["geopolitical"].score <= 100
  BY <1>1, GeopoliticalBounds DEF Reported
<1>8. b["regime"] = RegimeAnalysis(t, b["fundamental"], b["news"], b["geopolitical"])
  BY <1>1 DEF Reported
<1> HIDE DEF t
<1>9. /\ b["regime"].confidence \in Nat /\ b["regime"].confidence <= 90
      /\ b["regime"].score \in Nat /\ b["regime"].score <= 70
      /\ b["regime"].bias = "BEARISH" => b["regime"].score <= 40 /\ t.bias = "BEARISH"
      /\ b["regime"].bias # "BULLISH" => b["regime"].score <= 50
      /\ b["geopolitical"].score >= 70 => b["regime"].regime \in {"EVENT_DRIVEN", "RISK_OFF"}
  BY <1>2, <1>4, <1>6, <1>7, <1>8, RegimeBounds
<1>10. /\ Surest["technical"] = 95 /\ Surest["fundamental"] = 90 /\ Surest["institutional"] = 85
       /\ Surest["news"] = 90 /\ Surest["geopolitical"] = 90 /\ Surest["regime"] = 90
       /\ Highest["technical"] = 100 /\ Highest["fundamental"] = 88
       /\ Highest["institutional"] = 65 /\ Highest["news"] = 100
       /\ Highest["geopolitical"] = 100 /\ Highest["regime"] = 70
  BY DEF Surest, Highest, Engine
<1>11. ASSUME NEW e \in Engine
       PROVE  /\ b[e].confidence \in Nat /\ b[e].confidence <= Surest[e]
              /\ b[e].score \in Nat /\ b[e].score <= Highest[e]
              /\ b[e].bias = "BEARISH" /\ e \in Aligning => b[e].score <= 40
              /\ b[e].bias # "BULLISH" /\ e \in Aligning => b[e].score < 60
  <2>1. CASE e = "technical"
    BY <2>1, <1>2, <1>3, <1>10
  <2>2. CASE e = "fundamental"
    BY <2>2, <1>4, <1>10
  <2>3. CASE e = "institutional"
    BY <2>3, <1>5, <1>10
  <2>4. CASE e = "news"
    BY <2>4, <1>6, <1>10 DEF Aligning
  <2>5. CASE e = "geopolitical"
    BY <2>5, <1>7, <1>10 DEF Aligning
  <2>6. CASE e = "regime"
    BY <2>6, <1>9, <1>10
  <2> QED
    BY <2>1, <2>2, <2>3, <2>4, <2>5, <2>6 DEF Engine
<1> QED
  BY <1>3, <1>9, <1>11 DEF NumbersOK

-----------------------------------------------------------------------------
\* The risks of a decision.

\* The summary of a decision holds every severity any engine reported: the nine
\* they can report come first, and it cuts after ten.
LEMMA SummaryHoldsAll ==
  ASSUME NEW b, RisksOK(b)
  PROVE  /\ RiskSummary(b) \in Seq(Severity) /\ Len(RiskSummary(b)) <= 10
         /\ \A e \in Engine : SeqRange(b[e].risks) \subseteq SeqRange(RiskSummary(b))
<1> DEFINE R(e) == b[e].risks
           two   == R("technical") \o R("fundamental")
           three == two \o R("institutional")
           four  == three \o R("news")
           five  == four \o R("geopolitical")
           six   == five \o R("regime")
<1>1. /\ \A e \in Engine : R(e) \in Seq(Severity) /\ Len(R(e)) \in Nat
      /\ Len(R("technical")) <= 1 /\ Len(R("fundamental")) <= 4
      /\ Len(R("institutional")) <= 1 /\ Len(R("news")) <= 1
      /\ Len(R("geopolitical")) <= 1 /\ Len(R("regime")) <= 1
  BY LenProperties DEF RisksOK, Engine
<1>2. Blockers(b) \in Seq(Severity)
  <2>1. /\ OnlyIf(AggregateConfidence(b) < 60, "HIGH") \in {<<>>, <<"HIGH">>}
        /\ OnlyIf(GraveRisks(b) > 1, "HIGH") \in {<<>>, <<"HIGH">>}
    BY DEF OnlyIf
  <2>2. <<>> \in Seq(Severity) /\ <<"HIGH">> \in Seq(Severity)
    BY EmptySeq DEF Severity
  <2> QED
    BY <2>1, <2>2, Joined DEF Blockers
<1>3. RiskSummary(b) = IF six \o Blockers(b) = <<>> THEN <<"MEDIUM">>
                       ELSE SubSeq(six \o Blockers(b), 1, Smaller(10, Len(six \o Blockers(b))))
  BY Zenon DEF RiskSummary
<1> HIDE DEF R
<1>4. /\ two \in Seq(Severity) /\ Len(two) = Len(R("technical")) + Len(R("fundamental"))
      /\ SeqRange(two) = SeqRange(R("technical")) \cup SeqRange(R("fundamental"))
  BY <1>1, Joined DEF Engine
<1> HIDE DEF two
<1>5. /\ three \in Seq(Severity) /\ Len(three) = Len(two) + Len(R("institutional"))
      /\ SeqRange(three) = SeqRange(two) \cup SeqRange(R("institutional"))
  BY SMTT(20), <1>1, <1>4, Joined DEF Engine
<1> HIDE DEF three
<1>6. /\ four \in Seq(Severity) /\ Len(four) = Len(three) + Len(R("news"))
      /\ SeqRange(four) = SeqRange(three) \cup SeqRange(R("news"))
  <2>1. three \in Seq(Severity) /\ R("news") \in Seq(Severity)
    BY <1>1, <1>5 DEF Engine
  <2> QED
    BY <2>1, Joined
<1> HIDE DEF four
<1>7. /\ five \in Seq(Severity) /\ Len(five) = Len(four) + Len(R("geopolitical"))
      /\ SeqRange(five) = SeqRange(four) \cup SeqRange(R("geopolitical"))
  BY <1>1, <1>6, Joined DEF Engine
<1> HIDE DEF five
<1>8. /\ six \in Seq(Severity) /\ Len(six) = Len(five) + Len(R("regime"))
      /\ SeqRange(six) = SeqRange(five) \cup SeqRange(R("regime"))
  BY <1>1, <1>7, Joined DEF Engine
<1> HIDE DEF six
<1>9. Len(six) <= 10
  BY <1>1, <1>4, <1>5, <1>6, <1>7, <1>8 DEF Engine
<1>10. \A e \in Engine : SeqRange(R(e)) \subseteq SeqRange(six)
  BY <1>4, <1>5, <1>6, <1>7, <1>8 DEF Engine
<1>11. CASE six \o Blockers(b) = <<>>
  <2>1. SeqRange(six) \cup SeqRange(Blockers(b)) = SeqRange(<<>>)
    BY <1>2, <1>8, <1>11, Joined
  <2>2. SeqRange(<<>>) = {}
    BY DEF SeqRange
  <2>3. <<"MEDIUM">> \in Seq(Severity) /\ Len(<<"MEDIUM">>) <= 10
    BY DEF Severity
  <2> QED
    BY <1>3, <1>10, <1>11, <2>1, <2>2, <2>3 DEF R
<1>12. CASE six \o Blockers(b) # <<>>
  <2> DEFINE first == SubSeq(six \o Blockers(b), 1, Smaller(10, Len(six \o Blockers(b))))
  <2>1. first \in Seq(Severity) /\ Len(first) <= 10 /\ SeqRange(six) \subseteq SeqRange(first)
    BY <1>2, <1>8, <1>9, Beginning
  <2>2. RiskSummary(b) = first
    BY <1>3, <1>12
  <2> HIDE DEF first
  <2> QED
    BY <1>10, <2>1, <2>2 DEF R
<1> QED
  BY <1>11, <1>12

-----------------------------------------------------------------------------
\* The vote of the desk on reports.
AnchorOf(b) == DeskVote(DeskWeight(b, "BUY"), DeskWeight(b, "TAKE_PROFIT"), TRUE)

\* A stage's result is what its inputs make it.
Stages == {"idle", "analyzed", "deliberated", "decided", "presented", "backtested"}

Analyzed ==
  IF stage \in {"idle", "backtested"} THEN reports = [e \in Engine |-> NoReport]
  ELSE \E market \in Markets, macro \in Macros, flow \in Flows, wire \in Wires :
         reports = Bundle(market, macro, flow, wire)

Deliberated ==
  IF stage \notin {"deliberated", "decided", "presented"}
  THEN votes = <<>> /\ committee = [provider |-> "none"]
  ELSE \/ votes = <<>> /\ committee \in {FallbackCommittee(reports), NoDesk}
       \/ /\ deep = Escalates(reports)
          /\ \E x, y, z \in AIVotes(AnchorOf(reports)) :
               votes = <<Cast(AnchorOf(reports), Deterministic), x, y, z>>
          /\ committee = Report(votes)

Decided ==
  CASE stage \in {"decided", "presented"} -> decision = Decide(reports, committee, votes)
    [] stage = "backtested" ->
         \E market \in Markets : decision = DecideWindow([market EXCEPT !.stale = TRUE])
    [] OTHER -> decision = NoDecision

Presented ==
  modes = IF stage = "presented"
          THEN [m \in Mode |-> Presentation(m, decision, reports, spot)]
          ELSE [m \in Mode |-> Waiting(FALSE)]

IInv == stage \in Stages /\ Analyzed /\ Deliberated /\ Decided /\ Presented

\* Every step keeps the invariant.
LEMMA NextIInv == IInv /\ [Next]_vars => IInv'
<1> SUFFICES ASSUME IInv, [Next]_vars PROVE IInv'
  OBVIOUS
<1> USE DEF IInv, Stages
<1>1. CASE Analyze
  BY <1>1 DEF Analyze, Analyzed, Deliberated, Decided, Presented
<1>2. CASE Deliberate
  BY <1>2 DEF Deliberate, Analyzed, Deliberated, Decided, Presented, AnchorOf
<1>3. CASE Disabled
  BY <1>3 DEF Disabled, Analyzed, Deliberated, Decided, Presented
<1>4. CASE DecideOnReports
  BY <1>4 DEF DecideOnReports, Analyzed, Deliberated, Decided, Presented
<1>5. CASE Present
  BY <1>5 DEF Present, Analyzed, Deliberated, Decided, Presented
<1>6. CASE Backtest
  BY <1>6 DEF Backtest, Analyzed, Deliberated, Decided, Presented
<1>7. CASE Return
  BY <1>7 DEF Return, Analyzed, Deliberated, Decided, Presented
<1>8. CASE UNCHANGED vars
  BY <1>8 DEF vars, Analyzed, Deliberated, Decided, Presented
<1> QED
  BY <1>1, <1>2, <1>3, <1>4, <1>5, <1>6, <1>7, <1>8 DEF Next

\* In every state each result of the decision is what its inputs make it:
\* reports of the data, a committee of the reports, a decision of both.
THEOREM Reachable == Spec => []IInv
<1>1. Init => IInv
  BY DEF Init, IInv, Stages, Analyzed, Deliberated, Decided, Presented
<1> QED
  BY <1>1, NextIInv, PTL DEF Spec

-----------------------------------------------------------------------------
\* What the modes may do.

\* A mode that acts acts on a decision its policy permits, made from reports.
LEMMA ActingIsPermitted ==
  ASSUME IInv, NEW m \in Mode, Acts(m)
  PROVE  /\ stage = "presented" /\ Permits(m, decision, reports)
         /\ decision = Decide(reports, committee, votes)
         /\ \E market \in Markets, macro \in Macros, flow \in Flows, wire \in Wires :
              reports = Bundle(market, macro, flow, wire)
<1>1. stage = "presented"
  BY DEF IInv, Presented, Acts, Waiting
<1>2. Permits(m, decision, reports)
  BY <1>1 DEF IInv, Presented, Acts, Presentation, Waiting
<1> QED
  BY <1>1, <1>2 DEF IInv, Analyzed, Decided

\* A grave risk in any report keeps every mode waiting.
LEMMA GraveWaits ==
  ASSUME IInv, NEW e \in Engine, SeqRange(reports[e].risks) \cap Grave # {}
  PROVE  \A m \in Mode : ~Acts(m)
<1> SUFFICES ASSUME NEW m \in Mode, Acts(m) PROVE FALSE
  OBVIOUS
<1>1. RisksOK(reports)
  BY ActingIsPermitted, BundleRisks
<1>2. SeqRange(reports[e].risks) \subseteq SeqRange(RiskSummary(reports))
  BY <1>1, SummaryHoldsAll
<1>3. decision.risks = RiskSummary(reports)
  BY ActingIsPermitted DEF Decide
<1>4. SeqRange(decision.risks) \cap Grave = {}
  BY ActingIsPermitted DEF Permits
<1> QED
  BY <1>2, <1>3, <1>4

\* A high or critical risk in any engine's report keeps every mode waiting,
\* although the decision carries only the first ten risks.
THEOREM GraveRisksBlock == Spec => []GraveRiskBlocks
<1>1. IInv => GraveRiskBlocks
  BY GraveWaits DEF GraveRiskBlocks
<1> QED
  BY <1>1, Reachable, PTL

\* A mode acts only on prices and macro data that arrived, and never with a
\* high-impact release scheduled.
THEOREM ModesActOnData == Spec => []ActsOnData
<1>1. IInv => ActsOnData
  <2> SUFFICES ASSUME IInv, NEW m \in Mode, Acts(m)
               PROVE  /\ reports["technical"].status = "SUCCESS"
                      /\ reports["fundamental"].status = "SUCCESS"
                      /\ reports["fundamental"].events = 0
    BY DEF ActsOnData
  <2>1. MissingIsGrave(reports)
    BY ActingIsPermitted, BundleMissing
  <2>2. \A e \in Engine : SeqRange(reports[e].risks) \cap Grave = {}
    BY GraveWaits
  <2> QED
    BY <2>1, <2>2 DEF MissingIsGrave, Engine
<1> QED
  BY <1>1, Reachable, PTL

\* A geopolitical shock always gets deep reasoning: whatever else is reported,
\* the regime is then one of those the desk escalates for.
THEOREM ShocksAreDeep == Spec => []ShockIsDeep
<1>1. IInv => ShockIsDeep
  <2> SUFFICES ASSUME IInv, stage = "deliberated", votes # <<>>,
                      reports["geopolitical"].score >= 70
               PROVE  deep
    BY DEF ShockIsDeep
  <2>1. deep = Escalates(reports)
    BY DEF IInv, Deliberated
  <2>2. PICK market \in Markets, macro \in Macros, flow \in Flows, wire \in Wires :
          reports = Bundle(market, macro, flow, wire)
    BY DEF IInv, Analyzed
  <2>3. NumbersOK(reports)
    BY <2>2, BundleNumbers
  <2>4. Escalates(reports)
    BY <2>3 DEF NumbersOK, Escalates
  <2> QED
    BY <2>1, <2>4
<1> QED
  BY <1>1, Reachable, PTL
-----------------------------------------------------------------------------
\* There are six engines.
LEMMA EnginesFinite == \A S \in SUBSET Engine : IsFiniteSet(S) /\ Cardinality(S) \in Nat
<1> DEFINE two == {"technical"} \cup {"fundamental"}
           three == two \cup {"institutional"}
           four == three \cup {"news"}
           five == four \cup {"geopolitical"}
           six == five \cup {"regime"}
<1>1. IsFiniteSet(two)
  BY FS_Singleton, FS_AddElement
<1>2. IsFiniteSet(three)
  BY <1>1, FS_AddElement
<1>3. IsFiniteSet(four)
  BY <1>2, FS_AddElement
<1>4. IsFiniteSet(five)
  BY <1>3, FS_AddElement
<1>5. IsFiniteSet(six)
  BY <1>4, FS_AddElement
<1>6. Engine = six
  BY DEF Engine
<1> HIDE DEF six
<1> QED
  BY <1>5, <1>6, FS_Subset, FS_CardinalityType

\* Two engines agree on a bias when two different ones have it.
LEMMA AgreeMeans ==
  ASSUME NEW b, NEW bias
  PROVE  AgreeOn(b, bias) <=>
           \E e1, e2 \in Aligning : e1 # e2 /\ b[e1].bias = bias /\ b[e2].bias = bias
<1> DEFINE S == {e \in Aligning : b[e].bias = bias}
<1>1. IsFiniteSet(S) /\ Cardinality(S) \in Nat
  <2>1. S \in SUBSET Engine
    BY DEF Aligning, Engine
  <2> HIDE DEF S
  <2> QED
    BY <2>1, EnginesFinite
<1>2. AgreeOn(b, bias) <=> Cardinality(S) >= 2
  BY DEF AgreeOn
<1>3. ASSUME NEW e1 \in Aligning, NEW e2 \in Aligning, e1 # e2, {e1, e2} \subseteq S
      PROVE  Cardinality(S) >= 2
  <2>1. IsFiniteSet({e1}) /\ Cardinality({e1}) = 1
    BY FS_Singleton
  <2>2. IsFiniteSet({e1} \cup {e2}) /\ Cardinality({e1} \cup {e2}) = 2
    <3>1. e2 \notin {e1}
      BY <1>3
    <3>2. /\ IsFiniteSet({e1} \cup {e2})
          /\ Cardinality({e1} \cup {e2}) = IF e2 \in {e1} THEN Cardinality({e1})
                                           ELSE Cardinality({e1}) + 1
      BY <2>1, FS_AddElement
    <3> QED
      BY <2>1, <3>1, <3>2
  <2>3. {e1} \cup {e2} \in SUBSET S
    BY <1>3
  <2> HIDE DEF S
  <2> QED
    BY <1>1, <2>2, <2>3, FS_Subset
<1>4. ASSUME Cardinality(S) >= 2
      PROVE  \E e1, e2 \in S : e1 # e2
  <2> HIDE DEF S
  <2>1. S # {} /\ ~(\E x : S = {x})
    BY <1>1, <1>4, FS_EmptySet, FS_Singleton
  <2> QED
    BY <2>1
<1> QED
  BY <1>2, <1>3, <1>4

\* A decision to sell has an opportunity below 60: two of the aligning engines
\* score at most 40, and of the others at most one is bullish; the technical
\* engine, which alone could make up for it, is then at odds with a bearish
\* regime.
LEMMA SellingIsPoor ==
  ASSUME NEW b, NumbersOK(b), AgreeOn(b, "BEARISH"), ~AgreeOn(b, "BULLISH")
  PROVE  /\ b["technical"].score + b["fundamental"].score + b["institutional"].score
              + b["regime"].score \in Nat
         /\ b["technical"].score + b["fundamental"].score + b["institutional"].score
              + b["regime"].score <= 59 * 4
<1> DEFINE t == b["technical"].score
           f == b["fundamental"].score
           i == b["institutional"].score
           r == b["regime"].score
           Bear(e) == b[e].bias = "BEARISH"
           Bull(e) == b[e].bias = "BULLISH"
<1>1. /\ t \in Nat /\ t <= 100 /\ f \in Nat /\ f <= 88 /\ i \in Nat /\ i <= 65
      /\ r \in Nat /\ r <= 70
  BY DEF NumbersOK, Engine, Highest
<1>2. /\ Bear("technical") => t <= 40
      /\ Bear("fundamental") => f <= 40
      /\ Bear("institutional") => i <= 40
      /\ Bear("regime") => r <= 40 /\ Bear("technical")
      /\ ~Bull("technical") => t < 60
      /\ ~Bull("fundamental") => f < 60
      /\ ~Bull("institutional") => i < 60
      /\ ~Bull("regime") => r <= 50
  BY DEF NumbersOK, Engine, Aligning
<1>3. \E e1, e2 \in Aligning : e1 # e2 /\ Bear(e1) /\ Bear(e2)
  BY AgreeMeans
<1>4. \A e1, e2 \in Aligning : e1 # e2 => ~(Bull(e1) /\ Bull(e2))
  BY AgreeMeans
<1>5. \A e \in Aligning : ~(Bull(e) /\ Bear(e))
  OBVIOUS
<1>6. /\ ~(Bull("technical") /\ Bull("fundamental")) /\ ~(Bull("technical") /\ Bull("institutional"))
      /\ ~(Bull("technical") /\ Bull("regime")) /\ ~(Bull("fundamental") /\ Bull("institutional"))
      /\ ~(Bull("fundamental") /\ Bull("regime")) /\ ~(Bull("institutional") /\ Bull("regime"))
      /\ ~(Bull("technical") /\ Bear("technical")) /\ ~(Bull("fundamental") /\ Bear("fundamental"))
      /\ ~(Bull("institutional") /\ Bear("institutional")) /\ ~(Bull("regime") /\ Bear("regime"))
  BY <1>4, <1>5 DEF Aligning
<1>7. \/ Bear("technical") /\ Bear("fundamental")
      \/ Bear("technical") /\ Bear("institutional")
      \/ Bear("technical") /\ Bear("regime")
      \/ Bear("fundamental") /\ Bear("institutional")
      \/ Bear("fundamental") /\ Bear("regime")
      \/ Bear("institutional") /\ Bear("regime")
  BY <1>3 DEF Aligning
<1> HIDE DEF t, f, i, r, Bear, Bull
<1>8. t + f + i + r \in Nat /\ t + f + i + r <= 59 * 4
  BY <1>1, <1>2, <1>6, <1>7
<1> QED
  BY <1>8 DEF t, f, i, r

\* No mode ever acts on a bearish outlook.
THEOREM NoShortAction == Spec => []OnlyLongActions
<1>1. IInv => OnlyLongActions
  <2> SUFFICES ASSUME IInv, NEW m \in Mode, Acts(m), MarketBias(decision) # "BULLISH"
               PROVE  FALSE
    BY DEF OnlyLongActions
  <2> DEFINE b == reports
             n == b["technical"].score + b["fundamental"].score + b["institutional"].score
                    + b["regime"].score
  <2>1. /\ Permits(m, decision, b) /\ decision = Decide(b, committee, votes)
        /\ NumbersOK(b)
    BY ActingIsPermitted, BundleNumbers
  <2>2. decision.recommendation \in {"STRONG_SELL", "TAKE_PROFIT"}
    BY <2>1 DEF Permits, MarketBias
  <2>3. decision.recommendation = Recommendation(b, DecisionConfidence(b, committee, votes))
        /\ decision.opportunity = OpportunityScore(b)
    BY <2>1 DEF Decide
  <2>4. Passed(b) /\ AgreeOn(b, "BEARISH") /\ ~AgreeOn(b, "BULLISH")
    BY <2>2, <2>3 DEF Recommendation
  <2>5. n \in Nat /\ n <= 59 * 4
    BY <2>1, <2>4, SellingIsPoor
  <2>6. decision.opportunity >= Minimum[m].opportunity /\ Minimum[m].opportunity \in {60, 70, 75}
    <3>1. Minimum[m].opportunity \in {60, 70, 75}
      BY DEF Minimum, Needs, Mode
    <3> QED
      BY <2>1, <3>1 DEF Permits
  <2>7. OpportunityScore(b) = Clamp(Nearest(n, 4) - 15 * Len(Blockers(b)))
    BY DEF OpportunityScore
  <2>8. Len(Blockers(b)) = 0
    BY <2>4 DEF Passed
  <2> HIDE DEF n, b
  <2> DEFINE d == 4
             bound == 59
  <2>9. d \in Nat /\ d > 0 /\ bound \in Nat /\ n <= bound * d
    BY <2>5
  <2> HIDE DEF d, bound
  <2>10. Nearest(n, d) \in Nat /\ Nearest(n, d) <= bound
    BY <2>5, <2>9, NearestBounded
  <2>11. Nearest(n, 4) \in Nat /\ Nearest(n, 4) <= 59
    BY <2>10 DEF d, bound
  <2> QED
    BY <2>3, <2>6, <2>7, <2>8, <2>11 DEF Clamp, Clip
<1> QED
  BY <1>1, Reachable, PTL

-----------------------------------------------------------------------------
\* The confidence in a decision.

\* The odds at most grow by a quarter, so from 90 percent they do not get
\* beyond 92.
LEMMA OddsBounded ==
  ASSUME NEW p \in Nat, p > 0, p <= 90, NEW a \in Nat, NEW c \in Nat, a + c # 0
  PROVE  LET q == Nearest(100 * p * (5 * a + 3 * c),
                          p * (5 * a + 3 * c) + 4 * (100 - p) * (a + c))
         IN  q \in Nat /\ q <= 92
<1> DEFINE s == a + c
           y == 5 * a + 3 * c
           py == p * y
           qs == (100 - p) * s
           n == 100 * p * y
           d == py + 4 * (100 - p) * s
           bound == 92
<1>1. s \in Nat /\ s > 0 /\ y \in Nat /\ y > 0 /\ y <= 5 * s
  OBVIOUS
<1> HIDE DEF s, y
<1>2. py \in Nat /\ py <= 90 * y
  BY <1>1
<1>3. qs \in Nat /\ qs >= 10 * s
  <2>1. 100 - p \in Nat /\ 100 - p >= 10
    OBVIOUS
  <2> DEFINE r == 100 - p
  <2> HIDE DEF r
  <2>2. r * s \in Nat /\ r * s >= 10 * s
    BY <1>1, <2>1 DEF r
  <2> QED
    BY <2>2 DEF r
<1>4. n = 100 * py /\ d = py + 4 * qs
  BY <1>1
<1> HIDE DEF py, qs, n, d
<1>5. n \in Nat /\ d \in Nat /\ d > 0 /\ n <= 92 * d
  BY <1>1, <1>2, <1>3, <1>4
<1>6. bound \in Nat /\ n <= bound * d
  BY <1>5
<1> HIDE DEF bound
<1>7. Nearest(n, d) \in Nat /\ Nearest(n, d) <= bound
  BY <1>5, <1>6, NearestBounded
<1>8. Nearest(n, d) \in Nat /\ Nearest(n, d) <= 92
  BY <1>7 DEF bound
<1> QED
  BY <1>8 DEF n, d, py, y, s

\* No engines are sure enough for more than 92 percent, whatever they align to.
LEMMA PosteriorBounded ==
  ASSUME NEW b, NumbersOK(b)
  PROVE  Posterior(b) \in Nat /\ Posterior(b) <= 92
<1> DEFINE K(e) == b[e].confidence
           n == K("technical") + K("fundamental") + K("institutional")
                  + K("news") + K("geopolitical") + K("regime")
           d == 6
           bound == 90
<1>1. /\ \A e \in Engine : K(e) \in Nat
      /\ K("technical") <= 95 /\ K("fundamental") <= 90 /\ K("institutional") <= 85
      /\ K("news") <= 90 /\ K("geopolitical") <= 90 /\ K("regime") <= 90
  BY DEF NumbersOK, Engine, Surest
<1>2. AggregateConfidence(b) = Nearest(n, d)
  BY DEF AggregateConfidence, SumOver, Engine
<1>3. \A engines : Reliability(b, engines) \in Nat
  <2> TAKE engines
  <2> DEFINE part(e) == IF e \notin engines THEN 0
                        ELSE IF b[e].status = "SUCCESS" THEN 4 * K(e) ELSE K(e)
  <2>1. \A e \in Engine : part(e) \in Nat
    BY <1>1
  <2>2. Reliability(b, engines) = part("technical") + part("fundamental") + part("institutional")
                                  + part("news") + part("geopolitical") + part("regime")
    BY DEF Reliability, SumOver, Engine
  <2> HIDE DEF part
  <2> QED
    BY <2>1, <2>2 DEF Engine
<1> HIDE DEF K
<1>4. n \in Nat /\ d \in Nat /\ d > 0 /\ bound \in Nat /\ n <= bound * d
  BY <1>1 DEF Engine
<1> HIDE DEF n, d, bound
<1>5. AggregateConfidence(b) \in Nat /\ AggregateConfidence(b) <= bound
  BY <1>2, <1>4, NearestBounded
<1> DEFINE p == Clip(1, 99, AggregateConfidence(b))
           a == Reliability(b, ForIt(b))
           c == Reliability(b, AgainstIt(b))
<1>6. p \in Nat /\ p > 0 /\ p <= 90
  BY <1>5 DEF Clip, bound
<1>7. a \in Nat /\ c \in Nat
  BY <1>3
<1>8. Posterior(b) = IF a + c = 0 THEN p
                     ELSE Nearest(100 * p * (5 * a + 3 * c),
                                  p * (5 * a + 3 * c) + 4 * (100 - p) * (a + c))
  BY DEF Posterior
<1> HIDE DEF p, a, c
<1>9. CASE a + c = 0
  BY <1>6, <1>8, <1>9
<1>10. CASE a + c # 0
  <2> DEFINE q == Nearest(100 * p * (5 * a + 3 * c),
                          p * (5 * a + 3 * c) + 4 * (100 - p) * (a + c))
  <2>1. q \in Nat /\ q <= 92
    BY <1>6, <1>7, <1>10, OddsBounded
  <2>2. Posterior(b) = q
    BY <1>8, <1>10
  <2> HIDE DEF q
  <2> QED
    BY <2>1, <2>2
<1> QED
  BY <1>9, <1>10

\* Contradictions and missing reports only take confidence away.
LEMMA PenaltiesAreNat ==
  ASSUME NEW b, NEW cast, IsFiniteSet(DOMAIN cast)
  PROVE  Contradictions(b, cast) \in Nat /\ MissingPenalty(b) \in Nat
<1>1. \A S \in SUBSET Engine : IsFiniteSet(S) /\ Cardinality(S) \in Nat
  BY EnginesFinite
<1>2. Conflicts(cast) \in Nat
  <2> DEFINE Side(d) == {m \in DOMAIN cast : cast[m].direction = d}
  <2>1. Side("BUY") \cup Side("SELL") \in SUBSET DOMAIN cast
    OBVIOUS
  <2>2. Conflicts(cast) \in {0, Cardinality(Side("BUY") \cup Side("SELL"))}
    BY DEF Conflicts
  <2> HIDE DEF Side
  <2>3. Cardinality(Side("BUY") \cup Side("SELL")) \in Nat
    BY <2>1, FS_Subset, FS_CardinalityType
  <2> QED
    BY <2>2, <2>3
<1>3. Cardinality(AgainstIt(b)) \in Nat
  <2>1. AgainstIt(b) \in SUBSET Engine
    BY DEF AgainstIt
  <2> QED
    BY <1>1, <2>1
<1>4. Cardinality({e \in Engine : b[e].status # "SUCCESS"}) \in Nat
  BY <1>1
<1> QED
  BY <1>2, <1>3, <1>4 DEF Contradictions, MissingPenalty, Smaller

\* The weight of the desk for a recommendation.
LEMMA DeskWeightType ==
  ASSUME NEW b, NumbersOK(b)
  PROVE  /\ \A recommendation : DeskWeight(b, recommendation) \in Nat
         /\ DeskAverage(b) \in Nat
<1> DEFINE K(e) == b[e].confidence
<1>1. \A e \in Engine : K(e) \in Nat /\ Roles[e] \in Nat
  BY DEF NumbersOK, Roles
<1>2. \A e \in Engine : Roles[e] * K(e) \in Nat
  BY <1>1
<1>3. ASSUME NEW recommendation PROVE DeskWeight(b, recommendation) \in Nat
  <2> DEFINE part(e) == IF DeskRecommendation(b[e]) = recommendation THEN Roles[e] * K(e) ELSE 0
  <2>1. \A e \in Engine : part(e) \in Nat
    BY <1>2
  <2>2. DeskWeight(b, recommendation)
          = part("technical") + part("fundamental") + part("institutional")
            + part("news") + part("geopolitical") + part("regime")
    BY DEF DeskWeight, SumOver, Engine
  <2> HIDE DEF part
  <2> QED
    BY <2>1, <2>2 DEF Engine
<1>4. DeskAverage(b) \in Nat
  <2> DEFINE part(e) == Roles[e] * K(e)
             n == part("technical") + part("fundamental") + part("institutional")
                  + part("news") + part("geopolitical") + part("regime")
             d == 8
  <2>1. DeskAverage(b) = Nearest(n, d)
    BY DEF DeskAverage, SumOver, Engine
  <2>2. \A e \in Engine : part(e) \in Nat
    BY <1>2
  <2> HIDE DEF part
  <2>3. n \in Nat /\ d \in Nat /\ d > 0
    BY <2>2 DEF Engine
  <2> HIDE DEF n
  <2>4. n <= n * d
    BY <2>3
  <2> HIDE DEF d
  <2> QED
    BY <2>1, <2>3, <2>4, NearestBounded
<1> QED
  BY <1>3, <1>4

-----------------------------------------------------------------------------
\* A committee that is out.

\* Dividing a natural number leaves one.
LEMMA QuotientIsNat ==
  ASSUME NEW a \in Nat, NEW b \in Nat, b > 0
  PROVE  a \div b \in Nat
OBVIOUS

\* The desk's vote is a ballot, a waiting desk is at most 40 percent sure, and a
\* desk with a side at most 90.
LEMMA DeskVoteBounded ==
  ASSUME NEW bullish \in Nat, NEW bearish \in Nat, NEW some \in BOOLEAN
  PROVE  LET d == DeskVote(bullish, bearish, some)
         IN  /\ d \in Ballot
             /\ d.confidence <= 90
             /\ d.direction = "WAIT" => d.confidence <= 40
<1> DEFINE total == bullish + bearish
           Sure(n) == IF 50 + (40 * n) \div total < 90 THEN 50 + (40 * n) \div total ELSE 90
           d == DeskVote(bullish, bearish, some)
<1>1. total \in Nat
  OBVIOUS
<1>2. ASSUME total > 0, NEW n \in Nat PROVE Sure(n) \in 50 .. 90
  <2>1. 40 * n \in Nat
    OBVIOUS
  <2>2. (40 * n) \div total \in Nat
    BY <1>1, <1>2, <2>1, QuotientIsNat
  <2> QED
    BY <2>2
<1>3. CASE total = 0
  <2>1. d = [direction |-> "WAIT", confidence |-> IF some THEN 40 ELSE 30]
    BY <1>3 DEF DeskVote
  <2> QED
    BY <2>1 DEF Ballot, Direction, Percent
<1>4. CASE total > 0 /\ 100 * (bullish - bearish) > 15 * total
  <2>1. d = [direction |-> "BUY", confidence |-> Sure(bullish - bearish)]
    BY <1>4 DEF DeskVote
  <2>2. bullish - bearish \in Nat
    BY <1>1, <1>4
  <2>3. Sure(bullish - bearish) \in 50 .. 90
    BY <1>2, <1>4, <2>2
  <2> HIDE DEF Sure
  <2> QED
    BY <2>1, <2>3 DEF Ballot, Direction, Percent
<1>5. CASE total > 0 /\ -100 * (bullish - bearish) > 15 * total
  <2>1. d = [direction |-> "SELL", confidence |-> Sure(-(bullish - bearish))]
    BY <1>5 DEF DeskVote
  <2>2. -(bullish - bearish) \in Nat
    BY <1>1, <1>5
  <2>3. Sure(-(bullish - bearish)) \in 50 .. 90
    BY <1>2, <1>5, <2>2
  <2> HIDE DEF Sure
  <2> QED
    BY <2>1, <2>3 DEF Ballot, Direction, Percent
<1>6. CASE /\ total > 0
           /\ ~(100 * (bullish - bearish) > 15 * total)
           /\ ~(-100 * (bullish - bearish) > 15 * total)
  <2>1. d = [direction |-> "WAIT", confidence |-> 40]
    BY <1>6 DEF DeskVote
  <2> QED
    BY <2>1 DEF Ballot, Direction, Percent
<1> QED
  BY <1>1, <1>3, <1>4, <1>5, <1>6

\* Rounding to whole percent keeps a bound that is a whole percent.
LEMMA RoundedBounded ==
  ASSUME NEW bound \in Nat, NEW share \in Nat, share <= 100 * bound
  PROVE  Rounded(share) \in Nat /\ Rounded(share) <= bound
<1> DEFINE q == share \div 100
           r == share % 100
<1>1. q \in Nat /\ r \in 0 .. 99 /\ share = 100 * q + r
  OBVIOUS
<1>2. Rounded(share) \in {q, q + 1} /\ (Rounded(share) = q + 1 => r >= 50)
  BY <1>1 DEF Rounded
<1> HIDE DEF q, r
<1> QED
  BY <1>1, <1>2

\* The report on a desk's vote and three abstentions is at most 33 percent
\* sure.
LEMMA AbstentionsBounded ==
  ASSUME NEW cast, NEW desk \in Ballot, desk.confidence <= 90,
         desk.direction = "WAIT" => desk.confidence <= 40,
         cast = <<Cast(desk, Deterministic), UnavailableVote(desk),
                  UnavailableVote(desk), UnavailableVote(desk)>>
  PROVE  Report(cast).confidence \in 0 .. 33
<1>1. /\ cast[1].direction = desk.direction /\ cast[1].confidence = desk.confidence
      /\ \A m \in AIMember : cast[m].direction = "WAIT" /\ cast[m].confidence = 30
  BY DEF Cast, UnavailableVote, AIMember
<1>2. Weight[1] = 25 /\ Weight[2] = 30 /\ Weight[3] = 25 /\ Weight[4] = 20
  BY DEF Weight, Member
<1>3. Best(cast) \in Direction
  BY DEF Best, Direction
<1>4. ASSUME NEW d \in Direction PROVE Share(cast, d) \in Nat /\ Share(cast, d) <= 3250
  <2>1. /\ Part(cast, d, 2) = IF d = "WAIT" THEN 900 ELSE 0
        /\ Part(cast, d, 3) = IF d = "WAIT" THEN 750 ELSE 0
        /\ Part(cast, d, 4) = IF d = "WAIT" THEN 600 ELSE 0
    BY <1>1, <1>2 DEF Part, AIMember
  <2>2. Part(cast, d, 1) \in 0 .. IF d = "WAIT" THEN 1000 ELSE 2250
    BY <1>1, <1>2 DEF Part, Ballot, Percent
  <2> QED
    BY <2>1, <2>2 DEF Share
<1>5. Confidence(cast) \in Nat /\ Confidence(cast) <= 100 * 33
  BY <1>3, <1>4 DEF Confidence, Capped
<1>6. Report(cast).confidence = Rounded(Confidence(cast))
  BY DEF Report
<1>7. Rounded(Confidence(cast)) \in Nat /\ Rounded(Confidence(cast)) <= 33
  <2> DEFINE bound == 33
  <2>1. bound \in Nat /\ Confidence(cast) <= 100 * bound
    BY <1>5
  <2> HIDE DEF bound
  <2>2. Rounded(Confidence(cast)) \in Nat /\ Rounded(Confidence(cast)) <= bound
    BY <1>5, <2>1, RoundedBounded
  <2> QED
    BY <2>2 DEF bound
<1> QED
  BY <1>6, <1>7

\* While the committee is out it reports what the fallback allows, and its
\* adjustment.
LEMMA OutageReport ==
  ASSUME IInv, committee.provider = "deterministic_fallback"
  PROVE  /\ committee.adjustment = FallbackAdjustment
         /\ committee.confidence \in Nat
         /\ committee.confidence <= ConfidenceCap \/ committee.confidence <= 33
<1>1. stage \in {"deliberated", "decided", "presented"}
  BY DEF IInv, Deliberated
<1>2. NumbersOK(reports)
  BY <1>1, BundleNumbers DEF IInv, Analyzed
<1>3. CASE committee = FallbackCommittee(reports)
  <2>1. /\ committee.adjustment = FallbackAdjustment
        /\ committee.confidence = Smaller(ConfidenceCap, DeskAverage(reports))
    BY <1>3 DEF FallbackCommittee
  <2>2. DeskAverage(reports) \in Nat /\ ConfidenceCap \in Nat
    BY <1>2, DeskWeightType, DecisionAssumption DEF Percent
  <2> QED
    BY <2>1, <2>2 DEF Smaller
<1>4. CASE committee = NoDesk
  BY <1>4 DEF NoDesk
<1>5. CASE committee = Report(votes) /\
           \E x, y, z \in AIVotes(AnchorOf(reports)) :
             votes = <<Cast(AnchorOf(reports), Deterministic), x, y, z>>
  <2> DEFINE anchor == AnchorOf(reports)
  <2>1. PICK x \in AIVotes(anchor), y \in AIVotes(anchor), z \in AIVotes(anchor) :
          votes = <<Cast(anchor, Deterministic), x, y, z>>
    BY <1>5
  <2>2. ~HasAI(votes) /\ committee.adjustment = FallbackAdjustment
    BY <1>5 DEF Report
  <2>3. ASSUME NEW v \in AIVotes(anchor), v.provider \notin AIProviders
        PROVE  v = UnavailableVote(anchor)
    BY <2>3 DEF AIVotes, Cast
  <2>4. x.provider \notin AIProviders /\ y.provider \notin AIProviders /\ z.provider \notin AIProviders
    BY <2>1, <2>2 DEF HasAI, Member
  <2>5. votes = <<Cast(anchor, Deterministic), UnavailableVote(anchor),
                  UnavailableVote(anchor), UnavailableVote(anchor)>>
    BY <2>1, <2>3, <2>4
  <2>6. /\ anchor \in Ballot /\ anchor.confidence <= 90
        /\ anchor.direction = "WAIT" => anchor.confidence <= 40
    BY <1>2, DeskWeightType, DeskVoteBounded DEF AnchorOf
  <2> HIDE DEF anchor
  <2>7. Report(votes).confidence \in 0 .. 33
    BY <2>5, <2>6, AbstentionsBounded
  <2> QED
    BY <1>5, <2>2, <2>7
<1> QED
  BY <1>1, <1>3, <1>4, <1>5 DEF IInv, Deliberated

\* With every member abstaining the report stays within the confidence the
\* README gives the fallback, as long as the configuration's cap does.
THEOREM OutageIsNotSure ==
  ASSUME FallbackAdjustment < 0, ConfidenceCap <= 35
  PROVE  Spec => []FallbackBounded
<1>1. IInv => FallbackBounded
  BY OutageReport, DecisionAssumption DEF FallbackBounded, Percent
<1> QED
  BY <1>1, Reachable, PTL

\* While the committee is out the physical mode waits, as long as the fallback
\* takes at least 8 percent away: the engines alone may reach 92 percent, and
\* the mode asks for 85.
THEOREM OutageKeepsPhysicalWaiting ==
  ASSUME FallbackAdjustment <= -8
  PROVE  Spec => []PhysicalWaitsInOutage
<1>1. IInv => PhysicalWaitsInOutage
  <2> SUFFICES ASSUME IInv, Acts("physical"), committee.provider = "deterministic_fallback"
               PROVE  FALSE
    BY DEF PhysicalWaitsInOutage
  <2> DEFINE b == reports
             P == Posterior(b)
             C == Contradictions(b, votes)
             M == MissingPenalty(b)
             A == Clip(-15, 10, committee.adjustment)
  <2>1. /\ Permits("physical", decision, b) /\ decision = Decide(b, committee, votes)
        /\ NumbersOK(b) /\ stage = "presented"
    BY ActingIsPermitted, BundleNumbers DEF Mode
  <2>2. decision.confidence >= 85
    BY <2>1 DEF Permits, Minimum, Needs
  <2>3. decision.confidence = Clamp(P - C - M + A)
    BY <2>1 DEF Decide, DecisionConfidence
  <2>4. P \in Nat /\ P <= 92
    BY <2>1, PosteriorBounded
  <2>5. C \in Nat /\ M \in Nat
    <3>1. votes = <<>> \/ \E w, x, y, z : votes = <<w, x, y, z>>
      BY <2>1 DEF IInv, Deliberated
    <3>2. \E n \in Nat : DOMAIN votes = 1 .. n
      <4>1. DOMAIN votes = 1 .. 0 \/ DOMAIN votes = 1 .. 4
        BY <3>1
      <4> QED
        BY <4>1
    <3>3. IsFiniteSet(DOMAIN votes)
      BY <3>2, FS_Interval
    <3> QED
      BY <3>3, PenaltiesAreNat
  <2>6. A \in Int /\ A <= -8
    BY OutageReport, AdjustmentAssumption DEF Clip
  <2> HIDE DEF P, C, M, A
  <2> QED
    BY <2>2, <2>3, <2>4, <2>5, <2>6 DEF Clamp, Clip
<1> QED
  BY <1>1, Reachable, PTL

-----------------------------------------------------------------------------
\* Without macro data the fundamental report alone has two grave risks.
LEMMA BacktestIsBlocked ==
  ASSUME NEW market, NEW b, b = Bundle(market, NoMacro, NoFlow, NoWire)
  PROVE  ~Passed(b)
<1> DEFINE G(e) == Cardinality({i \in DOMAIN b[e].risks : b[e].risks[i] \in Grave})
           f == b["fundamental"].risks
<1>1. RisksOK(b)
  BY BundleRisks
<1>2. PICK level : Reported(b, market, NoMacro, NoFlow, NoWire, level)
  BY Reports
<1>3. f = <<"HIGH">> \o <<>> \o <<"HIGH">> \o <<"MEDIUM">>
  <2>1. /\ NoMacro.size = 0 /\ NoMacro.m.observations = 0 /\ NoMacro.m.events = 0
        /\ "DFII10" \notin DOMAIN NoMacro.m.series
    BY DEF NoMacro, MacroFeatures
  <2>2. b["fundamental"] = FundamentalAnalysis(NoMacro.m, NoMacro.size)
    BY <1>2 DEF Reported
  <2> QED
    BY <2>1, <2>2 DEF FundamentalAnalysis, OnlyIf
<1>4. DOMAIN f = 1 .. 3 /\ f[1] = "HIGH" /\ f[2] = "HIGH"
  BY <1>3
<1>5. \A e \in Engine : G(e) \in Nat
  <2> TAKE e \in Engine
  <2> DEFINE S == {i \in DOMAIN b[e].risks : b[e].risks[i] \in Grave}
  <2>1. DOMAIN b[e].risks = 1 .. Len(b[e].risks) /\ Len(b[e].risks) \in Nat
    BY <1>1, LenProperties DEF RisksOK
  <2>2. IsFiniteSet(DOMAIN b[e].risks)
    BY <2>1, FS_Interval
  <2>3. S \in SUBSET DOMAIN b[e].risks
    OBVIOUS
  <2> HIDE DEF S
  <2>4. Cardinality(S) \in Nat
    BY <2>2, <2>3, FS_Subset, FS_CardinalityType
  <2> QED
    BY <2>4 DEF S
<1>6. G("fundamental") >= 2
  <2> DEFINE S == {i \in DOMAIN f : f[i] \in Grave}
             two == {1} \cup {2}
  <2>1. two \in SUBSET S
    BY <1>4 DEF Grave
  <2>2. IsFiniteSet(two) /\ Cardinality(two) = 2
    <3>1. IsFiniteSet({1}) /\ Cardinality({1}) = 1
      BY FS_Singleton
    <3> QED
      BY <3>1, FS_AddElement
  <2>3. IsFiniteSet(S)
    <3>1. f \in Seq(Severity)
      BY <1>1 DEF RisksOK, Engine
    <3>2. DOMAIN f = 1 .. Len(f) /\ Len(f) \in Nat
      BY <3>1, LenProperties
    <3>3. IsFiniteSet(DOMAIN f)
      BY <3>2, FS_Interval
    <3>4. S \in SUBSET DOMAIN f
      OBVIOUS
    <3> HIDE DEF S
    <3> QED
      BY <3>3, <3>4, FS_Subset
  <2>4. Cardinality(S) \in Nat
    BY <1>5 DEF Engine
  <2> HIDE DEF S, two
  <2>5. Cardinality(S) >= 2
    BY <2>1, <2>2, <2>3, <2>4, FS_Subset
  <2> QED
    BY <2>5 DEF S
<1>7. GraveRisks(b) = G("technical") + G("fundamental") + G("institutional")
                      + G("news") + G("geopolitical") + G("regime")
  BY DEF GraveRisks, SumOver, Engine
<1> HIDE DEF G, f
<1>8. GraveRisks(b) > 1
  BY <1>5, <1>6, <1>7 DEF Engine
<1>9. Blockers(b) # <<>>
  <2>1. OnlyIf(GraveRisks(b) > 1, "HIGH") = <<"HIGH">>
    BY <1>8 DEF OnlyIf
  <2>2. OnlyIf(AggregateConfidence(b) < 60, "HIGH") \in {<<>>, <<"HIGH">>}
    BY DEF OnlyIf
  <2>3. <<>> \o <<"HIGH">> # <<>> /\ <<"HIGH">> \o <<"HIGH">> # <<>>
    OBVIOUS
  <2> QED
    BY <2>1, <2>2, <2>3 DEF Blockers
<1> QED
  BY <1>9 DEF Passed

\* Every window of the backtest ends in WAIT, whatever the candles.
THEOREM BacktestsWait == Spec => []BacktestOnlyWaits
<1>1. IInv => BacktestOnlyWaits
  <2> SUFFICES ASSUME IInv, stage = "backtested" PROVE decision.recommendation = "WAIT"
    BY DEF BacktestOnlyWaits
  <2>1. PICK market \in Markets : decision = DecideWindow([market EXCEPT !.stale = TRUE])
    BY DEF IInv, Decided
  <2> DEFINE b == Bundle([market EXCEPT !.stale = TRUE], NoMacro, NoFlow, NoWire)
  <2>2. decision.recommendation = Recommendation(b, DecisionConfidence(b, NoDesk, <<>>))
    BY <2>1 DEF DecideWindow, Decide
  <2>3. ~Passed(b)
    BY BacktestIsBlocked
  <2> HIDE DEF b
  <2> QED
    BY <2>2, <2>3 DEF Recommendation
<1> QED
  BY <1>1, Reachable, PTL
================================================================================
