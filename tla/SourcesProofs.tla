------------------------------ MODULE SourcesProofs ------------------------------
(***************************************************************************)
(* What the engines may trust of the collected data, for any times to      *)
(* live, series, feeds, bars and cooldown, however sources fail, recover   *)
(* and time passes between them.                                           *)
(*                                                                         *)
(* The promises speak of the end of a collection.  The inductive invariant *)
(* says what makes them true on the way: of each source, what it gave      *)
(* (Fresh, SuccessIsNew); of the news chain, how far it has come           *)
(* (NewsInOrder); of the price, the frame it is from (QuoteIsNewest); and  *)
(* of GDELT's cooldown, that the file knows the last request and what is   *)
(* left to sleep is enough (FileKnows, SleepSuffices); of time itself, that *)
(* none of what a collection waits goes uncounted (WaitsCounted).          *)
(***************************************************************************)
EXTENDS Sources, FiniteSetTheorems, TLAPS

\* What was read was younger than its time to live; since then it has aged with
\* the collection.
Fresh == \A k \in Key : got[k].some => got[k].age < TTL[k] + took

\* Bars and series that report success were fetched in this collection.
SuccessIsNew == \A k \in Frame \cup Series : got[k].status = "SUCCESS" => got[k].age <= took

BeforeGDELT == {"idle", "h1", "h4", "d1", "dxy", "cot", "gld", "calendar", "connectors",
                "gdelt", "sleep", "ask"}
AfterNews   == {"macro", "price", "done"}

\* The news sources are asked in their order, each after one that does not end
\* the chain; at its end one has answered, or RSS was asked.
NewsInOrder ==
  /\ at \in BeforeGDELT =>
       got["gdelt"] = NotRead /\ got["newsapi"] = NotRead /\ got["rss"] = NotRead
  /\ at = "newsapi" => got["newsapi"] = NotRead /\ got["rss"] = NotRead
  /\ at = "rss" => got["rss"] = NotRead
  /\ at \in AfterNews =>
       got["rss"] # NotRead \/ got[NewsSource].status = "SUCCESS"

\* Up to GDELT only answers have been waited for; the sleep takes what is left of it.
WaitsCounted ==
  /\ at \in {"idle", "h1", "h4", "d1", "dxy", "cot", "gld", "calendar", "connectors", "gdelt"}
       => took <= MaxTook
  /\ at = "sleep" => took + wait <= Longest

\* The price handed over is the one of the newest bar, if there are bars.
QuoteIsNewest == Done => quote.age = IF HasBars THEN got[QuoteFrame].age ELSE 0

\* Unless excused, the file has the time of the last request.
FileKnows == ~excused => filed <= asked

\* Unless excused, the last request is as old as the cooldown when the sleep is
\* over, and when GDELT is asked.
SleepSuffices ==
  /\ at = "sleep" /\ ~excused => asked + wait >= CooldownTicks
  /\ at = "ask" /\ ~excused => asked = CooldownTicks

IInv == /\ TypeOK /\ Fresh /\ SuccessIsNew /\ NewsInOrder /\ QuoteIsNewest
        /\ FileKnows /\ SleepSuffices /\ WaitsCounted
-----------------------------------------------------------------------------

\* What a provider gives is a fresh outcome.
Given == {r \in Outcome : r.age = 0 /\ r.status # "not read"}

\* Everything a provider or a read can give is in Given.
LEMMA Outcomes ==
  /\ \A status \in Statuses \cup {"raises", "too long"} : Failure(status) \in Given
  /\ \A some \in BOOLEAN : Result("SUCCESS", some, 0) \in Given
  /\ {Raises, TooLong, Nothing, Invalid, NoRows} \subseteq Given
<1>1. ASSUME NEW status \in Statuses \cup {"raises", "too long"} PROVE Failure(status) \in Given
  BY DEF Failure, Result, Given, Outcome, Statuses
<1>2. ASSUME NEW some \in BOOLEAN PROVE Result("SUCCESS", some, 0) \in Given
  BY DEF Result, Given, Outcome, Statuses
<1>3. {"NO_DATA", "INVALID_INPUT"} \subseteq Statuses
  BY DEF Statuses
<1> QED
  BY <1>1, <1>2, <1>3 DEF Raises, TooLong, Nothing, Invalid, NoRows

\* Every provider, whatever the reply, gives a fresh outcome.
LEMMA ProviderGives ==
  ASSUME NEW key \in Key \ {"connectors"}, NEW reply \in Reply
  PROVE  Provider(key, reply) \in Given
<1>1. {"FAILED", "NO_DATA", "INVALID_INPUT"} \subseteq Statuses
  BY DEF Statuses
<1>2. GetJson(reply) \in Given
  BY <1>1, Outcomes DEF GetJson, Reply, TooLong
<1>3. ASSUME NEW empty \in Given, NEW alien \in Given
      PROVE  Parsed(reply, empty, alien) \in Given
  BY <1>1, <1>2, <1>3, Outcomes DEF Parsed, Reply
<1>4. /\ TwelveData(reply) \in Given /\ DXY(reply) \in Given /\ COT(reply) \in Given
      /\ GLD(reply) \in Given /\ FREDCalendar(reply) \in Given /\ FREDMacro(reply) \in Given
      /\ GDELT(reply) \in Given /\ NewsAPI(reply) \in Given
  BY <1>3, Outcomes
  DEF TwelveData, DXY, COT, GLD, FREDCalendar, FREDMacro, GDELT, NewsAPI
<1>5. RSS(reply) \in Given
  BY <1>1, Outcomes DEF RSS, Reply
<1>6. CASE key \in Frame
  BY <1>4, <1>6, SourcesAssumption DEF Provider, Frame, Frames
<1>7. CASE key \in Series
  BY <1>4, <1>7, SourcesAssumption DEF Provider, Single
<1>8. CASE key \in Single
  BY <1>4, <1>5, <1>8, SourcesAssumption DEF Provider, Single, Frame, Frames
<1> QED
  BY <1>6, <1>7, <1>8 DEF Key

\* So do the connectors.
LEMMA ConnectorsGive ==
  ASSUME NEW replies PROVE FetchAll(replies).result \in Given
<1>1. {"FAILED"} \subseteq Statuses
  BY DEF Statuses
<1> DEFINE after == [f \in Feed |-> IF IsHealthy(f) THEN Fetched(f, replies[f]) ELSE feeds[f]]
           heard == {f \in Feed : IF IsHealthy(f) THEN replies[f] \in {"full", "partly", "alien"}
                                  ELSE feeds[f].kept > 0}
           alien == \E f \in heard : after[f].alien
           erred == \E f \in Feed : after[f].erred
           silent == heard = {}
<1>2. FetchAll(replies).result
        = CASE alien -> Raises
            [] ~silent /\ (\A f \in heard : ~after[f].alien) -> Result("SUCCESS", TRUE, 0)
            [] OTHER -> IF erred THEN Failure("FAILED") ELSE NoRows
  BY DEF FetchAll
<1>3. (\A f \in heard : ~after[f].alien) <=> ~alien
  OBVIOUS
<1> HIDE DEF alien, silent, erred, heard, after
<1> QED
  BY <1>1, <1>2, <1>3, Outcomes

\* A collection takes a whole number of ticks.
LEMMA TookType ==
  /\ MaxTook \in Nat /\ CooldownTicks \in Nat /\ Longest \in Nat /\ Longest = MaxTook + CooldownTicks
  /\ TypeOK => took \in Nat /\ took <= Longest
<1>1. MaxTook \in Nat /\ CooldownTicks \in Nat
  BY SourcesAssumption, CooldownAssumption
<1>2. Longest \in Nat /\ Longest = MaxTook + CooldownTicks
  BY <1>1 DEF Longest
<1>3. TypeOK => took \in Nat /\ took <= Longest
  BY <1>2 DEF TypeOK
<1> QED
  BY <1>1, <1>2, <1>3

\* What is read is the outcome, or what the cache has.
LEMMA GivenOrCached ==
  ASSUME TypeOK, NEW key \in Key, NEW result \in Given
  PROVE  LET r == ReadWithCache(key, result)
         IN  /\ r \in Outcome /\ r.status # "not read"
             /\ r.age < TTL[key]
             /\ r.status = "SUCCESS" <=> result.status = "SUCCESS"
             /\ r.status = "SUCCESS" => r.age = 0
<1> DEFINE r == ReadWithCache(key, result)
<1>2. result \in Outcome /\ result.age = 0 /\ result.status # "not read"
  BY DEF Given
<1>3. cache[key] # NoEntry => cache[key] \in Entry(key)
  BY DEF TypeOK
<1>4. TTL[key] \in Nat /\ 0 < TTL[key]
  BY SourcesAssumption
<1>5. /\ r \in Outcome /\ r.status # "not read"
      /\ r.age < TTL[key]
      /\ r.status = "SUCCESS" <=> result.status = "SUCCESS"
      /\ r.status = "SUCCESS" => r.age = 0
  <2>1. CASE result.status = "SUCCESS"
    <3>1. r = result
      BY <2>1 DEF ReadWithCache
    <3> QED
      BY <1>2, <1>4, <2>1, <3>1
  <2>2. CASE result.status # "SUCCESS" /\ cache[key] # NoEntry
    <3>1. r = Result("STALE_DATA", cache[key].some, cache[key].age)
      BY <2>2 DEF ReadWithCache, Cached
    <3>2. cache[key].some \in BOOLEAN /\ cache[key].age \in Nat /\ cache[key].age < TTL[key]
      BY <1>3, <1>4, <2>2 DEF Entry
    <3> QED
      BY <2>2, <3>1, <3>2 DEF Result, Outcome, Statuses
  <2>3. CASE result.status # "SUCCESS" /\ cache[key] = NoEntry
    <3>1. r = result
      BY <2>3 DEF ReadWithCache, Cached
    <3> QED
      BY <1>2, <1>4, <2>3, <3>1
  <2> QED
    BY <2>1, <2>2, <2>3
<1> QED
  BY <1>5

\* What a call gave, made up for by the cache or not.
LEMMA TakeKeeps ==
  ASSUME TypeOK, Fresh, SuccessIsNew, NEW key \in Key, NEW result \in Given, NEW next,
         Take(key, result, next), took' = took
  PROVE  /\ at' \in {"raised", "too long", next}
         /\ got' \in [Key -> Outcome] /\ Fresh' /\ SuccessIsNew'
         /\ got'[key] # NotRead
         /\ result.status = "SUCCESS" => got'[key].status = "SUCCESS"
         /\ \A k \in Key \ {key} : got'[k] = got[k]
         /\ DOMAIN cache' = Key /\ \A k \in Key : cache'[k] \in Entry(k) \cup {NoEntry}
<1> DEFINE r == ReadWithCache(key, result)
<1>1. got' = [got EXCEPT ![key] = r] /\ GoOn(result, next) /\ CacheSet(key, result)
  BY DEF Take
<1>2. result.some \in BOOLEAN
  BY DEF Given, Outcome
<1>4. TTL[key] \in Nat /\ 0 < TTL[key]
  BY SourcesAssumption
<1>5. /\ r \in Outcome /\ r.status # "not read"
      /\ r.age < TTL[key]
      /\ r.status = "SUCCESS" <=> result.status = "SUCCESS"
      /\ r.status = "SUCCESS" => r.age = 0
  BY GivenOrCached
<1>6. at' \in {"raised", "too long", next}
  BY <1>1 DEF GoOn
<1>7. DOMAIN cache' = Key /\ \A k \in Key : cache'[k] \in Entry(k) \cup {NoEntry}
  <2>1. CASE result.status = "SUCCESS"
    <3>1. cache' = [cache EXCEPT ![key] = [some |-> result.some, age |-> 0]]
      BY <1>1, <2>1 DEF CacheSet
    <3>2. [some |-> result.some, age |-> 0] \in Entry(key)
      <4>1. result.some \in BOOLEAN /\ 0 \in 0 .. TTL[key] - 1
        BY <1>2, <1>4
      <4> QED
        BY <4>1 DEF Entry
    <3> QED
      BY <3>1, <3>2 DEF TypeOK
  <2>2. CASE result.status # "SUCCESS"
    BY <1>1, <2>2 DEF CacheSet, TypeOK
  <2> QED
    BY <2>1, <2>2
<1> HIDE DEF r
<1>8. got' \in [Key -> Outcome] /\ got'[key] = r /\ \A k \in Key \ {key} : got'[k] = got[k]
  BY <1>1, <1>5 DEF TypeOK
<1>12. took \in Nat /\ took' = took
  BY TookType
<1>9. Fresh'
  <2> SUFFICES ASSUME NEW k \in Key, got'[k].some PROVE got'[k].age < TTL[k] + took
    BY <1>12 DEF Fresh
  <2>1. CASE k = key
    <3>1. r.age \in Nat /\ r.age < TTL[key]
      BY <1>5 DEF Outcome
    <3>2. r.age < TTL[key] + took
      BY <1>4, <1>12, <3>1
    <3> QED
      BY <1>8, <2>1, <3>2
  <2>2. CASE k # key
    BY <1>8, <2>2 DEF Fresh
  <2> QED
    BY <2>1, <2>2
<1>10. SuccessIsNew'
  <2> SUFFICES ASSUME NEW k \in Frame \cup Series, got'[k].status = "SUCCESS"
               PROVE  got'[k].age <= took
    BY <1>12 DEF SuccessIsNew
  <2>1. k \in Key
    BY DEF Key
  <2>2. CASE k = key
    <3>1. r.age = 0
      BY <1>5, <1>8, <2>2
    <3>2. 0 <= took
      BY <1>12
    <3> QED
      BY <1>8, <2>2, <3>1, <3>2
  <2>3. CASE k # key
    BY <1>8, <2>1, <2>3 DEF SuccessIsNew
  <2> QED
    BY <2>2, <2>3
<1>11. got'[key] # NotRead
  <2>1. NotRead.status = "not read"
    BY DEF NotRead, Failure, Result
  <2> QED
    BY <1>5, <1>8, <2>1
<1> QED
  BY <1>5, <1>6, <1>7, <1>8, <1>9, <1>10, <1>11

-----------------------------------------------------------------------------
\* What is left of a number is no more than of any it differs from by multiples.
LEMMA RemainderLeast ==
  ASSUME NEW L \in Nat, 0 < L, NEW n \in Nat, NEW o \in Nat, NEW t \in Int, n = o + L * t
  PROVE  n % L <= o
<1> DEFINE q == n \div L
           r == n % L
           u == q - t
<1>1. q \in Int /\ r \in Nat /\ n = L * q + r
  OBVIOUS
<1>2. r < L
  OBVIOUS
<1> HIDE DEF q, r
<1>3. u \in Int
  BY <1>1
<1>4. L * u = L * q - L * t /\ L * q \in Int /\ L * t \in Int
  BY <1>1
<1> HIDE DEF u
<1>5. L * u = o - r
  BY <1>1, <1>4
<1>6. CASE u >= 1
  <2>1. L * (u - 1) \in Nat /\ L * u = L * (u - 1) + L
    BY <1>3, <1>6
  <2> QED
    BY <1>1, <1>2, <1>5, <2>1 DEF r
<1>7. CASE u = 0
  BY <1>1, <1>5, <1>7 DEF r
<1>8. CASE u <= -1
  <2>1. L * (-u - 1) \in Nat /\ L * (-u - 1) = -(L * u) - L
    BY <1>3, <1>8
  <2> QED
    BY <1>1, <1>2, <1>5, <2>1 DEF r
<1> QED
  BY <1>3, <1>6, <1>7, <1>8

\* Of two reads the one of longer bars, that was earlier, has a bar that opened no
\* later, if the longer bars span whole shorter ones.
LEMMA OlderOpensEarlier ==
  ASSUME NEW D \in Nat, 0 < D, NEW M \in Nat, 0 < M, NEW L \in Nat, 0 < L,
         D % M = 0, M % L = 0, NEW n \in Nat, NEW new \in Nat, NEW age \in Nat, new < age
  PROVE  (((n - new) % D) % L) + new <= (((n - age) % D) % M) + age
<1> DEFINE p == (n - new) % D
           s == (n - new) \div D
           r == (n - age) % D
           x == r % M
           q == (n - age) \div D
           j == r \div M
           d == D \div M
           m == M \div L
<1>1. q \in Int /\ r \in Nat /\ n - age = D * q + r
  OBVIOUS
<1>2. s \in Int /\ p \in Nat /\ n - new = D * s + p
  OBVIOUS
<1>3. D = M * d /\ d \in Int /\ M = L * m /\ m \in Int
  OBVIOUS
<1> HIDE DEF p, s, r, q, d, m
<1>4. j \in Int /\ x \in Nat /\ r = M * j + x
  BY <1>1
<1> HIDE DEF j, x
<1> DEFINE u == q - s
           t == m * (d * u + j)
           o == x + (age - new)
<1>5. u \in Int /\ t \in Int /\ o \in Nat
  BY <1>1, <1>2, <1>3, <1>4
<1>6. p = o + L * t
  <2>1. D * q = D * s + D * u
    BY <1>1, <1>2
  <2>2. p = D * u + r + (age - new)
    BY <1>1, <1>2, <2>1
  <2> HIDE DEF u
  <2>3. D * u = M * (d * u)
    BY <1>3, <1>5
  <2>4. M * (d * u) + M * j = M * (d * u + j)
    BY <1>3, <1>4, <1>5
  <2>5. M * (d * u + j) = L * t
    <3> DEFINE w == d * u + j
    <3>1. w \in Int /\ t = m * w
      BY <1>3, <1>4, <1>5
    <3> HIDE DEF w, t
    <3>2. M * w = (L * m) * w
      BY <1>3
    <3>3. (L * m) * w = L * (m * w)
      BY <1>3, <3>1
    <3> QED
      BY <3>1, <3>2, <3>3 DEF w
  <2> QED
    BY <1>3, <1>4, <1>5, <2>2, <2>3, <2>4, <2>5
<1> HIDE DEF t, o
<1>7. p % L <= o
  BY <1>2, <1>5, <1>6, RemainderLeast
<1>8. p % L \in Nat
  BY <1>2
<1> QED
  BY <1>4, <1>7, <1>8 DEF p, r, x, o

\* Times since the bars opened are whole.
LEMMA OpenedType ==
  ASSUME TypeOK, NEW f \in Frame
  PROVE  Opened(f) \in Nat /\ got[f].age \in Nat /\ now \in Nat /\ now < Day
<1>1. Day \in Nat /\ 0 < Day /\ Length[f] \in Nat /\ 0 < Length[f]
  BY SourcesAssumption DEF Day, Frame, Frames
<1>2. now \in Nat /\ now < Day
  BY <1>1 DEF TypeOK
<1>3. got[f].age \in Nat
  BY DEF TypeOK, Outcome, Key
<1> DEFINE age == got[f].age
<1> HIDE DEF age
<1>4. (now - age) % Day \in Nat
  BY <1>1, <1>2, <1>3 DEF age
<1>5. ((now - age) % Day) % Length[f] \in Nat
  BY <1>1, <1>4
<1> QED
  BY <1>2, <1>3, <1>5 DEF Opened, age

\* The price's frame is one with bars, none of whose bars opened later, and the
\* hourly one among equals.
LEMMA NewestBar ==
  ASSUME TypeOK, HasBars
  PROVE  /\ QuoteFrame \in Frame /\ got[QuoteFrame].some
         /\ \A f \in Frame : got[f].some => Opened(QuoteFrame) <= Opened(f)
         /\ got["h1"].some /\ Opened(QuoteFrame) = Opened("h1") => QuoteFrame = "h1"
<1> DEFINE o(i) == Opened(Frames[i])
           has(i) == got[Frames[i]].some
           Newest(i) == has(i) /\ \A j \in 1 .. 3 : has(j) => o(i) < o(j) \/ (o(i) = o(j) /\ i <= j)
<1>1. Frame = {"h1", "h4", "d1"} /\ Frames[1] = "h1" /\ Frames[2] = "h4" /\ Frames[3] = "d1"
  BY DEF Frame, Frames
<1>2. \A i \in 1 .. 3 : o(i) \in Nat
  BY <1>1, OpenedType
<1>3. has(1) \/ has(2) \/ has(3)
  BY <1>1 DEF HasBars
<1> HIDE DEF o, has
<1>4. \E i \in 1 .. 3 : Newest(i)
  <2>1. o(1) \in Nat /\ o(2) \in Nat /\ o(3) \in Nat
    BY <1>2
  <2>2. Newest(1) \/ Newest(2) \/ Newest(3)
    BY <1>3, <2>1
  <2> QED
    BY <2>2
<1> DEFINE best == CHOOSE i \in 1 .. 3 : Newest(i)
<1>5. best \in 1 .. 3 /\ Newest(best)
  BY <1>4
<1>6. QuoteFrame = Frames[best]
  BY DEF QuoteFrame, o, has
<1> HIDE DEF best
<1>7. \A j \in 1 .. 3 : has(j) => o(best) <= o(j)
  BY <1>2, <1>5
<1>8. has(1) /\ o(best) = o(1) => best = 1
  BY <1>2, <1>5
<1> QED
  BY <1>1, <1>5, <1>6, <1>7, <1>8 DEF o, has

-----------------------------------------------------------------------------
\* The places of a collection.
LEMMA Places ==
  /\ Frame = {"h1", "h4", "d1"}
  /\ Resting \cup {Sources[i] : i \in 1 .. 12} \cup {"sleep", "ask", "price"}
       = Resting \cup {"h1", "h4", "d1", "dxy", "cot", "gld", "calendar", "connectors", "gdelt",
                       "newsapi", "rss", "macro", "sleep", "ask", "price"}
  /\ \A key \in Frame \cup {"dxy", "cot", "gld", "calendar"} :
       Following(key) \in {"h4", "d1", "dxy", "cot", "gld", "calendar", "connectors"}
<1>1. Frame = {"h1", "h4", "d1"}
  BY DEF Frame, Frames
<1>2. /\ Sources[1] = "h1" /\ Sources[2] = "h4" /\ Sources[3] = "d1" /\ Sources[4] = "dxy"
      /\ Sources[5] = "cot" /\ Sources[6] = "gld" /\ Sources[7] = "calendar"
      /\ Sources[8] = "connectors" /\ Sources[9] = "gdelt" /\ Sources[10] = "newsapi"
      /\ Sources[11] = "rss" /\ Sources[12] = "macro"
  BY DEF Sources
<1>3. 1 .. 12 = {1, 2, 3, 4, 5, 6, 7, 8, 9, 10, 11, 12}
  OBVIOUS
<1>4. {Sources[i] : i \in 1 .. 12}
        = {"h1", "h4", "d1", "dxy", "cot", "gld", "calendar", "connectors", "gdelt",
           "newsapi", "rss", "macro"}
  BY <1>2, <1>3
<1>5. ASSUME NEW key \in Frame \cup {"dxy", "cot", "gld", "calendar"}
      PROVE  Following(key) \in {"h4", "d1", "dxy", "cot", "gld", "calendar", "connectors"}
  <2> DEFINE n == CHOOSE i \in 1 .. 11 : Sources[i] = key
  <2>1. \E i \in 1 .. 7 : Sources[i] = key
    BY <1>1, <1>2
  <2>2. n \in 1 .. 11 /\ Sources[n] = key
    BY <2>1
  <2> HIDE DEF n
  <2>3. n \in 1 .. 7
    BY <1>1, <1>2, <2>2
  <2>4. Sources[1 + n] \in {"h4", "d1", "dxy", "cot", "gld", "calendar", "connectors"}
    BY <1>2, <2>3
  <2> QED
    BY <2>4 DEF Following, n
<1> QED
  BY <1>1, <1>4, <1>5

\* The connectors' health stays within its bounds.
LEMMA FeedsType ==
  ASSUME TypeOK, NEW replies
  PROVE  FetchAll(replies).feeds
           \in [Feed -> [fails : 0 .. 3, erred : BOOLEAN, kept : 0 .. FeedTTL, alien : BOOLEAN]]
<1> DEFINE Health == [fails : 0 .. 3, erred : BOOLEAN, kept : 0 .. FeedTTL, alien : BOOLEAN]
<1>1. FetchAll(replies).feeds
        = [f \in Feed |-> IF IsHealthy(f) THEN Fetched(f, replies[f]) ELSE feeds[f]]
  BY DEF FetchAll
<1>2. ASSUME NEW f \in Feed, IsHealthy(f) PROVE Fetched(f, replies[f]) \in Health
  <2> DEFINE failed == replies[f] \in {"failed", "partly"}
             some   == replies[f] \in {"full", "partly", "alien"}
             fails  == IF failed THEN feeds[f].fails + 1 ELSE 0
             erred  == feeds[f].erred \/ failed
             kept   == IF some THEN FeedTTL ELSE feeds[f].kept
             alien  == IF some THEN replies[f] = "alien" ELSE feeds[f].alien
  <2>1. feeds[f] \in Health
    BY DEF TypeOK
  <2>2. fails \in 0 .. 3
    BY <1>2, <2>1 DEF IsHealthy
  <2>3. kept \in 0 .. FeedTTL
    BY <2>1, SourcesAssumption
  <2>4. erred \in BOOLEAN
    OBVIOUS
  <2>5. alien \in BOOLEAN
    BY <2>1
  <2>6. Fetched(f, replies[f]) = [fails |-> fails, erred |-> erred, kept |-> kept, alien |-> alien]
    BY DEF Fetched
  <2> HIDE DEF fails, erred, kept, alien
  <2> QED
    BY <2>2, <2>3, <2>4, <2>5, <2>6
<1> QED
  BY <1>1, <1>2 DEF TypeOK

\* The invariant holds at the start.
LEMMA InitIInv == Init => IInv
<1> SUFFICES ASSUME Init PROVE IInv
  OBVIOUS
<1> USE DEF Init, CoolInit
<1>1. CooldownTicks \in Nat /\ 0 \in Age /\ CooldownTicks \in Age
  BY CooldownAssumption DEF Age
<1>2. NotRead \in Outcome /\ NotRead.some = FALSE /\ NotRead.status = "not read"
  BY DEF NotRead, Failure, Result, Outcome
<1>3. TypeOK
  <2>1. at \in Resting \cup {Sources[i] : i \in 1 .. 12} \cup {"sleep", "ask", "price"}
    BY Places DEF Resting
  <2>2. quote \in [from : Frame \cup {Spots[i] : i \in 1 .. 3} \cup {"none"}, age : Nat]
    BY DEF NoQuote
  <2>3. got \in [Key -> Outcome]
    BY <1>2
  <2>4. DOMAIN cache = Key /\ \A k \in Key : cache[k] \in Entry(k) \cup {NoEntry}
    OBVIOUS
  <2>5. feeds \in [Feed -> [fails : 0 .. 3, erred : BOOLEAN, kept : 0 .. FeedTTL, alien : BOOLEAN]]
    <3>1. HealthyFeed \in [fails : 0 .. 3, erred : BOOLEAN, kept : 0 .. FeedTTL, alien : BOOLEAN]
      BY SourcesAssumption DEF HealthyFeed
    <3> QED
      BY <3>1
  <2>6. now \in 0 .. Day - 1 /\ took \in 0 .. Longest
    BY SourcesAssumption, Places, TookType DEF Day
  <2>7. excused \in BOOLEAN
    OBVIOUS
  <2>8. flaky \in Groups /\ <<known, filed, asked>> \in Age \X Age \X Age /\ wait \in Age
    BY <1>1
  <2> QED
    BY <2>1, <2>2, <2>3, <2>4, <2>5, <2>6, <2>7, <2>8 DEF TypeOK
<1>4. Fresh /\ SuccessIsNew
  BY <1>2 DEF Fresh, SuccessIsNew, Key
<1>5. NewsInOrder
  BY DEF NewsInOrder, AfterNews, Key, Single
<1>6. QuoteIsNewest
  BY DEF QuoteIsNewest, Done
<1>7. FileKnows /\ SleepSuffices /\ WaitsCounted
  BY <1>1, TookType DEF FileKnows, SleepSuffices, WaitsCounted
<1> QED
  BY <1>3, <1>4, <1>5, <1>6, <1>7 DEF IInv

-----------------------------------------------------------------------------
\* Any of the simple repositories reads its next key.
LEMMA ReadIInv ==
  ASSUME IInv, NEW keys \in SUBSET (Frame \cup {"dxy", "cot", "gld", "calendar"}),
         ReadOneOf(keys)
  PROVE  IInv'
<1> USE DEF IInv
<1>1. at \in {"h1", "h4", "d1", "dxy", "cot", "gld", "calendar"} /\ at \in Key \ {"connectors"}
  BY Places DEF ReadOneOf, Key, Single
<1>2. PICK reply \in Replies(at) : Take(at, Provider(at, reply), Following(at))
  BY DEF ReadOneOf
<1>3. UNCHANGED <<coolVars, took, feeds, now, quote, flaky>>
  BY DEF ReadOneOf
<1>4. Provider(at, reply) \in Given
  BY <1>1, <1>2, ProviderGives DEF Replies, Reply
<1>5. Following(at) \in {"h4", "d1", "dxy", "cot", "gld", "calendar", "connectors"}
  BY <1>1, Places
<1>6. /\ at' \in {"raised", "too long", Following(at)}
      /\ got' \in [Key -> Outcome] /\ Fresh' /\ SuccessIsNew'
      /\ \A k \in Key \ {at} : got'[k] = got[k]
      /\ DOMAIN cache' = Key /\ \A k \in Key : cache'[k] \in Entry(k) \cup {NoEntry}
  BY <1>1, <1>2, <1>3, <1>4, TakeKeeps
<1>7. TypeOK'
  <2>1. at' \in Resting \cup {Sources[i] : i \in 1 .. 12} \cup {"sleep", "ask", "price"}
    BY <1>5, <1>6, Places DEF Resting
  <2> QED
    BY <1>3, <1>6, <2>1 DEF TypeOK, coolVars
<1>8. NewsInOrder'
  <2>1. {"gdelt", "newsapi", "rss"} \subseteq Key \ {at}
    BY <1>1 DEF Key, Single
  <2>2. got["gdelt"] = NotRead /\ got["newsapi"] = NotRead /\ got["rss"] = NotRead
    BY <1>1 DEF NewsInOrder, BeforeGDELT
  <2> QED
    BY <1>5, <1>6, <2>1, <2>2 DEF NewsInOrder, AfterNews
<1> QED
  BY <1>1, <1>3, <1>5, <1>6, <1>7, <1>8
  DEF QuoteIsNewest, Done, FileKnows, SleepSuffices, WaitsCounted, coolVars

\* What the connectors give is noted as theirs.
LEMMA ConnectorsIInv ==
  ASSUME IInv, ReadConnectors
  PROVE  IInv'
<1> USE DEF IInv
<1>1. at = "connectors" /\ UNCHANGED <<coolVars, took, now, quote, flaky>>
  BY DEF ReadConnectors
<1>2. PICK replies \in [Feed -> ManyFeeds] :
        LET fetch == FetchAll(replies)
            ended == fetch.result.status = "SUCCESS" /\ fetch.result.some
        IN /\ feeds' = fetch.feeds
           /\ Take(at, fetch.result, IF ended THEN "macro" ELSE "gdelt")
  BY DEF ReadConnectors
<1> DEFINE result == FetchAll(replies).result
           next == IF result.status = "SUCCESS" /\ result.some THEN "macro" ELSE "gdelt"
<1>3. Take("connectors", result, next) /\ feeds' = FetchAll(replies).feeds
  BY <1>1, <1>2
<1>4. result \in Given
  BY ConnectorsGive
<1>5. "connectors" \in Key
  BY DEF Key, Single
<1>6. next = "gdelt" \/ (next = "macro" /\ result.status = "SUCCESS")
  OBVIOUS
<1> HIDE DEF result, next
<1>7. /\ at' \in {"raised", "too long", next}
      /\ got' \in [Key -> Outcome] /\ Fresh' /\ SuccessIsNew'
      /\ result.status = "SUCCESS" => got'["connectors"].status = "SUCCESS"
      /\ \A k \in Key \ {"connectors"} : got'[k] = got[k]
      /\ DOMAIN cache' = Key /\ \A k \in Key : cache'[k] \in Entry(k) \cup {NoEntry}
  BY <1>1, <1>3, <1>4, <1>5, TakeKeeps
<1>8. TypeOK'
  <2>1. at' \in Resting \cup {Sources[i] : i \in 1 .. 12} \cup {"sleep", "ask", "price"}
    BY <1>6, <1>7, Places DEF Resting
  <2>2. feeds' \in [Feed -> [fails : 0 .. 3, erred : BOOLEAN, kept : 0 .. FeedTTL, alien : BOOLEAN]]
    BY <1>3, FeedsType
  <2> QED
    BY <1>1, <1>7, <2>1, <2>2 DEF TypeOK, coolVars
<1>9. NewsInOrder'
  <2>1. {"gdelt", "newsapi", "rss"} \subseteq Key \ {"connectors"}
    BY DEF Key, Single
  <2>2. got["gdelt"] = NotRead /\ got["newsapi"] = NotRead /\ got["rss"] = NotRead
    BY <1>1 DEF NewsInOrder, BeforeGDELT
  <2>3. got'["gdelt"] = NotRead /\ got'["newsapi"] = NotRead /\ got'["rss"] = NotRead
    BY <1>7, <2>1, <2>2
  <2>4. at' = "macro" => got'[NewsSource'].status = "SUCCESS"
    BY <1>6, <1>7, <2>3 DEF NewsSource
  <2> QED
    BY <1>6, <1>7, <2>3, <2>4 DEF NewsInOrder, AfterNews
<1> QED
  BY <1>1, <1>6, <1>7, <1>8, <1>9
  DEF QuoteIsNewest, Done, FileKnows, SleepSuffices, WaitsCounted, coolVars

\* The cooldown: begin to sleep for what is left of it, or go on.
LEMMA AwaitIInv ==
  ASSUME IInv, AwaitCooldown
  PROVE  IInv'
<1> USE DEF IInv
<1>1. /\ at \in {"gdelt", "sleep"} /\ wait = 0
      /\ at' \in {"sleep", "ask"}
      /\ UNCHANGED <<known, filed, asked, excused, got, took, cache, feeds, now, quote, flaky>>
  BY DEF AwaitCooldown, Look, coolVars
<1>2. /\ CooldownTicks \in Nat /\ known \in Nat /\ filed \in Nat /\ asked \in Nat
      /\ known <= CooldownTicks /\ filed <= CooldownTicks /\ asked <= CooldownTicks
  BY CooldownAssumption DEF TypeOK, Age
<1>3. /\ Remaining \in Nat /\ Remaining <= CooldownTicks
      /\ filed + Remaining >= CooldownTicks
      /\ ~(Remaining > 0) => filed = CooldownTicks
  BY <1>2 DEF Remaining, Later
<1>4. CASE at = "gdelt" /\ Remaining > 0
  <2>1. at' = "sleep" /\ wait' = Remaining
    BY <1>4 DEF AwaitCooldown, Look
  <2>2. TypeOK'
    BY <1>1, <1>2, <1>3, <2>1, Places DEF TypeOK, Age
  <2>3. SleepSuffices'
    BY <1>1, <1>2, <1>3, <2>1 DEF SleepSuffices, FileKnows
  <2>4. WaitsCounted'
    <3>1. took \in Nat /\ took <= MaxTook
      BY <1>4, TookType DEF WaitsCounted
    <3> QED
      BY <1>1, <1>3, <2>1, <3>1, TookType DEF WaitsCounted
  <2> QED
    BY <1>1, <2>1, <2>2, <2>3, <2>4
    DEF Fresh, SuccessIsNew, NewsInOrder, BeforeGDELT, AfterNews, QuoteIsNewest, Done, FileKnows
<1>5. CASE ~(at = "gdelt" /\ Remaining > 0)
  <2>1. at' = "ask" /\ wait' = wait
    BY <1>5 DEF AwaitCooldown, coolVars
  <2>2. TypeOK'
    BY <1>1, <2>1, Places DEF TypeOK
  <2>3. SleepSuffices'
    <3>1. CASE at = "gdelt"
      BY <1>1, <1>2, <1>3, <1>5, <2>1, <3>1 DEF SleepSuffices, FileKnows
    <3>2. CASE at = "sleep"
      BY <1>1, <1>2, <2>1, <3>2 DEF SleepSuffices
    <3> QED
      BY <1>1, <3>1, <3>2
  <2> QED
    BY <1>1, <2>1, <2>2, <2>3
    DEF Fresh, SuccessIsNew, NewsInOrder, BeforeGDELT, AfterNews, QuoteIsNewest, Done, FileKnows,
        WaitsCounted
<1> QED
  BY <1>4, <1>5

\* A request to GDELT follows the sleep its stamp asks for.
LEMMA AskIInv ==
  ASSUME IInv, AskGDELT
  PROVE  IInv'
<1> USE DEF IInv
<1>1. /\ at = "ask" /\ UNCHANGED <<took, feeds, now, quote, flaky>>
      /\ known' = 0 /\ asked' = 0 /\ wait' = 0
      /\ (filed' = 0 /\ excused' = FALSE) \/ (filed' = filed /\ excused' = TRUE)
  BY DEF AskGDELT, Ask
<1>2. PICK reply \in Replies("gdelt") :
        Take("gdelt", Provider("gdelt", reply),
             IF Provider("gdelt", reply).status = "SUCCESS" THEN "macro" ELSE "newsapi")
  BY DEF AskGDELT
<1> DEFINE result == Provider("gdelt", reply)
           next == IF result.status = "SUCCESS" THEN "macro" ELSE "newsapi"
<1>3. "gdelt" \in Key \ {"connectors"}
  BY DEF Key, Single
<1>4. result \in Given
  BY <1>2, <1>3, ProviderGives DEF Replies, Reply
<1>5. Take("gdelt", result, next)
  BY <1>2
<1>6. next = "newsapi" \/ (next = "macro" /\ result.status = "SUCCESS")
  OBVIOUS
<1> HIDE DEF result, next
<1>7. /\ at' \in {"raised", "too long", next}
      /\ got' \in [Key -> Outcome] /\ Fresh' /\ SuccessIsNew'
      /\ got'["gdelt"] # NotRead
      /\ result.status = "SUCCESS" => got'["gdelt"].status = "SUCCESS"
      /\ \A k \in Key \ {"gdelt"} : got'[k] = got[k]
      /\ DOMAIN cache' = Key /\ \A k \in Key : cache'[k] \in Entry(k) \cup {NoEntry}
  BY <1>1, <1>3, <1>4, <1>5, TakeKeeps
<1>8. TypeOK'
  <2>1. at' \in Resting \cup {Sources[i] : i \in 1 .. 12} \cup {"sleep", "ask", "price"}
    BY <1>6, <1>7, Places DEF Resting
  <2>2. <<known, filed, asked>>' \in Age \X Age \X Age /\ wait' \in Age
    BY <1>1, CooldownAssumption DEF TypeOK, Age
  <2>3. excused' \in BOOLEAN
    BY <1>1
  <2> QED
    BY <1>1, <1>7, <2>1, <2>2, <2>3 DEF TypeOK
<1>9. NewsInOrder'
  <2>1. {"newsapi", "rss"} \subseteq Key \ {"gdelt"}
    BY DEF Key, Single
  <2>2. got["newsapi"] = NotRead /\ got["rss"] = NotRead
    BY <1>1 DEF NewsInOrder, BeforeGDELT
  <2>3. got'["newsapi"] = NotRead /\ got'["rss"] = NotRead
    BY <1>7, <2>1, <2>2
  <2>4. at' = "macro" => got'[NewsSource'].status = "SUCCESS"
    BY <1>6, <1>7, <2>3 DEF NewsSource
  <2> QED
    BY <1>6, <1>7, <2>3, <2>4 DEF NewsInOrder, BeforeGDELT, AfterNews
<1>10. FileKnows'
  <2>1. CASE filed' = 0 /\ excused' = FALSE
    BY <1>1, <2>1 DEF FileKnows
  <2>2. CASE excused' = TRUE
    BY <2>2 DEF FileKnows
  <2> QED
    BY <1>1, <2>1, <2>2
<1>11. at' \in {"raised", "too long", "newsapi", "macro"}
  BY <1>6, <1>7
<1> QED
  BY <1>7, <1>8, <1>9, <1>10, <1>11 DEF QuoteIsNewest, Done, SleepSuffices, WaitsCounted

\* A news source that is not asked while its last answer is cached gives that.
LEMMA ReusedKeeps ==
  ASSUME TypeOK, Fresh, SuccessIsNew, NEW key \in {"newsapi", "rss"}, Cached(key) # {},
         got' = [got EXCEPT ![key] = Reused(key)], took' = took
  PROVE  /\ got' \in [Key -> Outcome] /\ Fresh' /\ SuccessIsNew'
         /\ got'[key].status = "SUCCESS" /\ got'[key] # NotRead
         /\ \A k \in Key \ {key} : got'[k] = got[k]
<1>1. key \in Key /\ key \notin Frame \cup Series
  BY SourcesAssumption, Places DEF Key, Single
<1>2. cache[key].some \in BOOLEAN /\ cache[key].age \in Nat /\ cache[key].age < TTL[key]
  <2>1. cache[key] \in Entry(key) /\ TTL[key] \in Nat
    BY <1>1, SourcesAssumption DEF TypeOK, Cached
  <2> QED
    BY <2>1 DEF Entry
<1>3. /\ Reused(key) \in Outcome /\ Reused(key).status = "SUCCESS"
      /\ Reused(key).age < TTL[key]
  BY <1>2 DEF Reused, Result, Outcome, Statuses
<1>4. /\ got' \in [Key -> Outcome] /\ got'[key] = Reused(key)
      /\ \A k \in Key \ {key} : got'[k] = got[k]
  BY <1>1, <1>3 DEF TypeOK
<1>5. Fresh'
  <2>1. took \in Nat /\ TTL[key] \in Nat /\ Reused(key).age \in Nat
    BY <1>1, <1>3, TookType, SourcesAssumption DEF Outcome
  <2>2. got'[key].age < TTL[key] + took
    BY <1>3, <1>4, <2>1
  <2> QED
    BY <1>1, <1>4, <2>2 DEF Fresh
<1>6. SuccessIsNew'
  BY <1>1, <1>4 DEF SuccessIsNew, Key
<1>7. NotRead.status = "not read"
  BY DEF NotRead, Failure, Result
<1> QED
  BY <1>3, <1>4, <1>5, <1>6, <1>7

\* NewsAPI is asked after GDELT gave nothing,
LEMMA NewsAPIIInv ==
  ASSUME IInv, ReadNewsAPI
  PROVE  IInv'
<1> USE DEF IInv
<1>1. at = "newsapi" /\ UNCHANGED <<coolVars, took, feeds, now, quote, flaky>>
  BY DEF ReadNewsAPI
<1>2. /\ "newsapi" \in Key \ {"connectors"} /\ "rss" \in Key \ {"newsapi"}
      /\ got["rss"] = NotRead
  BY <1>1 DEF Key, Single, NewsInOrder
<1>3. /\ at' \in {"macro", "rss", "raised", "too long"}
      /\ at' = "macro" => got'["newsapi"].status = "SUCCESS"
      /\ got'["newsapi"] # NotRead
      /\ got' \in [Key -> Outcome] /\ Fresh' /\ SuccessIsNew'
      /\ \A k \in Key \ {"newsapi"} : got'[k] = got[k]
      /\ DOMAIN cache' = Key /\ \A k \in Key : cache'[k] \in Entry(k) \cup {NoEntry}
  <2>1. CASE /\ Cached(at) # {}
             /\ got' = [got EXCEPT ![at] = Reused(at)]
             /\ at' = "macro"
             /\ UNCHANGED cache
    BY <1>1, <2>1, ReusedKeeps DEF TypeOK
  <2>2. CASE \E reply \in Replies(at) :
               LET result == Provider(at, reply)
               IN Take(at, result, IF result.status = "SUCCESS" THEN "macro" ELSE "rss")
    <3>1. PICK reply \in Replies("newsapi") :
            LET result == Provider("newsapi", reply)
            IN Take("newsapi", result, IF result.status = "SUCCESS" THEN "macro" ELSE "rss")
      BY <1>1, <2>2
    <3> DEFINE result == Provider("newsapi", reply)
               next == IF result.status = "SUCCESS" THEN "macro" ELSE "rss"
    <3>2. result \in Given
      BY <1>2, <3>1, ProviderGives DEF Replies, Reply
    <3>3. Take("newsapi", result, next)
      BY <3>1
    <3>4. next = "rss" \/ (next = "macro" /\ result.status = "SUCCESS")
      OBVIOUS
    <3> HIDE DEF result, next
    <3> QED
      BY <1>1, <1>2, <3>2, <3>3, <3>4, TakeKeeps
  <2> QED
    BY <2>1, <2>2 DEF ReadNewsAPI
<1>4. TypeOK'
  <2>1. at' \in Resting \cup {Sources[i] : i \in 1 .. 12} \cup {"sleep", "ask", "price"}
    BY <1>3, Places DEF Resting
  <2> QED
    BY <1>1, <1>3, <2>1 DEF TypeOK, coolVars
<1>5. NewsInOrder'
  <2>1. got'["rss"] = NotRead
    BY <1>2, <1>3
  <2>2. NewsSource' = "newsapi"
    BY <1>3, <2>1 DEF NewsSource
  <2> QED
    BY <1>3, <2>1, <2>2 DEF NewsInOrder, BeforeGDELT, AfterNews
<1> QED
  BY <1>1, <1>3, <1>4, <1>5 DEF QuoteIsNewest, Done, FileKnows, SleepSuffices, WaitsCounted, coolVars

\* and RSS after both.
LEMMA RSSIInv ==
  ASSUME IInv, ReadRSS
  PROVE  IInv'
<1> USE DEF IInv
<1>1. at = "rss" /\ UNCHANGED <<coolVars, took, feeds, now, quote, flaky>>
  BY DEF ReadRSS
<1>2. "rss" \in Key \ {"connectors"}
  BY DEF Key, Single
<1>3. /\ at' \in {"macro", "raised", "too long"}
      /\ got'["rss"] # NotRead
      /\ got' \in [Key -> Outcome] /\ Fresh' /\ SuccessIsNew'
      /\ DOMAIN cache' = Key /\ \A k \in Key : cache'[k] \in Entry(k) \cup {NoEntry}
  <2>1. CASE /\ Cached(at) # {}
             /\ got' = [got EXCEPT ![at] = Reused(at)]
             /\ at' = "macro"
             /\ UNCHANGED cache
    BY <1>1, <2>1, ReusedKeeps DEF TypeOK
  <2>2. CASE \E reply \in Replies(at) : Take(at, Provider(at, reply), "macro")
    <3>1. PICK reply \in Replies("rss") : Take("rss", Provider("rss", reply), "macro")
      BY <1>1, <2>2
    <3>2. Provider("rss", reply) \in Given
      BY <1>2, <3>1, ProviderGives DEF Replies, Reply
    <3> QED
      BY <1>1, <1>2, <3>1, <3>2, TakeKeeps
  <2> QED
    BY <2>1, <2>2 DEF ReadRSS
<1>4. TypeOK'
  <2>1. at' \in Resting \cup {Sources[i] : i \in 1 .. 12} \cup {"sleep", "ask", "price"}
    BY <1>3, Places DEF Resting
  <2> QED
    BY <1>1, <1>3, <2>1 DEF TypeOK, coolVars
<1>5. NewsInOrder'
  BY <1>3 DEF NewsInOrder, BeforeGDELT, AfterNews
<1> QED
  BY <1>1, <1>3, <1>4, <1>5 DEF QuoteIsNewest, Done, FileKnows, SleepSuffices, WaitsCounted, coolVars

\* The macro series are all read through the cache.
LEMMA MacroIInv ==
  ASSUME IInv, ReadMacro
  PROVE  IInv'
<1> USE DEF IInv
<1>1. at = "macro" /\ UNCHANGED <<coolVars, took, feeds, now, quote, flaky>>
  BY DEF ReadMacro
<1>2. PICK replies \in [Series -> UNION {Replies(s) : s \in Series}] :
        LET result == [s \in Series |-> Provider(s, replies[s])]
            worst  == IF \E s \in Series : result[s].status = "raises" THEN Raises
                      ELSE IF \E s \in Series : result[s].status = "too long" THEN TooLong
                      ELSE NoRows
        IN /\ GoOn(worst, "price")
           /\ got' = [k \in Key |-> IF k \in Series THEN ReadWithCache(k, result[k]) ELSE got[k]]
           /\ cache' = [k \in Key |-> IF k \in Series /\ result[k].status = "SUCCESS"
                                      THEN [some |-> TRUE, age |-> 0] ELSE cache[k]]
  BY DEF ReadMacro
<1> DEFINE result == [s \in Series |-> Provider(s, replies[s])]
<1>3. \A s \in Series : s \in Key \ {"connectors"} /\ s \notin Frame
  BY SourcesAssumption DEF Key, Single
<1>4. \A s \in Series : result[s] \in Given
  <2> TAKE s \in Series
  <2>1. replies[s] \in Reply
    BY <1>2 DEF Replies, Reply
  <2> QED
    BY <1>3, <2>1, ProviderGives
<1>5. at' \in {"raised", "too long", "price"}
  BY <1>2 DEF GoOn
<1>6. /\ got' = [k \in Key |-> IF k \in Series THEN ReadWithCache(k, result[k]) ELSE got[k]]
      /\ cache' = [k \in Key |-> IF k \in Series /\ result[k].status = "SUCCESS"
                                 THEN [some |-> TRUE, age |-> 0] ELSE cache[k]]
  BY <1>2
<1> HIDE DEF result
<1>7. ASSUME NEW s \in Series
      PROVE  LET r == ReadWithCache(s, result[s])
             IN  r \in Outcome /\ r.age < TTL[s] /\ (r.status = "SUCCESS" => r.age = 0)
  BY <1>3, <1>4, GivenOrCached
<1>8. /\ got' \in [Key -> Outcome]
      /\ \A k \in Key \ Series : got'[k] = got[k]
      /\ \A k \in Series : got'[k] = ReadWithCache(k, result[k])
  BY <1>3, <1>6, <1>7 DEF TypeOK
<1>9. Fresh' /\ SuccessIsNew'
  <2>1. took \in Nat /\ took' = took
    BY <1>1, TookType
  <2>2. ASSUME NEW s \in Series PROVE got'[s].age < TTL[s] + took
    <3>1. got'[s].age < TTL[s] /\ got'[s].age \in Nat /\ TTL[s] \in Nat
      BY <1>3, <1>7, <1>8, SourcesAssumption DEF Outcome
    <3> QED
      BY <2>1, <3>1
  <2>3. Fresh'
    BY <1>8, <2>1, <2>2 DEF Fresh
  <2> QED
    BY <1>3, <1>7, <1>8, <2>1, <2>3 DEF SuccessIsNew, Key
<1>10. DOMAIN cache' = Key /\ \A k \in Key : cache'[k] \in Entry(k) \cup {NoEntry}
  <2>1. \A k \in Key : [some |-> TRUE, age |-> 0] \in Entry(k)
    <3> TAKE k \in Key
    <3>1. 0 \in 0 .. TTL[k] - 1
      BY SourcesAssumption
    <3> QED
      BY <3>1 DEF Entry
  <2> QED
    BY <1>6, <2>1 DEF TypeOK
<1>11. TypeOK'
  <2>1. at' \in Resting \cup {Sources[i] : i \in 1 .. 12} \cup {"sleep", "ask", "price"}
    BY <1>5, Places DEF Resting
  <2> QED
    BY <1>1, <1>8, <1>10, <2>1 DEF TypeOK, coolVars
<1>12. NewsInOrder'
  <2>1. {"connectors", "gdelt", "newsapi", "rss"} \subseteq Key \ Series
    BY SourcesAssumption DEF Key, Single
  <2>2. got["rss"] # NotRead \/ got[NewsSource].status = "SUCCESS"
    BY <1>1 DEF NewsInOrder, AfterNews
  <2>3. got'["rss"] # NotRead \/ got'[NewsSource'].status = "SUCCESS"
    BY <1>8, <2>1, <2>2 DEF NewsSource
  <2> QED
    BY <1>5, <2>3 DEF NewsInOrder, BeforeGDELT
<1> QED
  BY <1>1, <1>5, <1>9, <1>11, <1>12 DEF QuoteIsNewest, Done, FileKnows, SleepSuffices, WaitsCounted, coolVars

\* The price is that of the newest bar, or without bars that of a spot source.
LEMMA QuoteIInv ==
  ASSUME IInv, FindQuote
  PROVE  IInv'
<1> USE DEF IInv
<1>1. /\ at = "price" /\ at' = "done"
      /\ UNCHANGED <<coolVars, got, took, cache, feeds, now, flaky>>
  BY DEF FindQuote
<1>2. HasBars' = HasBars /\ QuoteFrame' = QuoteFrame
  <2>1. \A f \in Frame : Opened(f)' = Opened(f)
    BY <1>1 DEF Opened
  <2> QED
    BY <1>1 DEF HasBars, QuoteFrame, Opened
<1>3. /\ quote' \in [from : Frame \cup {Spots[i] : i \in 1 .. 3} \cup {"none"}, age : Nat]
      /\ quote'.age = IF HasBars THEN got[QuoteFrame].age ELSE 0
  <2>1. CASE HasBars
    <3>1. quote' = [from |-> QuoteFrame, age |-> got[QuoteFrame].age]
      BY <2>1 DEF FindQuote
    <3>2. QuoteFrame \in Frame
      BY <2>1, NewestBar
    <3>3. got[QuoteFrame].age \in Nat
      BY <3>2, OpenedType
    <3> QED
      BY <2>1, <3>1, <3>2, <3>3
  <2>2. CASE ~HasBars
    <3>1. PICK replies \in [1 .. 3 -> {"sane", "insane", "none"}] : quote' = FetchQuote(replies)
      BY <2>2 DEF FindQuote
    <3> DEFINE sane == {i \in 1 .. 3 : replies[i] = "sane"}
               first == CHOOSE i \in sane : \A j \in sane : i <= j
    <3>2. quote' = IF sane = {} THEN NoQuote ELSE [from |-> Spots[first], age |-> 0]
      BY <3>1 DEF FetchQuote
    <3>3. sane # {} => first \in 1 .. 3
      <4>1. ASSUME sane # {} PROVE \E i \in sane : \A j \in sane : i <= j
        <5>1. sane \subseteq {1, 2, 3}
          OBVIOUS
        <5> HIDE DEF sane
        <5>2. CASE 1 \in sane
          BY <5>1, <5>2
        <5>3. CASE 1 \notin sane /\ 2 \in sane
          BY <5>1, <5>3
        <5>4. CASE 1 \notin sane /\ 2 \notin sane
          <6>1. 3 \in sane /\ \A j \in sane : j = 3
            BY <4>1, <5>1, <5>4
          <6> QED
            BY <6>1
        <5> QED
          BY <5>2, <5>3, <5>4
      <4> QED
        BY <4>1
    <3> HIDE DEF sane, first
    <3> QED
      BY <2>2, <3>2, <3>3 DEF NoQuote
  <2> QED
    BY <2>1, <2>2
<1>4. TypeOK'
  <2>1. at' \in Resting \cup {Sources[i] : i \in 1 .. 12} \cup {"sleep", "ask", "price"}
    BY <1>1, Places DEF Resting
  <2> QED
    BY <1>1, <1>3, <2>1 DEF TypeOK, coolVars
<1>5. QuoteIsNewest'
  BY <1>1, <1>2, <1>3 DEF QuoteIsNewest
<1>6. NewsInOrder'
  BY <1>1 DEF NewsInOrder, BeforeGDELT, AfterNews, NewsSource
<1> QED
  BY <1>1, <1>4, <1>5, <1>6 DEF Fresh, SuccessIsNew, FileKnows, SleepSuffices, WaitsCounted, coolVars

\* An entry ages within its time to live, or is gone.
LEMMA AgedEntry ==
  ASSUME TypeOK, NEW k \in Key
  PROVE  Aged(k) \in Entry(k) \cup {NoEntry}
<1>1. CASE Cached(k) = {} \/ cache[k].age + 1 >= TTL[k]
  BY <1>1 DEF Aged
<1>2. CASE ~(Cached(k) = {} \/ cache[k].age + 1 >= TTL[k])
  <2>1. cache[k] \in Entry(k)
    BY <1>2 DEF TypeOK, Cached
  <2>2. TTL[k] \in Nat
    BY SourcesAssumption
  <2>3. Aged(k) = [cache[k] EXCEPT !.age = cache[k].age + 1]
    BY <1>2 DEF Aged
  <2>4. cache[k].age + 1 \in 0 .. TTL[k] - 1
    BY <1>2, <2>1, <2>2 DEF Entry
  <2> QED
    BY <2>1, <2>3, <2>4 DEF Entry
<1> QED
  BY <1>1, <1>2

\* While the collection waits, what it has read ages as fast as it takes time.
LEMMA WaitKeeps ==
  ASSUME TypeOK, Fresh, SuccessIsNew, Waits
  PROVE  /\ got' \in [Key -> Outcome] /\ took' \in 0 .. Longest
         /\ Fresh' /\ SuccessIsNew'
         /\ \A k \in Key : got[k] = NotRead => got'[k] = NotRead
         /\ \A k \in Key : got'[k].status = got[k].status
         /\ \A k \in Key : got[k] # NotRead => got'[k] # NotRead
<1>1. CASE took = Longest
  BY <1>1 DEF Waits, TypeOK, Fresh, SuccessIsNew
<1>2. CASE took # Longest
  <2>1. took' = took + 1 /\ got' = [k \in Key |-> OlderBy1(got[k])]
    BY <1>2 DEF Waits
  <2>2. took \in Nat /\ took' \in 0 .. Longest
    BY <1>2, <2>1, TookType
  <2>3. ASSUME NEW k \in Key
        PROVE  /\ got'[k] \in Outcome
               /\ got'[k].status = got[k].status /\ got'[k].some = got[k].some
               /\ got[k].some => got'[k].age = got[k].age + 1
               /\ ~got[k].some => got'[k] = got[k]
    <3>1. got[k] \in Outcome /\ got'[k] = OlderBy1(got[k])
      BY <2>1 DEF TypeOK
    <3>2. CASE got[k].some
      <4>1. got'[k] = [got[k] EXCEPT !.age = got[k].age + 1]
        BY <3>1, <3>2 DEF OlderBy1
      <4>2. got[k].age \in Nat
        BY DEF TypeOK, Outcome
      <4>3. got[k].age + 1 \in Nat
        BY <4>2
      <4> QED
        BY <3>1, <3>2, <4>1, <4>3 DEF Outcome
    <3>3. CASE ~got[k].some
      BY <3>1, <3>3 DEF OlderBy1
    <3> QED
      BY <3>2, <3>3
  <2>4. got' \in [Key -> Outcome]
    BY <2>1, <2>3
  <2>5. Fresh'
    <3> SUFFICES ASSUME NEW k \in Key, got'[k].some PROVE got'[k].age < TTL[k] + took'
      BY DEF Fresh
    <3>1. got[k].some /\ got[k].age \in Nat /\ TTL[k] \in Nat /\ got'[k].age = got[k].age + 1
      BY <2>3, SourcesAssumption DEF TypeOK, Outcome
    <3> QED
      BY <2>1, <2>2, <3>1 DEF Fresh
  <2>6. SuccessIsNew'
    <3> SUFFICES ASSUME NEW k \in Frame \cup Series, got'[k].status = "SUCCESS"
                 PROVE  got'[k].age <= took'
      BY DEF SuccessIsNew
    <3>1. k \in Key
      BY DEF Key
    <3>2. got[k].age \in Nat /\ got[k].age <= took
      BY <2>3, <3>1 DEF SuccessIsNew, TypeOK, Outcome
    <3>3. got'[k].age = got[k].age + 1 \/ got'[k].age = got[k].age
      BY <2>3, <3>1
    <3> QED
      BY <2>1, <2>2, <3>2, <3>3
  <2>7. NotRead.status = "not read" /\ NotRead.some = FALSE
    BY DEF NotRead, Failure, Result
  <2>8. ASSUME NEW k \in Key, got[k] # NotRead PROVE got'[k] # NotRead
    BY <2>3, <2>7, <2>8
  <2> QED
    BY <2>2, <2>3, <2>4, <2>5, <2>6, <2>7, <2>8
<1> QED
  BY <1>1, <1>2

\* Time ages the entries and evicts the ones that are due.
LEMMA TickIInv ==
  ASSUME IInv, Tick
  PROVE  IInv'
<1> USE DEF IInv
<1>1. /\ at \notin {"done", "raised", "too long", "ask"} /\ (at = "sleep" => wait > 0)
      /\ at \notin {"idle", "sleep"} => took < MaxTook
      /\ (at = "idle" /\ UNCHANGED <<got, took>>) \/ (at # "idle" /\ Waits)
      /\ cache' = [k \in Key |-> Aged(k)]
      /\ feeds' = [f \in Feed |-> [feeds[f] EXCEPT !.kept = IF @ > 0 THEN @ - 1 ELSE 0]]
      /\ now' = IF flaky = Frame THEN (now + 1) % Day ELSE now
      /\ known' = Older(known) /\ filed' = Older(filed) /\ asked' = Older(asked)
      /\ wait' = IF wait > 0 THEN wait - 1 ELSE 0
      /\ UNCHANGED <<excused, at, quote, flaky>>
  BY DEF Tick, CoolTick, Resting
<1>2. /\ CooldownTicks \in Nat
      /\ known \in 0 .. CooldownTicks /\ filed \in 0 .. CooldownTicks
      /\ asked \in 0 .. CooldownTicks /\ wait \in 0 .. CooldownTicks
  BY CooldownAssumption DEF TypeOK, Age
<1>3. \A a \in 0 .. CooldownTicks :
        Older(a) \in 0 .. CooldownTicks /\ (Older(a) = a + 1 \/ Older(a) = CooldownTicks)
  BY <1>2 DEF Older, Later
<1>10. /\ known' = Older(known) /\ filed' = Older(filed) /\ asked' = Older(asked)
       /\ wait' = IF wait > 0 THEN wait - 1 ELSE 0
       /\ excused' = excused /\ at' = at /\ (at = "sleep" => wait > 0)
  BY <1>1
<1>11. at \notin {"idle", "sleep"} => took < MaxTook
  BY <1>1
<1>7. /\ got' \in [Key -> Outcome] /\ took' \in 0 .. Longest
      /\ Fresh' /\ SuccessIsNew'
      /\ \A k \in Key : got[k] = NotRead => got'[k] = NotRead
      /\ \A k \in Key : got'[k].status = got[k].status
      /\ \A k \in Key : got[k] # NotRead => got'[k] # NotRead
  <2>1. CASE at = "idle" /\ UNCHANGED <<got, took>>
    BY <2>1 DEF TypeOK, Fresh, SuccessIsNew
  <2>2. CASE Waits
    BY <2>2, WaitKeeps
  <2> QED
    BY <1>1, <2>1, <2>2
<1>4. TypeOK'
  <2>1. DOMAIN cache' = Key /\ \A k \in Key : cache'[k] \in Entry(k) \cup {NoEntry}
    <3>1. \A k \in Key : Aged(k) \in Entry(k) \cup {NoEntry}
      BY AgedEntry
    <3> QED
      BY <1>1, <3>1
  <2>2. feeds' \in [Feed -> [fails : 0 .. 3, erred : BOOLEAN, kept : 0 .. FeedTTL, alien : BOOLEAN]]
    <3>1. ASSUME NEW f \in Feed
          PROVE  [feeds[f] EXCEPT !.kept = IF @ > 0 THEN @ - 1 ELSE 0]
                   \in [fails : 0 .. 3, erred : BOOLEAN, kept : 0 .. FeedTTL, alien : BOOLEAN]
      <4>1. feeds[f] \in [fails : 0 .. 3, erred : BOOLEAN, kept : 0 .. FeedTTL, alien : BOOLEAN]
        BY DEF TypeOK
      <4> DEFINE less == IF feeds[f].kept > 0 THEN feeds[f].kept - 1 ELSE 0
      <4>2. less \in 0 .. FeedTTL
        BY <4>1, SourcesAssumption
      <4>3. [feeds[f] EXCEPT !.kept = IF @ > 0 THEN @ - 1 ELSE 0] = [feeds[f] EXCEPT !.kept = less]
        OBVIOUS
      <4> HIDE DEF less
      <4> QED
        BY <4>1, <4>2, <4>3
    <3> QED
      BY <1>1, <3>1
  <2>3. now' \in 0 .. Day - 1
    <3>1. Day \in Nat /\ 0 < Day
      BY SourcesAssumption, Places DEF Day
    <3>2. now \in 0 .. Day - 1
      BY DEF TypeOK
    <3>3. (now + 1) % Day \in 0 .. Day - 1
      BY <3>1, <3>2
    <3> QED
      BY <1>1, <3>2, <3>3
  <2>4. <<known, filed, asked>>' \in Age \X Age \X Age
    BY <1>1, <1>2, <1>3 DEF Age
  <2>5. wait' \in Age
    BY <1>2, <1>10 DEF Age
  <2> QED
    BY <1>1, <1>7, <2>1, <2>2, <2>3, <2>4, <2>5 DEF TypeOK
<1>5. FileKnows'
  BY <1>2, <1>10 DEF FileKnows, Older, Later
<1>6. SleepSuffices'
  <2>1. CASE at # "sleep"
    BY <1>1, <2>1 DEF SleepSuffices
  <2>2. CASE at = "sleep"
    <3>1. wait' = wait - 1 /\ at' = "sleep" /\ asked' = Older(asked)
      BY <1>1, <2>2
    <3>2. ~excused => Older(asked) + (wait - 1) >= CooldownTicks
      <4>1. ~excused => asked + wait >= CooldownTicks
        BY <2>2 DEF SleepSuffices
      <4>2. Older(asked) = asked + 1 \/ Older(asked) = CooldownTicks
        BY <1>2, <1>3
      <4>3. wait > 0
        BY <1>10, <2>2
      <4> QED
        BY <1>2, <4>1, <4>2, <4>3
    <3> QED
      BY <1>10, <3>1, <3>2 DEF SleepSuffices
  <2> QED
    BY <1>1, <2>1, <2>2
<1>8. WaitsCounted'
  <2>1. CASE at = "idle" /\ UNCHANGED <<got, took>>
    BY <1>1, <2>1 DEF WaitsCounted
  <2>2. CASE at = "sleep" /\ Waits
    <3>1. took \in Nat /\ took + wait <= Longest /\ took # Longest /\ wait' = wait - 1
      BY <1>1, <1>2, <2>2, TookType DEF WaitsCounted
    <3>2. took' = took + 1
      BY <2>2, <3>1 DEF Waits
    <3> QED
      BY <1>1, <1>2, <2>2, <3>1, <3>2, TookType DEF WaitsCounted
  <2>3. CASE at \notin {"idle", "sleep"} /\ Waits
    <3>1. took \in Nat /\ took < MaxTook
      BY <1>11, <2>3, TookType
    <3>3. took # Longest
      BY <3>1, TookType
    <3>2. took' = took + 1
      BY <2>3, <3>3 DEF Waits
    <3>4. took' <= MaxTook
      BY <3>1, <3>2, TookType
    <3> QED
      BY <1>10, <2>3, <3>4 DEF WaitsCounted
  <2> QED
    BY <1>1, <2>1, <2>2, <2>3
<1>9. NewsInOrder'
  <2>1. {"connectors", "gdelt", "newsapi", "rss"} \subseteq Key
    BY DEF Key, Single
  <2>2. NewsSource' = NewsSource
    BY <1>7, <2>1 DEF NewsSource
  <2>3. NewsSource \in Key
    BY <2>1 DEF NewsSource
  <2> QED
    BY <1>1, <1>7, <2>1, <2>2, <2>3 DEF NewsInOrder
<1> QED
  BY <1>1, <1>4, <1>5, <1>6, <1>7, <1>8, <1>9 DEF QuoteIsNewest, Done

\* Another process at GDELT renews the stamp of the file.
LEMMA OtherIInv ==
  ASSUME IInv, Other
  PROVE  IInv'
<1> USE DEF IInv
<1>1. /\ filed = CooldownTicks /\ filed' = 0 /\ asked' = 0
      /\ excused' = (excused \/ at \in {"sleep", "ask"})
      /\ UNCHANGED <<known, wait, at, got, took, cache, feeds, now, quote, flaky>>
  BY DEF Other, OtherAsks
<1>2. TypeOK'
  <2>1. <<known, filed, asked>>' \in Age \X Age \X Age
    BY <1>1, CooldownAssumption DEF TypeOK, Age
  <2>2. excused' \in BOOLEAN
    BY <1>1
  <2> QED
    BY <1>1, <2>1, <2>2 DEF TypeOK
<1>3. FileKnows'
  BY <1>1 DEF FileKnows
<1>4. SleepSuffices'
  <2>1. at \in {"sleep", "ask"} => excused'
    BY <1>1
  <2> QED
    BY <1>1, <2>1 DEF SleepSuffices
<1>5. QuoteIsNewest'
  BY <1>1 DEF QuoteIsNewest, Done, HasBars, QuoteFrame, Opened
<1> QED
  BY <1>1, <1>2, <1>3, <1>4, <1>5
  DEF Fresh, SuccessIsNew, NewsInOrder, NewsSource, WaitsCounted

\* Beginning, handing over and restarting ask nobody.
LEMMA RestIInv ==
  ASSUME IInv, Collect \/ HandOver \/ Restart
  PROVE  IInv'
<1> USE DEF IInv
<1>1. at' \in {"h1", "idle"} /\ UNCHANGED <<filed, asked, excused, now, flaky>>
  BY DEF Collect, HandOver, Restart, CoolRestart, coolVars
<1>2. (known' = known /\ wait' = wait) \/ (known' = CooldownTicks /\ wait' = 0)
  BY DEF Collect, HandOver, Restart, CoolRestart, coolVars
<1>3. \/ got' = got /\ took' = took /\ at = "idle"
      \/ got' = [k \in Key |-> NotRead] /\ took' = 0
  BY DEF Collect, HandOver, Restart
<1>4. quote' = quote \/ quote' = NoQuote
  BY DEF Collect, HandOver, Restart
<1>5. cache' = cache \/ cache' = [k \in Key |-> NoEntry]
  BY DEF Collect, HandOver, Restart
<1>6. feeds' = feeds \/ feeds' = [f \in Feed |-> HealthyFeed]
  BY DEF Collect, HandOver, Restart
<1>7. NotRead \in Outcome /\ NotRead.some = FALSE /\ NotRead.status = "not read"
  BY DEF NotRead, Failure, Result, Outcome
<1>8. TypeOK'
  <2>1. at' \in Resting \cup {Sources[i] : i \in 1 .. 12} \cup {"sleep", "ask", "price"}
    BY <1>1, Places DEF Resting
  <2>2. quote' \in [from : Frame \cup {Spots[i] : i \in 1 .. 3} \cup {"none"}, age : Nat]
    BY <1>4 DEF NoQuote, TypeOK
  <2>3. got' \in [Key -> Outcome]
    BY <1>3, <1>7 DEF TypeOK
  <2>4. DOMAIN cache' = Key /\ \A k \in Key : cache'[k] \in Entry(k) \cup {NoEntry}
    BY <1>5 DEF TypeOK
  <2>5. feeds' \in [Feed -> [fails : 0 .. 3, erred : BOOLEAN, kept : 0 .. FeedTTL, alien : BOOLEAN]]
    <3>1. HealthyFeed \in [fails : 0 .. 3, erred : BOOLEAN, kept : 0 .. FeedTTL, alien : BOOLEAN]
      BY SourcesAssumption DEF HealthyFeed
    <3> QED
      BY <1>6, <3>1 DEF TypeOK
  <2>6. known' \in Age /\ wait' \in Age /\ took' \in 0 .. Longest
    BY <1>2, <1>3, TookType, CooldownAssumption DEF TypeOK, Age
  <2> QED
    BY <1>1, <2>1, <2>2, <2>3, <2>4, <2>5, <2>6 DEF TypeOK
<1>9. Fresh' /\ SuccessIsNew'
  BY <1>3, <1>7 DEF Fresh, SuccessIsNew, Key
<1>10. NewsInOrder'
  <2>1. got'["gdelt"] = NotRead /\ got'["newsapi"] = NotRead /\ got'["rss"] = NotRead
    BY <1>3 DEF NewsInOrder, BeforeGDELT, Key, Single
  <2> QED
    BY <1>1, <2>1 DEF NewsInOrder, AfterNews
<1>11. WaitsCounted'
  BY <1>1, <1>3, TookType DEF WaitsCounted
<1> QED
  BY <1>1, <1>8, <1>9, <1>10, <1>11 DEF QuoteIsNewest, Done, FileKnows, SleepSuffices

\* Every step keeps the invariant.
LEMMA StepIInv == IInv /\ [Next]_vars => IInv'
<1> SUFFICES ASSUME IInv, [Next]_vars PROVE IInv'
  OBVIOUS
<1>1. CASE ReadMarket \/ ReadInstitutional \/ ReadCalendar
  <2>1. /\ Frame \cup {"dxy"} \in SUBSET (Frame \cup {"dxy", "cot", "gld", "calendar"})
        /\ {"cot", "gld"} \in SUBSET (Frame \cup {"dxy", "cot", "gld", "calendar"})
        /\ {"calendar"} \in SUBSET (Frame \cup {"dxy", "cot", "gld", "calendar"})
    OBVIOUS
  <2> QED
    BY <1>1, <2>1, ReadIInv DEF ReadMarket, ReadInstitutional, ReadCalendar
<1>2. CASE Step /\ ~(ReadMarket \/ ReadInstitutional \/ ReadCalendar)
  BY <1>2, ConnectorsIInv, AwaitIInv, AskIInv, NewsAPIIInv, RSSIInv, MacroIInv, QuoteIInv DEF Step
<1>3. CASE Collect \/ HandOver \/ Restart
  BY <1>3, RestIInv
<1>4. CASE Tick
  BY <1>4, TickIInv
<1>5. CASE Other
  BY <1>5, OtherIInv
<1>6. CASE UNCHANGED vars
  <2>1. UNCHANGED <<known, filed, wait, asked, excused, at, got, took, cache, feeds, now, quote, flaky>>
    BY <1>6 DEF vars, coolVars
  <2>2. TypeOK'
    BY <2>1 DEF IInv, TypeOK
  <2>3. QuoteIsNewest'
    BY <2>1 DEF IInv, QuoteIsNewest, Done, HasBars, QuoteFrame, Opened
  <2>4. NewsInOrder'
    BY <2>1 DEF IInv, NewsInOrder, NewsSource
  <2> QED
    BY <2>1, <2>2, <2>3, <2>4
    DEF IInv, Fresh, SuccessIsNew, FileKnows, SleepSuffices, WaitsCounted
<1> QED
  BY <1>1, <1>2, <1>3, <1>4, <1>5, <1>6 DEF Next, Step

\* The invariant holds in every state.
LEMMA Reachable == Spec => []IInv
BY InitIInv, StepIInv, PTL DEF Spec
-----------------------------------------------------------------------------
\* _read_with_cache, InMemoryCacheRepository: whatever failed and for how long, what
\* reaches the engines exceeds its time to live by no more than the collection took.
THEOREM NothingOutlivesItsTTL == Spec => []DataWithinTTL
<1>1. IInv => DataWithinTTL
  BY DEF IInv, Fresh, DataWithinTTL
<1> QED
  BY <1>1, Reachable, PTL

\* collect: every tick of a collection counts in what it took, the bound of the
\* count is never met.
THEOREM NoWaitGoesUncounted == Spec => [][Tick /\ at # "idle" => took' = took + 1]_vars
<1>1. IInv /\ [Next]_vars => [Tick /\ at # "idle" => took' = took + 1]_vars
  <2> SUFFICES ASSUME IInv, Tick, at # "idle" PROVE took' = took + 1
    OBVIOUS
  <2>1. Waits /\ ((at = "sleep" /\ wait > 0) \/ took < MaxTook)
    BY DEF Tick
  <2>2. took # Longest
    <3>1. wait \in Nat /\ took \in Nat
      BY TookType DEF IInv, TypeOK, Age
    <3> QED
      BY <2>1, <3>1, TookType DEF IInv, WaitsCounted
  <2> QED
    BY <2>1, <2>2 DEF Waits
<1> QED
  BY <1>1, Reachable, PTL DEF Spec

\* _combine_bar_results and ProviderMacroRepository.latest: SUCCESS means that no
\* part comes from the cache, all was fetched in this collection.
THEOREM SuccessMeansFresh == Spec => []SuccessIsFresh
<1>1. IInv => SuccessIsFresh
  <2> SUFFICES ASSUME IInv, Done PROVE SuccessIsFresh
    BY DEF SuccessIsFresh
  <2>1. ASSUME CombineBarResults = "SUCCESS" PROVE quote.age <= took
    <3>1. CASE HasBars
      <4>1. \A f \in Frame : got[f].status = "SUCCESS"
        BY <2>1, <3>1 DEF CombineBarResults, HasBars
      <4>2. QuoteFrame \in Frame
        BY <3>1, NewestBar DEF IInv
      <4> QED
        BY <3>1, <4>1, <4>2 DEF IInv, SuccessIsNew, QuoteIsNewest
    <3>2. CASE ~HasBars
      BY <3>2, TookType DEF IInv, QuoteIsNewest
    <3> QED
      BY <3>1, <3>2
  <2>2. ASSUME MacroStatus = "SUCCESS" PROVE \A s \in Series : got[s].age <= took
    BY <2>2 DEF IInv, SuccessIsNew, MacroStatus
  <2> QED
    BY <2>1, <2>2 DEF SuccessIsFresh
<1> QED
  BY <1>1, Reachable, PTL

\* _derive_gold_price_from_bars: with hourly bars just fetched the price is no older
\* than they are, if every frame's bars span whole hours of the day.
THEOREM FreshBarsPriceFresh ==
  ASSUME \A f \in Frame : Length[f] % Length["h1"] = 0
  PROVE  Spec => []PriceIsCurrent
<1>1. IInv => PriceIsCurrent
  <2> SUFFICES ASSUME IInv, Done, got["h1"].some PROVE quote.age <= got["h1"].age
    BY DEF PriceIsCurrent
  <2> DEFINE q == QuoteFrame
             age == got[q].age
             new == got["h1"].age
  <2>1. TypeOK /\ HasBars /\ "h1" \in Frame
    BY Places DEF IInv, HasBars
  <2>2. /\ q \in Frame /\ Opened(q) <= Opened("h1")
        /\ Opened(q) = Opened("h1") => q = "h1"
    BY <2>1, NewestBar
  <2>3. quote.age = age
    BY <2>1 DEF IInv, QuoteIsNewest
  <2>4. /\ age \in Nat /\ new \in Nat /\ now \in Nat /\ now < Day
        /\ Opened(q) \in Nat /\ Opened("h1") \in Nat
    BY <2>1, <2>2, OpenedType
  <2>5. /\ Day \in Nat /\ 0 < Day /\ Length[q] \in Nat /\ 0 < Length[q]
        /\ Length["h1"] \in Nat /\ 0 < Length["h1"]
        /\ Day % Length[q] = 0 /\ Length[q] % Length["h1"] = 0
    BY <2>1, <2>2, SourcesAssumption, Places DEF Day
  <2>6. Opened("h1") = (((now - new) % Day) % Length["h1"]) + new
    BY DEF Opened
  <2>7. Opened(q) = (((now - age) % Day) % Length[q]) + age
    BY DEF Opened
  <2>8. ASSUME new < age PROVE Opened("h1") <= Opened(q)
    <3> HIDE DEF q, age, new
    <3>1. (((now - new) % Day) % Length["h1"]) + new <= (((now - age) % Day) % Length[q]) + age
      BY <2>4, <2>5, <2>8, OlderOpensEarlier
    <3> QED
      BY <2>6, <2>7, <3>1
  <2>9. CASE new < age
    <3>1. q = "h1"
      BY <2>2, <2>4, <2>8, <2>9
    <3> QED
      BY <2>3, <2>4, <3>1
  <2>10. CASE ~(new < age)
    BY <2>3, <2>4, <2>10
  <2> QED
    BY <2>9, <2>10
<1> QED
  BY <1>1, Reachable, PTL

\* ProviderNewsEventRepository.latest: a collection ends without news only when
\* a source has answered that there is none, or all down to RSS were asked.
THEOREM OutagesAskEverySource == Spec => []OutageNeverSilences
<1>1. IInv => OutageNeverSilences
  BY DEF IInv, NewsInOrder, AfterNews, OutageNeverSilences, Done, NewsSource
<1> QED
  BY <1>1, Reachable, PTL

\* _respect_cooldown: a request to GDELT is a cooldown away from the last one,
\* from whichever process, unless another asked since this one looked or the
\* time of one could not be written.
THEOREM GDELTIsSpaced == Spec => GDELTSpaced
<1>1. IInv /\ [Next]_vars
        => [at = "ask" /\ at' \notin {"ask", "idle"} => asked = CooldownTicks \/ excused]_vars
  BY DEF IInv, SleepSuffices
<1> QED
  BY <1>1, Reachable, PTL DEF Spec, GDELTSpaced

\* Types and bounds: no entry of the cache is kept beyond its time to live,
\* and no wait for GDELT exceeds the cooldown.
THEOREM SourcesTypes == Spec => []TypeOK
<1>1. IInv => TypeOK
  BY DEF IInv
<1> QED
  BY <1>1, Reachable, PTL
==============================================================================
