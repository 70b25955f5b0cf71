------------------------------- MODULE Decision -------------------------------
(***************************************************************************)
(* From features to a decision: run_once of the orchestrator between the   *)
(* collection of the data and the journal (app/application/orchestrator.py) *)
(* with the research desk (app/ai/research_desk.py), the decision engine    *)
(* (app/application/engines/decision_engine.py), the execution policy and   *)
(* the adapters of the three modes.                                        *)
(*                                                                         *)
(* A cycle is four steps: the six engines report, the committee votes on   *)
(* their reports, the decision engine decides, the modes present.  What the *)
(* world holds (features, macro series, flows, articles, answers of the    *)
(* models) is chosen from the constants.                                   *)
(***************************************************************************)
EXTENDS Engines, Consensus, FiniteSets

CONSTANTS
  Markets,      \* [f, stale, rsi, ema, spot]: the technical features and the quote
  Macros,       \* [m, size]: the macro features and the number of series
  Flows,        \* [cot, etf]
  Wires,        \* [fresh, recent, newsAI, geoAI, answer, bullish, bearish, hits, topics, countries]
  Answers,      \* what an AI member may vote, as ballots
  ConfidenceCap \* config.fallback_confidence_cap

ASSUME DecisionAssumption ==
  /\ Answers \subseteq Ballot
  /\ ConfidenceCap \in Percent
  /\ {Deterministic, Fallback} \cap AIProviders = {}

\* What the features are, as the builders of app/features make them: prices,
\* lengths and the denominators of averages are positive where there are enough
\* candles to look at them.
ASSUME FeatureAssumption ==
  /\ \A market \in Markets :
       /\ market.f.count \in Nat
       /\ {market.f.close, market.f.spread, market.f.momentum, market.f.quality} \subseteq Int
       /\ {market.f.per, market.f.base} \subseteq Nat \ {0}
  /\ \A macro \in Macros :
       /\ {macro.size, macro.m.observations, macro.m.events} \subseteq Nat
       /\ macro.m.change \in Int
       /\ \A id \in DOMAIN macro.m.series : macro.m.series[id] \in Int
  /\ \A wire \in Wires :
       /\ {wire.fresh, wire.recent, wire.bullish, wire.bearish,
           wire.hits, wire.topics, wire.countries} \subseteq Nat
       /\ {wire.answer.magnitude, wire.answer.severity, wire.answer.reliability} \subseteq Int

VARIABLES
  stage,     \* "idle", "analyzed", "deliberated", "decided", "presented"; "backtested"
  reports,   \* the report of each engine
  spot,      \* the price of the quote, 0 without one
  deep,      \* the desk asks for deep reasoning
  votes,     \* the committee's votes, empty when the committee did not vote
  committee, \* the committee's report
  decision,  \* the DecisionReport
  modes      \* the presentation of each mode

vars == <<stage, reports, spot, deep, votes, committee, decision, modes>>

Engine == {"technical", "fundamental", "institutional", "news", "geopolitical", "regime"}
Mode   == {"physical", "forex", "etf"}
Action == {"BUY", "STRONG_BUY"}
Grave  == {"HIGH", "CRITICAL"}
Unset  == "unset"

SeqRange(s) == {s[i] : i \in DOMAIN s}
SumOver(h)  == h["technical"] + h["fundamental"] + h["institutional"]
               + h["news"] + h["geopolitical"] + h["regime"]

(***************************************************************************)
(* The analysis bundle.                                                    *)
(***************************************************************************)
Bundle(market, macro, flow, wire) ==
  LET t == TechnicalAnalysis(market.f, market.stale)
      f == FundamentalAnalysis(macro.m, macro.size)
      n == NewsAnalysis(wire.fresh, wire.newsAI, wire.answer, wire.bullish, wire.bearish)
      g == GeopoliticalAnalysis(wire.recent, wire.geoAI, wire.answer,
                                wire.hits, wire.topics, wire.countries)
      r == RegimeAnalysis(t, f, n, g)
  IN [technical |-> WithPullback(t, PullbackRisk(market.f, market.rsi, market.ema, r.regime)),
      fundamental |-> f, institutional |-> InstitutionalAnalysis(flow.cot, flow.etf),
      news |-> n, geopolitical |-> g, regime |-> r]

(***************************************************************************)
(* The research desk: eight roles, two of them on the fundamental and two  *)
(* on the institutional report.                                            *)
(***************************************************************************)
Roles == [e \in Engine |-> IF e \in {"fundamental", "institutional"} THEN 2 ELSE 1]

DeskRecommendation(report) ==
  CASE report.bias = "BULLISH" /\ report.score >= 70 -> "BUY"
    [] report.bias = "BEARISH" /\ report.score <= 30 -> "TAKE_PROFIT"
    [] OTHER -> "HOLD_OR_WAIT"

DeskWeight(b, recommendation) ==
  SumOver([e \in Engine |-> IF DeskRecommendation(b[e]) = recommendation
                            THEN Roles[e] * b[e].confidence ELSE 0])

Distance(a, b) == IF a > b THEN a - b ELSE b - a

\* How a bug would miss a shock: without the regime among the tests.
EscalatesByScoreAlone(b) ==
  \/ b.regime.confidence < 40
  \/ b.geopolitical.score < 30
  \/ Distance(b.technical.score, b.fundamental.score) > 60
  \/ Distance(b.technical.score, 50) < 10
  \/ b.technical.critical

\* The desk's second test reads the score of the geopolitical report as if low
\* meant danger; it is the other way round.
Escalates(b) ==
  \/ b.regime.confidence < 40
  \/ b.regime.regime \in {"EVENT_DRIVEN", "RISK_OFF", "HIGH_VOLATILITY"}
  \/ b.geopolitical.score < 30
  \/ Distance(b.technical.score, b.fundamental.score) > 60
  \/ Distance(b.technical.score, 50) < 10
  \/ b.technical.critical

DeskAverage(b) == Nearest(SumOver([e \in Engine |-> Roles[e] * b[e].confidence]), 8)

\* The report the desk writes itself when the AI is disabled.
FallbackCommittee(b) ==
  [provider |-> "deterministic_fallback", recommendation |-> "WAIT",
   confidence |-> Smaller(ConfidenceCap, DeskAverage(b)), level |-> "none",
   adjustment |-> FallbackAdjustment]

\* What the decision engine goes by without a desk.
NoDesk == [provider |-> "none", adjustment |-> 0]

\* _opposing_evidence: every vote for a side, when both sides have one.
Conflicts(cast) ==
  LET Side(d) == {m \in DOMAIN cast : cast[m].direction = d}
  IN  IF Side("BUY") = {} \/ Side("SELL") = {} THEN 0
      ELSE Cardinality(Side("BUY") \cup Side("SELL"))

(***************************************************************************)
(* The decision engine.                                                    *)
(***************************************************************************)
AggregateConfidence(b) == Nearest(SumOver([e \in Engine |-> b[e].confidence]), 6)

GraveRisks(b) ==
  SumOver([e \in Engine |-> Cardinality({i \in DOMAIN b[e].risks : b[e].risks[i] \in Grave})])

Blockers(b) ==
  OnlyIf(AggregateConfidence(b) < 60, "HIGH") \o OnlyIf(GraveRisks(b) > 1, "HIGH")

OpportunityScore(b) ==
  Clamp(Nearest(b.technical.score + b.fundamental.score + b.institutional.score
                + b.regime.score, 4) - 15 * Len(Blockers(b)))

Passed(b) == Blockers(b) = <<>>

\* config/decision_engine.json, in percent.
WeightOf(t, f, r, i, g, n) ==
  [technical |-> t, fundamental |-> f, regime |-> r, institutional |-> i,
   geopolitical |-> g, news |-> n]
Weights(regime) ==
  CASE regime = "EVENT_DRIVEN"    -> WeightOf(15, 35, 20, 10, 10, 10)
    [] regime = "RISK_OFF"        -> WeightOf(15, 20, 20, 10, 25, 10)
    [] regime = "HIGH_VOLATILITY" -> WeightOf(20, 20, 25, 10, 15, 10)
    [] OTHER                      -> WeightOf(25, 25, 15, 15, 10, 10)

InvestmentScore(b) ==
  Clamp(Nearest(SumOver([e \in Engine |-> Weights(b.regime.regime)[e] * b[e].score]), 100))

\* The four engines an alignment is counted over.
Aligning == {"technical", "fundamental", "institutional", "regime"}
AgreeOn(b, bias) == Cardinality({e \in Aligning : b[e].bias = bias}) >= 2

BiasVote(e, b) == Signed(b[e].bias, 1)
EngineConsensus(b) == SumOver([e \in Engine |-> BiasVote(e, b)])
ForIt(b)     == {e \in Engine : EngineConsensus(b) * BiasVote(e, b) > 0}
AgainstIt(b) == {e \in Engine : EngineConsensus(b) * BiasVote(e, b) < 0}

\* Four hundred times the reliability: an unsuccessful report counts a quarter.
Reliability(b, engines) ==
  SumOver([e \in Engine |-> IF e \notin engines THEN 0
                            ELSE IF b[e].status = "SUCCESS" THEN 4 * b[e].confidence
                            ELSE b[e].confidence])

\* Posterior odds are prior odds times 1 + alignment / 4, where alignment is
\* (for - against) / (for + against).
Posterior(b) ==
  LET p == Clip(1, 99, AggregateConfidence(b))
      a == Reliability(b, ForIt(b))
      c == Reliability(b, AgainstIt(b))
  IN  IF a + c = 0 THEN p
      ELSE Nearest(100 * p * (5 * a + 3 * c), p * (5 * a + 3 * c) + 4 * (100 - p) * (a + c))

Contradictions(b, cast) == Smaller(20, 3 * (Cardinality(AgainstIt(b)) + Conflicts(cast)))
MissingPenalty(b) ==
  Smaller(20, 4 * Cardinality({e \in Engine : b[e].status # "SUCCESS"}))

DecisionConfidence(b, report, cast) ==
  Clamp(Posterior(b) - Contradictions(b, cast) - MissingPenalty(b)
        + Clip(-15, 10, report.adjustment))

\* A bug: neither the filter nor the confidence keeps an action back.
RecommendationUngated(b, confidence) ==
  CASE AgreeOn(b, "BULLISH") -> IF InvestmentScore(b) >= 90 THEN "STRONG_BUY" ELSE "BUY"
    [] ~AgreeOn(b, "BULLISH") /\ AgreeOn(b, "BEARISH") ->
         IF InvestmentScore(b) <= 9 THEN "STRONG_SELL" ELSE "TAKE_PROFIT"
    [] OTHER -> "WAIT"

Recommendation(b, confidence) ==
  CASE ~Passed(b) \/ confidence < 60 -> "WAIT"
    [] Passed(b) /\ confidence >= 60 /\ AgreeOn(b, "BULLISH") ->
         IF InvestmentScore(b) >= 90 THEN "STRONG_BUY" ELSE "BUY"
    [] Passed(b) /\ confidence >= 60 /\ ~AgreeOn(b, "BULLISH") /\ AgreeOn(b, "BEARISH") ->
         IF InvestmentScore(b) <= 9 THEN "STRONG_SELL" ELSE "TAKE_PROFIT"
    [] OTHER -> "WAIT"

\* The recommendation's side, or the technical lean while waiting.
ExpectedDirection(call, bias) ==
  CASE call \in Action \/ (call = "WAIT" /\ bias = "BULLISH") -> "UP"
    [] call \in {"TAKE_PROFIT", "STRONG_SELL"} \/ (call = "WAIT" /\ bias = "BEARISH") -> "DOWN"
    [] OTHER -> "SIDEWAYS"

\* How a bug would lose a risk: the blockers and risks of four engines only.
RisksOfFour(b) ==
  b.technical.risks \o b.fundamental.risks \o b.institutional.risks \o b.regime.risks

\* The first ten; without any, one of medium severity.
RiskSummary(b) ==
  LET all == b.technical.risks \o b.fundamental.risks \o b.institutional.risks
             \o b.news.risks \o b.geopolitical.risks \o b.regime.risks \o Blockers(b)
  IN  IF all = <<>> THEN <<"MEDIUM">> ELSE SubSeq(all, 1, Smaller(10, Len(all)))

Decide(b, report, cast) ==
  LET confidence == DecisionConfidence(b, report, cast)
      call       == Recommendation(b, confidence)
  IN [recommendation |-> call, confidence |-> confidence, base |-> AggregateConfidence(b),
      opportunity |-> OpportunityScore(b), investment |-> InvestmentScore(b),
      move |-> b.technical.move, direction |-> ExpectedDirection(call, b.technical.bias),
      risks |-> RiskSummary(b)]

(***************************************************************************)
(* The unified outlook, the execution policy and the adapters.             *)
(***************************************************************************)
MarketBias(d) ==
  CASE d.recommendation \in Action -> "BULLISH"
    [] d.recommendation \in {"STRONG_SELL", "TAKE_PROFIT"} -> "BEARISH"
    [] OTHER -> "NEUTRAL"

Needs(move, opportunity, investment, confidence) ==
  [move |-> move, opportunity |-> opportunity, investment |-> investment,
   confidence |-> confidence]
\* Two configurations with a bug: thresholds too low for the short side and for
\* the physical mode.
MinimumShort ==
  [physical |-> Needs(50, 75, 70, 85), forex |-> Needs(10, 40, 30, 60),
   etf |-> Needs(40, 70, 65, 70)]
MinimumEager ==
  [physical |-> Needs(50, 75, 70, 65), forex |-> Needs(10, 60, 60, 60),
   etf |-> Needs(40, 70, 65, 70)]

Minimum ==
  [physical |-> Needs(50, 75, 70, 85), forex |-> Needs(10, 60, 60, 60),
   etf |-> Needs(40, 70, 65, 70)]

\* A policy with a bug: it looks for the gravest severity only.
PermitsHighRisk(mode, d, b) ==
  /\ MarketBias(d) # "NEUTRAL"
  /\ "CRITICAL" \notin SeqRange(d.risks)
  /\ d.move >= Minimum[mode].move
  /\ d.opportunity >= Minimum[mode].opportunity
  /\ d.investment >= Minimum[mode].investment
  /\ d.confidence >= Minimum[mode].confidence

\* ModeExecutionPolicy.evaluate.
Permits(mode, d, b) ==
  /\ MarketBias(d) # "NEUTRAL"
  /\ SeqRange(d.risks) \cap Grave = {}
  /\ d.move >= Minimum[mode].move
  /\ d.opportunity >= Minimum[mode].opportunity
  /\ d.investment >= Minimum[mode].investment
  /\ d.confidence >= Minimum[mode].confidence
  /\ mode = "forex" => \/ d.confidence >= 70
                       \/ b.technical.bias = MarketBias(d) /\ d.move > 0
  /\ mode = "etf" =>
       {b.fundamental.bias, b.institutional.bias} \subseteq {MarketBias(d), "NEUTRAL"}

\* recommendation_from, for the physical and the ETF adapter.
Advice(d) ==
  CASE d.confidence >= 50 /\ MarketBias(d) = "BULLISH" ->
         IF d.confidence >= 75 THEN "STRONG BUY" ELSE "BUY"
    [] d.confidence >= 50 /\ MarketBias(d) = "BEARISH" ->
         IF d.confidence >= 75 THEN "SELL" ELSE "REDUCE"
    [] OTHER -> "HOLD"

\* ForexAdapter: a target 4 % away with the outlook, a stop 2 % against it, in
\* hundredths, and neither without a price.
Levels(d, price) ==
  LET side == Signed(MarketBias(d), 1)
  IN  IF price = 0 THEN [take |-> Unset, stop |-> Unset]
      ELSE [take |-> price * (100 + 4 * side), stop |-> price * (100 - 2 * side)]

\* The price is written into the entry whatever it is.
Waiting(permitted) ==
  [actionable |-> permitted, action |-> "WAIT", entry |-> Unset, take |-> Unset, stop |-> Unset]
Acting(mode, d, price) ==
  [actionable |-> TRUE, entry |-> price,
   action |-> IF mode = "forex" THEN MarketBias(d) ELSE Advice(d),
   take   |-> IF mode = "forex" THEN Levels(d, price).take ELSE Unset,
   stop   |-> IF mode = "forex" THEN Levels(d, price).stop ELSE Unset]

Presentation(mode, d, b, price) ==
  IF Permits(mode, d, b) THEN Acting(mode, d, price) ELSE Waiting(FALSE)

-----------------------------------------------------------------------------
NoReport == [status |-> "NO_DATA", confidence |-> 0, score |-> 50, bias |-> "UNKNOWN",
             risks |-> <<>>]
NoDecision == [recommendation |-> "WAIT", confidence |-> 0, base |-> 0, opportunity |-> 0,
               investment |-> 0, move |-> 0, direction |-> "SIDEWAYS", risks |-> <<>>]

Init ==
  /\ stage = "idle"
  /\ reports = [e \in Engine |-> NoReport]
  /\ spot = 0
  /\ deep = FALSE
  /\ votes = <<>>
  /\ committee = [provider |-> "none"]
  /\ decision = NoDecision
  /\ modes = [m \in Mode |-> Waiting(FALSE)]

\* The six engines and the pullback engine run on what was collected.
Analyze ==
  /\ stage = "idle"
  /\ \E market \in Markets, macro \in Macros, flow \in Flows, wire \in Wires :
       /\ reports' = Bundle(market, macro, flow, wire)
       /\ spot' = market.spot
  /\ stage' = "analyzed"
  /\ UNCHANGED <<deep, votes, committee, decision, modes>>

\* An AI member's vote: what its provider answered, or an abstention.
AIVotes(anchor) ==
  {Cast(a, p) : a \in Answers, p \in AIProviders} \cup {UnavailableVote(anchor)}

\* AIResearchDesk.analyze with the AI enabled: the committee deliberates.
Deliberate ==
  /\ stage = "analyzed"
  /\ deep' = Escalates(reports)
  /\ LET anchor == DeskVote(DeskWeight(reports, "BUY"), DeskWeight(reports, "TAKE_PROFIT"), TRUE)
     IN  \E x, y, z \in AIVotes(anchor) : votes' = <<Cast(anchor, Deterministic), x, y, z>>
  /\ committee' = Report(votes')
  /\ stage' = "deliberated"
  /\ UNCHANGED <<reports, spot, decision, modes>>

\* AIResearchDesk.analyze with the AI disabled; main then builds no desk at all.
Disabled ==
  /\ stage = "analyzed"
  /\ deep' = FALSE
  /\ votes' = <<>>
  /\ committee' \in {FallbackCommittee(reports), NoDesk}
  /\ stage' = "deliberated"
  /\ UNCHANGED <<reports, spot, decision, modes>>

DecideOnReports ==
  /\ stage = "deliberated"
  /\ decision' = Decide(reports, committee, votes)
  /\ stage' = "decided"
  /\ UNCHANGED <<reports, spot, deep, votes, committee, modes>>

Present ==
  /\ stage = "decided"
  /\ modes' = [m \in Mode |-> Presentation(m, decision, reports, spot)]
  /\ stage' = "presented"
  /\ UNCHANGED <<reports, spot, deep, votes, committee, decision>>

(***************************************************************************)
(* The backtest command: each window of past candles goes through the same *)
(* engines with no macro data, no flows, no news and no research desk.     *)
(***************************************************************************)
NoMacro == [m |-> MacroFeatures(0, 0, 0, [id \in {} |-> 0]), size |-> 0]
NoFlow  == [cot |-> "none", etf |-> "none"]
NoWire  ==
  [fresh |-> 0, recent |-> 0, newsAI |-> FALSE, geoAI |-> FALSE,
   answer |-> [direction |-> "NEUTRAL", magnitude |-> 0, severity |-> 0, reliability |-> 0],
   bullish |-> 0, bearish |-> 0, hits |-> 0, topics |-> 0, countries |-> 0]

\* BacktestingEngine._decide_window.
DecideWindow(market) ==
  Decide(Bundle(market, NoMacro, NoFlow, NoWire), NoDesk, <<>>)

\* BacktestingEngine.run, one window; its candles are of the past.
Backtest ==
  /\ stage = "idle"
  /\ \E market \in Markets :
       /\ market.f.count > 0
       /\ decision' = DecideWindow([market EXCEPT !.stale = TRUE])
  /\ stage' = "backtested"
  /\ UNCHANGED <<reports, spot, deep, votes, committee, modes>>

\* run_once returns: the next cycle starts from nothing.
Return ==
  /\ stage \in {"presented", "backtested"}
  /\ stage' = "idle"
  /\ reports' = [e \in Engine |-> NoReport]
  /\ spot' = 0
  /\ deep' = FALSE
  /\ votes' = <<>>
  /\ committee' = [provider |-> "none"]
  /\ decision' = NoDecision
  /\ modes' = [m \in Mode |-> Waiting(FALSE)]

Next == Analyze \/ Deliberate \/ Disabled \/ DecideOnReports \/ Present \/ Backtest \/ Return

Spec == Init /\ [][Next]_vars

-----------------------------------------------------------------------------
TypeOK ==
  /\ stage \in {"idle", "analyzed", "deliberated", "decided", "presented", "backtested"}
  /\ \A e \in Engine : /\ reports[e].status \in Status
                       /\ reports[e].confidence \in Percent
                       /\ reports[e].score \in Percent
                       /\ reports[e].bias \in Bias
                       /\ SeqRange(reports[e].risks) \subseteq Severity
  /\ decision.confidence \in Percent
  /\ decision.opportunity \in Percent
  /\ decision.investment \in Percent
  /\ Len(decision.risks) <= 10

Acts(mode) == modes[mode].actionable

\* No mode ever acts on a bearish outlook: with two of the four aligning
\* engines bearish and at most one bullish, the mean of their scores stays
\* below the lowest opportunity any mode asks for.  The code path for a short
\* signal is there; the numbers never reach it.
OnlyLongActions == \A m \in Mode : Acts(m) => MarketBias(decision) = "BULLISH"

\* A high or critical risk in any engine's report keeps every mode waiting,
\* although the decision carries only the first ten risks.
GraveRiskBlocks ==
  stage = "presented" /\ (\E e \in Engine : SeqRange(reports[e].risks) \cap Grave # {})
    => \A m \in Mode : ~Acts(m)

\* A mode acts only on prices and macro data that arrived, and never with a
\* high-impact release scheduled: no average makes up for a missing engine.
ActsOnData ==
  (\E m \in Mode : Acts(m)) =>
    /\ reports["technical"].status = "SUCCESS"
    /\ reports["fundamental"].status = "SUCCESS"
    /\ reports["fundamental"].events = 0

\* While the committee is out the physical mode waits: the engines alone never
\* make up for the fallback's adjustment to the 85 percent it asks for, though
\* they may without a desk, which adjusts nothing.
PhysicalWaitsInOutage ==
  Acts("physical") => committee.provider # "deterministic_fallback"

\* A geopolitical shock always gets deep reasoning, though the desk's own test
\* for it looks at the wrong end of the score.
ShockIsDeep ==
  stage = "deliberated" /\ votes # <<>> /\ reports["geopolitical"].score >= 70 => deep

\* With every member abstaining the desk's evidence counts once: the report
\* stays within the confidence the README gives the fallback (35), however
\* one-sided the desk is.
FallbackBounded ==
  committee.provider = "deterministic_fallback" =>
    committee.confidence <= 35 /\ committee.adjustment < 0

\* The backtest cannot judge the rules: without macro data and news every one of
\* its windows ends in WAIT, whatever the candles, and its hit rate is that of
\* no decision at all.
BacktestOnlyWaits == stage = "backtested" => decision.recommendation = "WAIT"

==============================================================================
