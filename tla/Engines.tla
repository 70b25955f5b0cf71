------------------------------- MODULE Engines -------------------------------
(***************************************************************************)
(* The analysis engines (app/application/engines/): what each makes of its *)
(* features.  A report keeps what later stages read: status, confidence,   *)
(* score, bias, the severities of its risks in order, and the engine's own *)
(* figures.  Percentages are whole numbers; the technical score, a weighted *)
(* sum of hundredths, is rounded as Python rounds, half to even.           *)
(*                                                                         *)
(* The specialist report of the desk that news and geopolitics could take  *)
(* instead of their own reading is left out: the desk marks every report   *)
(* "deterministic_fallback", which both engines ignore.                    *)
(***************************************************************************)
EXTENDS Integers, Sequences

Bias     == {"BULLISH", "BEARISH", "NEUTRAL", "MIXED", "UNKNOWN"}
Severity == {"LOW", "MEDIUM", "HIGH", "CRITICAL"}
Status   == {"SUCCESS", "PARTIAL_SUCCESS", "NO_DATA"}
Regime   == {"EVENT_DRIVEN", "RISK_OFF", "HIGH_VOLATILITY", "LOW_VOLATILITY",
             "BULL", "BEAR", "RANGE"}

Smaller(a, b)      == IF a < b THEN a ELSE b
Larger(a, b)       == IF a > b THEN a ELSE b
Clip(low, high, n) == IF n < low THEN low ELSE IF n > high THEN high ELSE n
Clamp(n)           == Clip(0, 100, n)

\* int(a / b) truncates towards zero; round(n / d) takes the even neighbour
\* of a half.
Trunc(a, b)  == IF a >= 0 THEN a \div b ELSE -((-a) \div b)
Nearest(n, d) ==
  LET q == n \div d
      r == n % d
  IN  IF 2 * r > d \/ (2 * r = d /\ q % 2 = 1) THEN q + 1 ELSE q

BiasFromScore(score) ==
  CASE score >= 60 -> "BULLISH" [] score <= 40 -> "BEARISH" [] OTHER -> "NEUTRAL"

(***************************************************************************)
(* Technical.                                                              *)
(***************************************************************************)
Signed(direction, amount) ==
  CASE direction = "BULLISH" -> amount [] direction = "BEARISH" -> -amount [] OTHER -> 0

ZoneAmount(zone) == CASE zone = "DISCOUNT" -> 3 [] zone = "PREMIUM" -> -3 [] OTHER -> 0

StructureAdjustment(f) ==
    Signed(f.structure, 12)
  + (IF f.gaps = <<>> THEN 0 ELSE Signed(f.gaps[Len(f.gaps)].direction, 5))
  + Signed(f.order, 5) + Signed(f.breaker, 3) + Signed(f.mitigation, 2)
  + Signed(f.sweep, 5)
  + ZoneAmount(f.zone)
  + Signed(f.vwap, 4) + Signed(f.volume, 4) + Signed(f.asian, 4)
  + (IF f.aligned THEN Signed(f.primary, 6) ELSE 0)

TrendScore(f)      == Clamp(50 + Trunc(1000 * f.spread, f.per * f.close))
MomentumScore(f)   == Clamp(50 + Trunc(8 * f.momentum, f.base))
VolatilityScore(f) == Clamp((10000 * f.rangeSum) \div (f.rangeLen * f.close))

TechnicalScore(trend, momentum, quality, adjustment) ==
  Clamp(Nearest(32 * trend + 24 * momentum + 14 * quality + 2000 + 100 * adjustment, 100))

TechnicalConfidence(f) ==
  Smaller(IF f.aligned THEN 95 ELSE 85,
          45 + f.count + (IF f.aligned THEN 8 ELSE 0)
             + (IF f.volume = "NEUTRAL" THEN 0 ELSE 4))

InsufficientData ==
  [status |-> "NO_DATA", confidence |-> 0, score |-> 50, bias |-> "UNKNOWN",
   risks |-> <<"CRITICAL">>, critical |-> TRUE, volatility |-> 0, move |-> 0]

\* "stale": the latest candle is older than stale_candle_threshold_minutes.
TechnicalAnalysis(f, stale) ==
  IF f.count < 5 \/ f.close <= 0 THEN InsufficientData
  ELSE LET score == TechnicalScore(TrendScore(f), MomentumScore(f), f.quality,
                                   StructureAdjustment(f))
       IN [status |-> "SUCCESS", confidence |-> TechnicalConfidence(f),
           score |-> score, bias |-> BiasFromScore(score),
           risks |-> IF stale THEN <<"MEDIUM">> ELSE <<>>, critical |-> FALSE,
           volatility |-> VolatilityScore(f),
           move |-> Larger((2 * f.rangeSum) \div f.rangeLen, 1)]

(***************************************************************************)
(* Pullback risk.  rsi is 50 and ema 0 where there are too few daily       *)
(* candles to compute them.                                                *)
(***************************************************************************)
OverheadGap(f) ==
  \E i \in DOMAIN f.gaps : /\ f.gaps[i].direction = "BEARISH"
                           /\ f.close < f.gaps[i].lower
                           /\ 100 * (f.gaps[i].lower - f.close) < f.close

PullbackScore(f, rsi, ema, regime) ==
  Clamp((IF rsi >= 70 THEN Smaller(20, 2 * (rsi - 70)) ELSE 0)
      + (IF 1000 * (f.resistance - f.close) < 5 * f.close THEN 10 ELSE 0)
      + (IF OverheadGap(f) THEN 10 ELSE 0)
      + (IF f.momentum < 0 THEN 15 ELSE IF 2 * f.momentum < f.base THEN 5 ELSE 0)
      + (IF ema > 0 /\ 100 * (f.close - ema) > 5 * ema THEN 10 ELSE 0)
      + (IF f.quality < 40 THEN 10 ELSE 0)
      + (IF f.sweep # "NONE" THEN 10 ELSE 0)
      + (IF regime \in {"RANGE", "HIGH_VOLATILITY"} THEN 10 ELSE 0)
      + (IF 100 * f.rangeSum > f.rangeLen * f.close THEN 5 ELSE 0))

PullbackLevel(score) ==
  CASE score >= 80 -> "EXTREME" [] score >= 60 /\ score < 80 -> "HIGH"
    [] score >= 30 /\ score < 60 -> "MEDIUM" [] OTHER -> "LOW"

PullbackRisk(f, rsi, ema, regime) ==
  IF f.count < 5 THEN "LOW" ELSE PullbackLevel(PullbackScore(f, rsi, ema, regime))

\* report_to_evidence and the orchestrator: the report becomes evidence of the
\* technical engine, critical when the level is EXTREME.
WithPullback(technical, level) ==
  [technical EXCEPT !.critical = @ \/ level = "EXTREME"]

(***************************************************************************)
(* Fundamental.  change is the last DXY change in hundredths of a percent, *)
(* series maps a FRED series to the direction of its last change.          *)
(***************************************************************************)
InverseForGold == {"FEDFUNDS", "DFII10", "PAYEMS", "GDPC1", "NAPM"}
DirectForGold  == {"CPIAUCSL", "T10Y2Y"}

\* build_macro_features: two usable observations make a change, one does not.
MacroFeatures(observations, change, events, series) ==
  [observations |-> observations, changeKnown |-> observations >= 2,
   change |-> change, events |-> events, series |-> series]

DollarScore(m) ==
  CASE ~m.changeKnown -> 50
    [] m.changeKnown /\ m.change <= -15 -> 68
    [] m.changeKnown /\ m.change >= 15 -> 35
    [] OTHER -> 52

Contribution(m, id) ==
  IF id \notin DOMAIN m.series THEN 0
  ELSE m.series[id] * (IF id \in InverseForGold THEN -3 ELSE 2)

MacroAdjustment(m) ==
  Clip(-20, 20, Contribution(m, "FEDFUNDS") + Contribution(m, "DFII10")
              + Contribution(m, "CPIAUCSL") + Contribution(m, "PAYEMS")
              + Contribution(m, "GDPC1") + Contribution(m, "NAPM")
              + Contribution(m, "T10Y2Y"))

FundamentalScore(m) ==
  Clamp(DollarScore(m) + MacroAdjustment(m) - Smaller(15, 5 * m.events))

FundamentalConfidence(m, size) ==
  LET broad == Smaller(90, (IF m.observations > 0 THEN 75 ELSE 35) + Smaller(15, 2 * size))
  IN  IF m.events > 0 THEN Larger(35, broad - 10) ELSE broad

OnlyIf(condition, severity) == IF condition THEN <<severity>> ELSE <<>>

\* size is the number of series.
FundamentalAnalysis(m, size) ==
  [status |-> IF m.observations > 0 THEN "SUCCESS" ELSE "PARTIAL_SUCCESS",
   confidence |-> FundamentalConfidence(m, size),
   score |-> FundamentalScore(m), bias |-> BiasFromScore(FundamentalScore(m)),
   risks |-> OnlyIf("DFII10" \notin DOMAIN m.series, "HIGH")
             \o OnlyIf(m.events > 0, "HIGH")
             \o OnlyIf(m.observations = 0, "HIGH")
             \o OnlyIf(size = 0, "MEDIUM"),
   events |-> m.events]

(***************************************************************************)
(* Institutional.  cot is "none" or the side of managed money, etf "none", *)
(* "level" (holdings without a daily change) or the sign of the change.    *)
(***************************************************************************)
CotScore(cot) == CASE cot = "long" -> 65 [] cot = "short" -> 35 [] OTHER -> 50
EtfScore(etf) ==
  CASE etf = "level" -> 55 [] etf = "rise" -> 65 [] etf = "fall" -> 35 [] OTHER -> 50

InstitutionalAnalysis(cot, etf) ==
  LET sources == (IF cot = "none" THEN 0 ELSE 1) + (IF etf = "none" THEN 0 ELSE 1)
      score   == Nearest(CotScore(cot) + EtfScore(etf), 2)
  IN [status |-> IF sources > 0 THEN "SUCCESS" ELSE "NO_DATA",
      confidence |-> 35 + 25 * sources, score |-> score,
      bias |-> BiasFromScore(score), risks |-> OnlyIf(sources < 2, "MEDIUM")]

(***************************************************************************)
(* News and geopolitics read the same articles.  ai is FALSE when there is *)
(* no agent or its call fails; the keywords then stand in for it.  The     *)
(* agent's answer is [direction, magnitude, severity, reliability].        *)
(***************************************************************************)
AIScore(answer) ==
  Clamp(50 + Trunc(Signed(answer.direction, 4 * answer.magnitude), 10))

NewsAnalysis(fresh, ai, answer, bullish, bearish) ==
  LET byAI  == ai /\ fresh > 0
      score == IF byAI THEN AIScore(answer) ELSE Clamp(50 + 6 * (bullish - bearish))
  IN [status |-> IF fresh > 0 THEN "SUCCESS" ELSE "NO_DATA",
      confidence |-> IF byAI THEN Clip(15, 90, answer.reliability)
                     ELSE Smaller(IF fresh > 0 THEN 35 ELSE 80, 35 + 5 * fresh),
      score |-> score, bias |-> BiasFromScore(score),
      risks |-> OnlyIf(~byAI, "MEDIUM")]

BiasFromAIDirection(direction, risk) ==
  CASE direction = "BULLISH" -> IF risk >= 50 THEN "BULLISH" ELSE "NEUTRAL"
    [] direction = "BEARISH" -> "BEARISH"
    [] direction = "MIXED" -> "MIXED"
    [] OTHER -> "NEUTRAL"

\* The score of this report is a risk: high means danger, whatever the bias.
GeopoliticalAnalysis(fresh, ai, answer, hits, topics, countries) ==
  LET byAI == ai /\ fresh > 0
      risk == IF byAI THEN Clamp(answer.severity)
              ELSE Clamp(35 + 10 * hits + 6 * topics + 8 * countries)
  IN [status |-> IF fresh > 0 THEN "SUCCESS" ELSE "NO_DATA",
      confidence |-> IF byAI THEN Clip(15, 90, answer.reliability)
                     ELSE Smaller(IF fresh > 0 THEN 35 ELSE 80, 30 + 5 * fresh),
      score |-> risk,
      bias |-> IF byAI THEN BiasFromAIDirection(answer.direction, risk)
               ELSE IF risk >= 60 THEN "BULLISH" ELSE "NEUTRAL",
      risks |-> IF risk >= 75 THEN <<"HIGH">>
                ELSE OnlyIf(~byAI /\ fresh > 0, "MEDIUM")]

(***************************************************************************)
(* Regime.                                                                 *)
(***************************************************************************)
Classify(t, f, g) ==
  CASE f.events > 0 -> "EVENT_DRIVEN"
    [] f.events = 0 /\ g.score >= 70 -> "RISK_OFF"
    [] f.events = 0 /\ g.score < 70 /\ t.volatility >= 70 -> "HIGH_VOLATILITY"
    [] f.events = 0 /\ g.score < 70 /\ t.volatility <= 20 /\ t.status = "SUCCESS"
         -> "LOW_VOLATILITY"
    [] OTHER -> IF t.bias = "BULLISH" /\ f.bias # "BEARISH" THEN "BULL"
                ELSE IF t.bias = "BEARISH" /\ f.bias # "BULLISH" THEN "BEAR" ELSE "RANGE"

RegimeScore(regime) ==
  CASE regime = "BULL" -> 70 [] regime = "BEAR" -> 35 [] regime = "RISK_OFF" -> 65
    [] regime \in {"HIGH_VOLATILITY", "EVENT_DRIVEN"} -> 45 [] OTHER -> 50

RegimeBias(regime) ==
  CASE regime \in {"BULL", "RISK_OFF"} -> "BULLISH" [] regime = "BEAR" -> "BEARISH"
    [] OTHER -> "NEUTRAL"

RegimeAnalysis(t, f, n, g) ==
  LET regime == Classify(t, f, g)
  IN [status |-> "SUCCESS",
      confidence |-> Smaller(90, Nearest(t.confidence + f.confidence
                                         + n.confidence + g.confidence, 4)),
      score |-> RegimeScore(regime), bias |-> RegimeBias(regime),
      risks |-> <<"MEDIUM">>, regime |-> regime]
==============================================================================
