------------------------------ MODULE MCDecision ------------------------------
(***************************************************************************)
(* Decision over markets built from candles by TechnicalFeatures, so every *)
(* feature set is one the feature builder returns.                         *)
(***************************************************************************)
EXTENDS Decision, TechnicalFeatures

\* n candles of a frame that move by step, wicks of "wick" on both sides, the
\* last one with five times the volume.
Trending(tf, hours, n, start, step, wick) ==
  [i \in 1 .. n |->
    LET open  == start + step * (i - 1)
        close == start + step * i
    IN [tf |-> tf, at |-> 24 + hours * i, open |-> open, close |-> close,
        high |-> Larger(open, close) + wick, low |-> Smaller(open, close) - wick,
        volume |-> IF i = n THEN 50 ELSE 10]]

\* A pause of three candles in a rise, then a close above it.
Resuming(n, start, step, wick) ==
  LET rise  == Trending("1h", 1, n - 4, start, step, wick)
      top   == start + step * (n - 4)
      Fall(i) == [tf |-> "1h", at |-> 24 + i, open |-> top - 5 * (i - n + 3),
                  close |-> top - 5 * (i - n + 4), high |-> top - 5 * (i - n + 3) + wick,
                  low |-> top - 5 * (i - n + 4) - wick, volume |-> 10]
      leap  == [tf |-> "1h", at |-> 24 + n, open |-> top - 15, close |-> top + 4 * wick,
                high |-> top + 5 * wick, low |-> top - 15 - wick, volume |-> 50]
  IN  rise \o <<Fall(n - 3), Fall(n - 2), Fall(n - 1), leap>>

Order == <<"1h", "4h", "1day">>
Market(bars, stale, rsi, ema) ==
  [f |-> BuildFeatures(bars, Order), stale |-> stale, rsi |-> rsi, ema |-> ema,
   spot |-> IF bars = <<>> THEN 0 ELSE Now(Ordered(bars)).close]

Rising  == Trending("1h", 1, 50, 4000, 20, 5) \o Trending("4h", 4, 25, 3500, 60, 10)
Falling == Trending("1h", 1, 50, 4000, -20, 5) \o Trending("4h", 4, 25, 5000, -60, 10)

\* Candles without volume before one with.
Silent(bars) == [i \in DOMAIN bars |-> IF i < Len(bars) THEN [bars[i] EXCEPT !.volume = 0] ELSE bars[i]]

\* A frame without a trend beside a rising one: which of them is the first decides
\* the bonus, and the order is another in every process.
Mixed == Trending("1h", 1, 50, 4000, 20, 5) \o Trending("4h", 4, 25, 4900, 0, 10)

Observed ==
  {Market(Mixed, FALSE, 60, 0),
   [Market(Mixed, FALSE, 60, 0) EXCEPT !.f = BuildFeatures(Mixed, <<"4h", "1h", "1day">>)],
   Market(Rising, FALSE, 60, 0),
   Market(Resuming(50, 3000, 20, 6), TRUE, 80, 2900),
   Market(Falling, FALSE, 30, 0),
   Market(Trending("1h", 1, 30, 2000, 2, 2), FALSE, 50, 0),
   Market(Trending("1h", 1, 30, 2000, 0, 3), FALSE, 50, 0),
   Market(Trending("1h", 1, 3, 2000, 9, 3), FALSE, 50, 0),
   Market(Silent(Trending("1h", 1, 30, 2000, 2, 2)), FALSE, 50, 0),
   Market(<<>>, FALSE, 50, 0), [Market(<<>>, FALSE, 50, 0) EXCEPT !.spot = 2000]}

\* The engines see the markets whose features were built; with the others the
\* cycle has failed before them.
MCMarkets == {market \in Observed : market.f # Raised}

\* The series whose last change has a direction.
Series(fed, real, jobs) == [id \in {"FEDFUNDS", "DFII10", "PAYEMS", "CPIAUCSL"} |->
  CASE id = "FEDFUNDS" -> fed [] id = "DFII10" -> real [] id = "PAYEMS" -> jobs [] OTHER -> 0]

MCMacros ==
  {[m |-> MacroFeatures(30, -20, 0, Series(-1, -1, -1)), size |-> 8],
   [m |-> MacroFeatures(30, 20, 0, Series(1, 1, 0)), size |-> 8],
   [m |-> MacroFeatures(30, -20, 2, Series(-1, -1, 0)), size |-> 8],
   [m |-> MacroFeatures(30, -20, 0, [id \in {"FEDFUNDS"} |-> -1]), size |-> 5],
   [m |-> MacroFeatures(0, 0, 0, [id \in {} |-> 0]), size |-> 0]}

MCFlows == [cot : {"none", "long", "short"}, etf : {"none", "rise", "fall"}]
           \ [cot : {"long"}, etf : {"fall"}]

\* "fresh" articles of the last 24 hours, "recent" of the last 48; the keywords
\* found in them.
Wire(fresh, recent, ai, direction, magnitude, severity, reliability) ==
  [fresh |-> fresh, recent |-> recent, newsAI |-> ai, geoAI |-> ai,
   answer |-> [direction |-> direction, magnitude |-> magnitude, severity |-> severity,
               reliability |-> reliability],
   bullish |-> IF fresh > 0 THEN 2 ELSE 0, bearish |-> 0,
   hits |-> IF recent > 0 THEN 1 ELSE 0, topics |-> IF recent > 0 THEN 1 ELSE 0,
   countries |-> 0]

MCWires ==
  {Wire(9, 9, TRUE, "BULLISH", 90, 60, 95), Wire(9, 9, TRUE, "BULLISH", 60, 72, 95),
   Wire(9, 9, TRUE, "BEARISH", 80, 20, 90), Wire(9, 9, TRUE, "BULLISH", 60, 90, 95),
   Wire(0, 4, FALSE, "NEUTRAL", 0, 0, 0), Wire(0, 0, FALSE, "NEUTRAL", 0, 0, 0)}

MCAdjustment == -8

MCAnswers == {[direction |-> "BUY", confidence |-> 90], [direction |-> "SELL", confidence |-> 80]}
==============================================================================
