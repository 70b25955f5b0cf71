-------------------------- MODULE TechnicalFeatures --------------------------
(***************************************************************************)
(* build_technical_features (app/features/technical_features.py): from the *)
(* candles of the collector to the features the technical and the pullback *)
(* engine read.  Prices are whole numbers; a quotient is kept as numerator *)
(* and denominator, so no comparison is rounded.  Wilder's RSI, the EMA    *)
(* and the counts that only appear in an evidence text are left out.       *)
(*                                                                         *)
(* A candle is [tf, at, open, high, low, close, volume], "at" in hours;    *)
(* NoVolume stands for a row without volume.                               *)
(***************************************************************************)
EXTENDS Integers, Sequences, FiniteSets, SequencesExt

Timeframe == {"1h", "4h", "1day"}
Signal    == {"BULLISH", "BEARISH", "NEUTRAL"}
None      == "NONE"
NoVolume  == -1

LastOf(s, n) == SubSeq(s, IF Len(s) > n THEN Len(s) - n + 1 ELSE 1, Len(s))
Closes(b)    == [i \in DOMAIN b |-> b[i].close]
OfFrame(b, tf) == SelectSeq(b, LAMBDA bar : bar.tf = tf)
\* sorted(..., key=timestamp): stable, as candles of two frames share times.
Ordered(b) ==
  LET Before(i, j) == b[i].at < b[j].at \/ (b[i].at = b[j].at /\ i <= j)
      Rank(j)      == Cardinality({i \in DOMAIN b : Before(i, j)})
  IN  [k \in DOMAIN b |-> b[CHOOSE j \in DOMAIN b : Rank(j) = k]]

\* _primary_bars: the hourly candles, or everything mixed when there are none.
Primary(b) == LET h1 == OfFrame(b, "1h") IN Ordered(IF h1 = <<>> THEN b ELSE h1)

(***************************************************************************)
(* Averages.  Spread is short minus long average, times Per.               *)
(***************************************************************************)
LongLen(b) == IF Len(b) >= 20 THEN 20 ELSE Len(b)
Per(b)     == 5 * LongLen(b)
Spread(b)  == LongLen(b) * SumFunction(LastOf(Closes(b), 5))
              - 5 * SumFunction(LastOf(Closes(b), 20))

TrendBias(b) ==
  CASE Len(b) < 5 -> "NEUTRAL"
    [] Len(b) >= 5 /\ Spread(b) > 0 -> "BULLISH"
    [] Len(b) >= 5 /\ Spread(b) < 0 -> "BEARISH"
    [] OTHER -> "NEUTRAL"

Frames(b)       == {b[i].tf : i \in DOMAIN b}
FrameBias(b)    == [tf \in Frames(b) |-> TrendBias(Ordered(OfFrame(b, tf)))]
Actionable(b)   == {FrameBias(b)[tf] : tf \in Frames(b)} \ {"NEUTRAL"}
Aligned(b)      == Cardinality(Frames(b)) >= 2 /\ Cardinality(Actionable(b)) = 1

\* The frames are put into a dictionary by iterating over a set of strings, so
\* which bias is its first follows the hash seed of the process: "order".
FirstBias(b, order) == FrameBias(b)[SelectSeq(order, LAMBDA tf : tf \in Frames(b))[1]]

\* Of the candles looked at; the bonus is for all frames together.
TrendQuality(bars, b) ==
  LET window == LastOf(b, 14)
      range  == SumFunction([i \in DOMAIN window |-> window[i].high - window[i].low])
      size   == IF Spread(b) < 0 THEN -Spread(b) ELSE Spread(b)
      points == (size * 25 * Len(window)) \div (Per(b) * range)
  IN  IF range <= 0 THEN 0
      ELSE (IF points > 85 THEN 85 ELSE points) + (IF Aligned(bars) THEN 15 ELSE 0)

(***************************************************************************)
(* Swings, breaks, gaps, blocks and sweeps.  b is Primary.                 *)
(***************************************************************************)
SwingHighs(b) == {i \in 2 .. Len(b) - 1 : b[i].high > b[i-1].high /\ b[i].high > b[i+1].high}
SwingLows(b)  == {i \in 2 .. Len(b) - 1 : b[i].low < b[i-1].low /\ b[i].low < b[i+1].low}
LastHigh(b)   == b[Max(SwingHighs(b))].high
LastLow(b)    == b[Max(SwingLows(b))].low
Now(b)        == b[Len(b)]

Breaks(b) == SwingHighs(b) # {} /\ Now(b).close > LastHigh(b)
Fails(b)  == SwingLows(b) # {} /\ Now(b).close < LastLow(b)

Structure(b) ==
  CASE Len(b) >= 7 /\ Breaks(b) -> "BULLISH"
    [] Len(b) >= 7 /\ ~Breaks(b) /\ Fails(b) -> "BEARISH"
    [] OTHER -> None

\* _detect_fair_value_gaps: the last five, oldest first.
GapDirection(b, i) ==
  CASE b[i].low > b[i-2].high -> "BULLISH"
    [] b[i].high < b[i-2].low -> "BEARISH"
    [] OTHER -> None

Gaps(b) ==
  LET at == SelectSeq([i \in DOMAIN b |-> i], LAMBDA i : i >= 3 /\ GapDirection(b, i) # None)
      Gap(i) == [direction |-> GapDirection(b, i),
                 lower |-> IF GapDirection(b, i) = "BULLISH" THEN b[i-2].high ELSE b[i].high]
  IN  LastOf([k \in DOMAIN at |-> Gap(at[k])], 5)

\* _detect_order_block: the last candle against the break, of the eleven before.
Against(b, i) == IF Structure(b) = "BULLISH" THEN b[i].close < b[i].open ELSE b[i].close > b[i].open
Candidates(b) == {i \in Max({1, Len(b) - 11}) .. Len(b) - 1 : Against(b, i)}
HasBlock(b)   == Structure(b) # None /\ Candidates(b) # {}
Block(b)      == b[Max(Candidates(b))]

OrderBlock(b)   == IF HasBlock(b) THEN Structure(b) ELSE None
BreakerBlock(b) ==
  IF /\ HasBlock(b)
     /\ \/ Structure(b) = "BULLISH" /\ Now(b).close > Block(b).high
        \/ Structure(b) = "BEARISH" /\ Now(b).close < Block(b).low
  THEN Structure(b) ELSE None
MitigationBlock(b) ==
  IF HasBlock(b) /\ Block(b).low <= Now(b).close /\ Now(b).close <= Block(b).high
  THEN Structure(b) ELSE None

\* A level is swept when the wick passes it and the close comes back.
SweepsHigh(b) == SwingHighs(b) # {} /\ Now(b).high > LastHigh(b) /\ Now(b).close < LastHigh(b)
SweepsLow(b)  == SwingLows(b) # {} /\ Now(b).low < LastLow(b) /\ Now(b).close > LastLow(b)

LiquiditySweep(b) ==
  CASE SweepsHigh(b) -> "BEARISH"
    [] ~SweepsHigh(b) /\ SweepsLow(b) -> "BULLISH"
    [] OTHER -> None

(***************************************************************************)
(* Range, volume, session.                                                 *)
(***************************************************************************)
Support(b)    == Min({LastOf(b, 20)[i].low : i \in DOMAIN LastOf(b, 20)})
Resistance(b) == Max({LastOf(b, 20)[i].high : i \in DOMAIN LastOf(b, 20)})

Zone(b) ==
  CASE 2 * Now(b).close < Support(b) + Resistance(b) -> "DISCOUNT"
    [] 2 * Now(b).close > Support(b) + Resistance(b) -> "PREMIUM"
    [] OTHER -> "EQUILIBRIUM"

Volumes(b)   == [i \in DOMAIN LastOf(b, 20) |-> LastOf(b, 20)[i].volume]
HasVolume(b) == NoVolume \notin ToSet(Volumes(b)) /\ SumFunction(Volumes(b)) # 0
Recent(b)    == LastOf(Front(Volumes(b)), 5)

\* The price against the volume-weighted average; equal counts as below.
AboveVwap(b) ==
  LET w == LastOf(b, 20)
  IN  Now(b).close * SumFunction(Volumes(b))
        > SumFunction([i \in DOMAIN w |-> w[i].close * w[i].volume])
VwapSide(b) == IF ~HasVolume(b) THEN None ELSE IF AboveVwap(b) THEN "BULLISH" ELSE "BEARISH"

\* Recent volumes that are all zero are divided by.
DividesByZero(b) == HasVolume(b) /\ SumFunction(Recent(b)) = 0

VolumeConfirmation(b) ==
  LET heavy == /\ HasVolume(b)
               /\ 10 * Last(Volumes(b)) * Len(Recent(b)) >= 12 * SumFunction(Recent(b))
  IN  CASE heavy /\ Now(b).close > Now(b).open -> "BULLISH"
        [] heavy /\ Now(b).close < Now(b).open -> "BEARISH"
        [] OTHER -> "NEUTRAL"

\* _detect_asian_range: the first six hours of the latest candle's day.
Session(b) == {i \in DOMAIN b : b[i].at \div 24 = Now(b).at \div 24 /\ b[i].at % 24 < 6}
AsianBreakout(b) ==
  CASE Session(b) = {} -> None
    [] Session(b) # {} /\ (\A i \in Session(b) : Now(b).close > b[i].high) -> "BULLISH"
    [] Session(b) # {} /\ (\A i \in Session(b) : Now(b).close < b[i].low) -> "BEARISH"
    [] OTHER -> "NEUTRAL"

(***************************************************************************)
(* The feature set.  With fewer than five candles only their number.       *)
(***************************************************************************)
NoFeatures(n) ==
  [count |-> n, close |-> 0, spread |-> 0, per |-> 1, rangeSum |-> 0, rangeLen |-> 1,
   momentum |-> 0, base |-> 1, quality |-> 0, structure |-> None, gaps |-> <<>>,
   order |-> None, breaker |-> None, mitigation |-> None, sweep |-> None,
   zone |-> None, vwap |-> None, volume |-> "NEUTRAL", asian |-> None,
   aligned |-> FALSE, primary |-> "NEUTRAL", resistance |-> 0]

FeaturesOf(bars, b, order) ==
  LET window == LastOf(b, 14)
  IN [count |-> Len(b), close |-> Now(b).close,
      spread |-> Spread(b), per |-> Per(b),
      rangeSum |-> SumFunction([i \in DOMAIN window |-> window[i].high - window[i].low]),
      rangeLen |-> Len(window),
      momentum |-> 100 * (Now(b).close - b[Len(b) - 4].close), base |-> b[Len(b) - 4].close,
      quality |-> TrendQuality(bars, b), structure |-> Structure(b), gaps |-> Gaps(b),
      order |-> OrderBlock(b), breaker |-> BreakerBlock(b),
      mitigation |-> MitigationBlock(b), sweep |-> LiquiditySweep(b),
      zone |-> Zone(b), vwap |-> VwapSide(b), volume |-> VolumeConfirmation(b),
      asian |-> AsianBreakout(b), aligned |-> Aligned(bars),
      primary |-> IF Aligned(bars) THEN FirstBias(bars, order) ELSE "NEUTRAL",
      resistance |-> Resistance(b)]

\* The exception: nothing of the feature set is built, and the cycle fails.
Raised == NoFeatures(-1)

BuildFeatures(bars, order) ==
  CASE Len(Primary(bars)) < 5 -> NoFeatures(Len(Primary(bars)))
    [] Len(Primary(bars)) >= 5 /\ DividesByZero(Primary(bars)) -> Raised
    [] OTHER -> FeaturesOf(bars, Primary(bars), order)
==============================================================================
