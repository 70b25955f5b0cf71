------------------------------ MODULE Consensus ------------------------------
(***************************************************************************)
(* The arithmetic of the adversarial committee (app/ai/committee.py): the  *)
(* anchor's vote over the desk reports, the abstention of a member whose   *)
(* providers are exhausted, the weighted consensus of the four votes, and  *)
(* the report the decision engine consumes.                                *)
(*                                                                         *)
(* A confidence is a whole number of percent and a weight too, so a share  *)
(* (confidence times weight) is a whole number of ten-thousandths.  The    *)
(* code keeps the anchor's confidence as it comes out of the division, by  *)
(* less than a percent above the one here: a share by less than 25 ten-    *)
(* thousandths, which may lift it over a boundary of Level.  The one tie   *)
(* the code's floats decide, an anchor of 0.90 against three abstentions,  *)
(* they decide as this module does (0.225 against 0.22499999999999998, and *)
(* the first maximum wins).                                                *)
(***************************************************************************)
EXTENDS Integers, Sequences

CONSTANTS
  AIProviders,        \* providers whose vote counts as AI (_AI_PROVIDERS)
  FallbackAdjustment  \* config.committee_fallback_confidence_adjustment

ASSUME AdjustmentAssumption == FallbackAdjustment \in Int

(***************************************************************************)
(* Votes.  A ballot is what a member says; a vote also names who answered. *)
(***************************************************************************)
Direction == {"BUY", "SELL", "WAIT"}
Percent   == 0 .. 100
Ballot    == [direction : Direction, confidence : Percent]

Anchor    == 1
AIMember  == 2 .. 4
Member    == 1 .. 4

\* Deterministic Anchor, Macro Strategist, Tactical Trader, Contrarian Risk.
Weight == [m \in Member |-> CASE m = 1 -> 25 [] m = 2 -> 30
                              [] m = 3 -> 25 [] m = 4 -> 20]

\* Providers that are not an LLM: the anchor itself and an exhausted member.
Deterministic == "deterministic"
Fallback      == "fallback"

Cast(ballot, provider) ==
  [direction  |-> ballot.direction,
   confidence |-> ballot.confidence,
   provider   |-> provider]

\* How a bug would count an outage: the member repeats the anchor's evidence.
RepeatDeskVote(desk) == Cast(desk, Fallback)

\* _unavailable_vote: the member abstains and does not repeat the desk's view.
UnavailableVote(desk) == Cast([direction |-> "WAIT", confidence |-> 30], Fallback)

\* _desk_vote over the summed confidence of the bullish and the bearish desk
\* reports; "some" says whether there is any report at all.  Sure is cut to whole
\* percents, the code's is not.
DeskVote(bullish, bearish, some) ==
  LET total == bullish + bearish
      net   == bullish - bearish
      Sure(n) == IF 50 + (40 * n) \div total < 90 THEN 50 + (40 * n) \div total ELSE 90
  IN  CASE total = 0 -> [direction |-> "WAIT", confidence |-> IF some THEN 40 ELSE 30]
        [] total > 0 /\ 100 * net > 15 * total ->
             [direction |-> "BUY", confidence |-> Sure(net)]
        [] total > 0 /\ -100 * net > 15 * total ->
             [direction |-> "SELL", confidence |-> Sure(-net)]
        [] OTHER -> [direction |-> "WAIT", confidence |-> 40]

(***************************************************************************)
(* _consensus: the share of each direction in ten-thousandths (the weights *)
(* add up to 100), the first largest one, capped at 0.95, and its level.   *)
(***************************************************************************)
Part(votes, d, m) ==
  IF votes[m].direction = d THEN votes[m].confidence * Weight[m] ELSE 0

Share(votes, d) ==
  Part(votes, d, 1) + Part(votes, d, 2) + Part(votes, d, 3) + Part(votes, d, 4)

Best(votes) ==
  CASE /\ Share(votes, "BUY") >= Share(votes, "SELL")
       /\ Share(votes, "BUY") >= Share(votes, "WAIT") -> "BUY"
    [] /\ Share(votes, "SELL") > Share(votes, "BUY")
       /\ Share(votes, "SELL") >= Share(votes, "WAIT") -> "SELL"
    [] OTHER -> "WAIT"

Capped(share) == IF share > 9500 THEN 9500 ELSE share

Confidence(votes) == Capped(Share(votes, Best(votes)))

Level(confidence) ==
  CASE confidence >= 7000 -> "strong"
    [] confidence >= 5000 /\ confidence < 7000 -> "moderate"
    [] confidence >= 3500 /\ confidence < 5000 -> "weak"
    [] OTHER -> "fragmented"

LevelAdjustment(level) ==
  CASE level = "strong" -> 8 [] level = "moderate" -> 4
    [] level = "weak" -> -2  [] OTHER -> -6

\* Python's round of a share to whole percent: half to even.
Rounded(share) ==
  LET q == share \div 100
      r == share % 100
  IN  IF r > 50 \/ (r = 50 /\ q % 2 = 1) THEN q + 1 ELSE q

\* _to_recommendation.
RecommendationOf(direction, confidence) ==
  CASE direction = "BUY"  -> IF confidence >= 7000 THEN "STRONG_BUY" ELSE "BUY"
    [] direction = "SELL" -> IF confidence >= 7000 THEN "STRONG_SELL" ELSE "TAKE_PROFIT"
    [] OTHER -> "WAIT"

HasAI(votes) == \E m \in Member : votes[m].provider \in AIProviders

(***************************************************************************)
(* _to_committee_report: what the decision engine reads of the committee.  *)
(***************************************************************************)
Report(votes) ==
  [provider       |-> IF HasAI(votes) THEN "adversarial_committee"
                                      ELSE "deterministic_fallback",
   recommendation |-> RecommendationOf(Best(votes), Confidence(votes)),
   confidence     |-> Rounded(Confidence(votes)),
   level          |-> Level(Confidence(votes)),
   adjustment     |-> IF HasAI(votes) THEN LevelAdjustment(Level(Confidence(votes)))
                                      ELSE FallbackAdjustment]
==============================================================================
