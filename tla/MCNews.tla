--------------------------------- MODULE MCNews ---------------------------------
(***************************************************************************)
(* News over all batches of two to four articles of six: two of one story  *)
(* under two names of an outlet, one that shares three words with each, a  *)
(* page of an aggregator without a significant word, two without a signal  *)
(* or with another page of the same title.                                 *)
(***************************************************************************)
EXTENDS News, TLC

\* 1 "gold", 2 .. 4 "fed signals rate", 5 "cut", 6 "september", 7 "iran",
\* 8 "strike", 9 "bank", 10 "cuts".
MCCommonWords == {1}

None == [direct |-> 0, macro |-> 0, geo |-> 0, haven |-> 0, headline |-> FALSE, sign |-> "none"]

Article(id, url, title, source, length, at, themes, topics, hits) ==
  [id |-> id, url |-> url, title |-> title, source |-> source, length |-> length, at |-> at,
   themes |-> themes, topics |-> topics, hits |-> hits]

Pool ==
  {Article("reuters-1", "p1", {2, 3, 4, 5, 6}, "reuters", 0, 20, {"Rate Cut Cycle"},
           {"interest_rates"}, [None EXCEPT !.macro = 2, !.sign = "signal"]),
   Article("google-1", "p2", {2, 3, 4, 5, 6}, "Reuters", 0, 20, {"Rate Cut Cycle"},
           {"interest_rates"}, [None EXCEPT !.macro = 2, !.sign = "signal"]),
   Article("blog-1", "p3", {2, 3, 5, 7, 8, 9}, "blog", 9, 21, {"Middle East Escalation", "Higher for Longer"},
           {"conflict", "gold"}, [None EXCEPT !.geo = 2, !.direct = 1, !.sign = "signal"]),
   Article("fan-1", "p4", {7, 8, 9, 10}, "Federal Fan", 0, 19, {"Middle East Escalation"},
           {"conflict"}, [None EXCEPT !.geo = 1, !.sign = "signal"]),
   Article("gold-1", "p5", {1}, "google_news", 0, 22, {},
           {"gold"}, [None EXCEPT !.direct = 1, !.headline = TRUE, !.sign = "price"]),
   Article("blog-2", "p6", {9, 10}, "blog", 0, 3, {}, {}, None)}

\* Every order of the articles.
MCBatches ==
  UNION {{[i \in 1 .. n |-> f[i]] : f \in {g \in [1 .. n -> Pool] :
            \A i, j \in 1 .. n : i # j => g[i] # g[j]}} : n \in 2 .. 4} \cup {<<>>}

MCTemplates == <<"Higher for Longer", "Rate Cut Cycle", "Middle East Escalation">>
MCExactTier == [reuters |-> 1, Reuters |-> 1, blog |-> 0, google_news |-> 3]
               @@ ("Federal Fan" :> 0)
MCListedTiers == [reuters |-> {2}, Reuters |-> {2}, blog |-> {}, google_news |-> {}]
                 @@ ("Federal Fan" :> {1})
==============================================================================
