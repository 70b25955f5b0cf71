---------------------------------- MODULE News ----------------------------------
(***************************************************************************)
(* What becomes of the articles of a cycle: the RSS provider screens what  *)
(* it fetched (app/infrastructure/providers/rss_news_provider.py), the     *)
(* news engine derives its features (app/features/article_intelligence.py) *)
(* and the event pipeline (app/application/events/) makes events of the    *)
(* articles, narratives of the events, and verifies the events.            *)
(*                                                                         *)
(* An article is [id, url, title, source, length, at, themes, topics, hits]: *)
(* a title is its set of words, a word a number in alphabetical order, so  *)
(* no title repeats a word; length is that of the summary, at the hour of  *)
(* publication; themes are the narrative templates and topics the topic    *)
(* terms found in its text, hits how many signals of each kind RSS counts, *)
(* and the surest sign the features go by.                                 *)
(***************************************************************************)
EXTENDS Engines, FiniteSets

CONSTANTS
  Articles,     \* what may be published
  Batches,      \* what one fetch may bring: sequences of articles
  Templates,    \* the narrative templates, in their order
  CommonWords,  \* words the detector ignores, "gold" among them
  MaxCluster,   \* max_cluster of the detector
  ExactTier,    \* the tier of the names in SOURCE_TIERS, 0 for any other name
  ListedTiers   \* the tiers with a publisher whose name is part of the name

ArticleFields == {"id", "url", "title", "source", "length", "at", "themes", "topics", "hits"}

ASSUME NewsAssumption ==
  /\ \A a \in Articles : DOMAIN a = ArticleFields /\ a.at \in Int /\ a.source \in DOMAIN ListedTiers
  /\ \A batch \in Batches : batch \in Seq(Articles)
  /\ Templates \in Seq(STRING)
  /\ MaxCluster \in Nat \ {0, 1}
  /\ ExactTier \in [DOMAIN ListedTiers -> 0 .. 5]
  /\ \A name \in DOMAIN ListedTiers : ListedTiers[name] \subseteq 1 .. 3

VARIABLES
  stage,      \* "idle", "screened", "detected", "clustered", "verified", "digested"
  articles,   \* the articles of the fetch
  features,   \* ArticleIntelligenceFeatureSet
  events,     \* MarketEvents, surest first
  narratives  \* MarketNarratives, strongest first

vars == <<stage, articles, features, events, narratives>>

\* sorted(reverse=True) is stable: of equals the earlier comes first.
Precedes(key, i, j) == key[i] > key[j] \/ (key[i] = key[j] /\ i <= j)

\* What f gives for a set of numbers, by key.
Arranged(f, key) ==
  LET Rank(j) == Cardinality({i \in DOMAIN f : Precedes(key, i, j)})
  IN  [k \in 1 .. Cardinality(DOMAIN f) |-> f[CHOOSE j \in DOMAIN f : Rank(j) = k]]

\* What f gives for a set of numbers, in their order.
InOrder(f) == Arranged(f, [i \in DOMAIN f |-> 0])

Total(numbers) ==
  LET upTo[i \in 0 .. Len(numbers)] == IF i = 0 THEN 0 ELSE upTo[i - 1] + numbers[i]
  IN  upTo[Len(numbers)]

(***************************************************************************)
(* Screening: one article per page and per title, of those with a signal.  *)
(***************************************************************************)
\* _deduplicate: unlike every article that was kept before.
Kept(batch) ==
  LET keeps[i \in DOMAIN batch] ==
        \A j \in 1 .. i - 1 : keeps[j] => batch[j].url # batch[i].url /\ batch[j].title # batch[i].title
  IN  {i \in DOMAIN batch : keeps[i]}

GoldRelevance(a) ==
  Smaller(100, Smaller(25 * a.hits.direct, 50) + Smaller(10 * a.hits.macro, 30)
               + Smaller(10 * a.hits.geo, 25) + Smaller(15 * a.hits.haven, 20)
               + (IF a.hits.headline THEN 15 ELSE 0))

Screened(batch) ==
  InOrder([i \in {j \in DOMAIN batch : j \in Kept(batch) /\ GoldRelevance(batch[j]) >= 10} |-> batch[i]])

(***************************************************************************)
(* build_article_intelligence.  Of articles with the same page and title   *)
(* the newest counts.                                                      *)
(***************************************************************************)
Copies(a, b) == a.url = b.url /\ a.title = b.title

OncePerPage(feed, key) ==
  LET first == {i \in DOMAIN feed : \A j \in DOMAIN feed :
                  j # i /\ Copies(feed[j], feed[i]) => ~Precedes(key, j, i)}
  IN  Arranged([i \in first |-> feed[i]], key)

\* A bug: in the order they came.
FirstCopies(feed) == OncePerPage(feed, [i \in DOMAIN feed |-> 0])
Unique(feed) == OncePerPage(feed, [i \in DOMAIN feed |-> feed[i].at])

\* The first three words of a title in alphabetical order.
Key(a) == {w \in a.title : Cardinality({v \in a.title : v < w}) < 3}

\* The eight largest groups of articles by key.
Clusters(unique) ==
  LET Group(i) == {j \in DOMAIN unique : Key(unique[j]) = Key(unique[i])}
      heads    == {i \in DOMAIN unique : \A j \in Group(i) : i <= j}
      all      == Arranged([i \in heads |-> [headline |-> unique[i].id, size |-> Cardinality(Group(i)),
                                             topics |-> UNION {unique[j].topics : j \in Group(i)}]],
                           [i \in heads |-> Cardinality(Group(i))])
  IN  SubSeq(all, 1, Smaller(8, Len(all)))

\* By the surest sign in the text: the gold price, gold, or another of its own list
\* of signals.
Relevance(a) == [price |-> 95, gold |-> 80, signal |-> 55, none |-> 25][a.hits.sign]

\* How long the story is expected to last, in hours; the first is the newest.
Duration(unique, clusters, now) ==
  IF unique = <<>> THEN 0
  ELSE Smaller(720, Larger(6, 24 + Smaller(72, 6 * Total([i \in DOMAIN clusters |-> clusters[i].size]))
                              + Smaller(72, 6 * Total([i \in DOMAIN clusters |-> Cardinality(clusters[i].topics)]))
                              - Larger(0, now - unique[1].at)))

Now == 24
ArticleIntelligence(feed) ==
  LET unique == Unique(feed)
  IN [copies |-> Len(feed) - Len(unique), unique |-> Len(unique), clusters |-> Clusters(unique),
      relevance |-> IF unique = <<>> THEN 0 ELSE Nearest(Total([i \in DOMAIN unique |-> Relevance(unique[i])]), Len(unique)),
      high |-> Cardinality({i \in DOMAIN unique : Relevance(unique[i]) >= 70}),
      duration |-> Duration(unique, Clusters(unique), Now)]

(***************************************************************************)
(* EventDetector: union-find over the pairs in order, as sets of articles.  *)
(***************************************************************************)
Tokens(a) == a.title \ CommonWords

\* At least 0.45 of the words of both, or three words.
Similar(a, b) ==
  LET shared == Cardinality(Tokens(a) \cap Tokens(b))
  IN  /\ shared > 0
      /\ 100 * shared >= 45 * Cardinality(Tokens(a) \cup Tokens(b)) \/ shared >= 3

GroupOf(groups, i) == CHOOSE g \in groups : i \in g
Full(g) == Cardinality(g) >= MaxCluster

\* A bug: only the article moves, not its group.
MovedTo(groups, g, h, j) == (groups \ {g, h}) \cup {g \cup {j}, h \ {j}}
Merged(groups, g, h, j) == (groups \ {g, h}) \cup {g \cup h}

Join(groups, feed, i, j) ==
  LET g == GroupOf(groups, i)
      h == GroupOf(groups, j)
  IN  IF g # h /\ ~Full(g) /\ ~Full(h) /\ Similar(feed[i], feed[j])
      THEN Merged(groups, g, h, j) ELSE groups

\* Article i against those after it.
Row(groups, feed, i) ==
  LET upTo[j \in i .. Len(feed)] == IF j = i THEN groups ELSE Join(upTo[j - 1], feed, i, j)
  IN  upTo[Len(feed)]

Grouping(feed) ==
  LET upTo[i \in 0 .. Len(feed)] ==
        IF i = 0 THEN {{k} : k \in DOMAIN feed} ELSE Row(upTo[i - 1], feed, i)
  IN  upTo[Len(feed)]

\* _build_event: the first article with the longest summary represents the others.
EventOf(feed, members) ==
  LET longest == {i \in members : \A j \in members : feed[i].length >= feed[j].length}
      head    == feed[CHOOSE i \in longest : \A j \in longest : i <= j]
      names   == {feed[i].source : i \in members}
  IN [id |-> <<head.id, names>>, themes |-> head.themes, sources |-> names,
      size |-> Cardinality(members), ids |-> {feed[i].id : i \in members},
      confidence |-> Smaller(95, 30 + 8 * Smaller(Cardinality(members), 5)
                                    + 12 * Smaller(Cardinality(names), 4)),
      confirmed |-> FALSE]

DetectEvents(feed) ==
  LET groups == Grouping(feed)
      heads  == {i \in DOMAIN feed : \A j \in GroupOf(groups, i) : i <= j}
      found  == [i \in heads |-> EventOf(feed, GroupOf(groups, i))]
  IN  Arranged(found, [i \in heads |-> found[i].confidence])

(***************************************************************************)
(* NarrativeClusterer: strength in thousandths, from the number of events, *)
(* sources and articles (each article once) and the events' confidence.    *)
(***************************************************************************)
\* A bug: without the base of 0.20.
StrengthWithoutBase(n, sources, ids, confidence) ==
  Nearest(1000 * n * Smaller(n, 3) + 1000 * n * Smaller(sources, 3)
          + 30 * confidence + 200 * n * Smaller(ids, 15), 15 * n)
Strength(n, sources, ids, confidence) ==
  Nearest(3000 * n + 1000 * n * Smaller(n, 3) + 1000 * n * Smaller(sources, 3)
          + 30 * confidence + 200 * n * Smaller(ids, 15), 15 * n)

NarrativeOf(name, matched) ==
  LET sources == UNION {matched[i].sources : i \in DOMAIN matched}
      ids     == UNION {matched[i].ids : i \in DOMAIN matched}
  IN [name |-> name, events |-> [i \in DOMAIN matched |-> matched[i].id], ids |-> ids,
      strength |-> Strength(Len(matched), Cardinality(sources), Cardinality(ids),
                            Total([i \in DOMAIN matched |-> matched[i].confidence]))]

ClusterEvents(detected) ==
  LET Matching(t) == {i \in DOMAIN detected : Templates[t] \in detected[i].themes}
      found == [t \in {u \in DOMAIN Templates : Matching(u) # {}} |->
                  NarrativeOf(Templates[t], InOrder([i \in Matching(t) |-> detected[i]]))]
  IN  Arranged(found, [t \in DOMAIN found |-> found[t].strength])

\* What the orchestrator and the unified outlook take for active.
ActiveNarratives(found) ==
  InOrder([i \in {j \in DOMAIN found : found[j].strength > 300} |-> found[i]])

(***************************************************************************)
(* CrossSourceVerifier.                                                    *)
(***************************************************************************)
Tier(name) ==
  IF ExactTier[name] # 0 THEN ExactTier[name]
  ELSE CHOOSE t \in ListedTiers[name] \cup {5} : \A u \in ListedTiers[name] : t <= u

TiersOf(e) == {Tier(name) : name \in e.sources}
BestTier(e) == CHOOSE t \in TiersOf(e) : \A u \in TiersOf(e) : t <= u

\* A bug: articles count as sources.
ConfirmsVolume(e) == e.size >= 2 /\ BestTier(e) <= 2
Confirms(e) == Cardinality(e.sources) >= 2 /\ BestTier(e) <= 2

Verified(e) ==
  [e EXCEPT !.confirmed = Confirms(e),
            !.confidence = Smaller(100, @ + Smaller(25, 6 * (Cardinality(e.sources) - 1))
                                          + (IF BestTier(e) <= 2 THEN 15 ELSE 0)
                                          + Smaller(15, 5 * (Cardinality(TiersOf(e)) - 1)))]
VerifyEvents(detected) == [i \in DOMAIN detected |-> Verified(detected[i])]

-----------------------------------------------------------------------------
NoFeed == ArticleIntelligence(<<>>)

Init ==
  /\ stage = "idle"
  /\ articles = <<>> /\ events = <<>> /\ narratives = <<>>
  /\ features = NoFeed

\* RSSNewsProvider.news_events; the other providers hand over what they fetched.
Screen ==
  /\ stage = "idle"
  /\ \E batch \in Batches : articles' \in {Screened(batch), batch}
  /\ stage' = "screened"
  /\ UNCHANGED <<features, events, narratives>>

\* The collector hands the same articles over as news and as geopolitical ones,
\* so the orchestrator's sum of the two holds each article twice.
Given == articles \o articles

Detect ==
  /\ stage = "screened"
  /\ events' = DetectEvents(Given)
  /\ stage' = "detected"
  /\ UNCHANGED <<articles, features, narratives>>

Cluster ==
  /\ stage = "detected"
  /\ narratives' = ClusterEvents(events)
  /\ stage' = "clustered"
  /\ UNCHANGED <<articles, features, events>>

Verify ==
  /\ stage = "clustered"
  /\ events' = VerifyEvents(events)
  /\ stage' = "verified"
  /\ UNCHANGED <<articles, features, narratives>>

\* The news engine's and, with two days instead of one, the geopolitical one's.
Digest ==
  /\ stage = "verified"
  /\ features' = ArticleIntelligence(articles)
  /\ stage' = "digested"
  /\ UNCHANGED <<articles, events, narratives>>

\* The next cycle.
Forget ==
  /\ stage = "digested"
  /\ stage' = "idle"
  /\ articles' = <<>> /\ events' = <<>> /\ narratives' = <<>>
  /\ features' = NoFeed

Next == Screen \/ Detect \/ Cluster \/ Verify \/ Digest \/ Forget

Spec == Init /\ [][Next]_vars

-----------------------------------------------------------------------------
SeqSet(s) == {s[i] : i \in DOMAIN s}

\* The articles that tell the story of each: the least set with i and with all articles
\* similar to one of it.
Stories(feed) == {c \in SUBSET DOMAIN feed :
                    \A j \in c, k \in DOMAIN feed : Similar(feed[j], feed[k]) => k \in c}
Linked(feed) ==
  LET stories == Stories(feed)
  IN  [i \in DOMAIN feed |-> {j \in DOMAIN feed : \A c \in stories : i \in c => j \in c}]

\* As long as no story reaches max_cluster, the events are the stories: which
\* of two articles is read first never tells them apart.
EventsAreStories ==
  stage = "detected" =>
    LET links == Linked(Given)
    IN  (\A i \in DOMAIN Given : Cardinality(links[i]) < MaxCluster)
          => {e.ids : e \in SeqSet(events)}
             = {{Given[j].id : j \in links[i]} : i \in DOMAIN Given}

\* "low-trust volume alone never confirms anything", nor does an article that
\* is there twice: what is confirmed was told under two names in two articles,
\* one name authoritative.
ConfirmedByTwo ==
  stage = "verified" => \A e \in SeqSet(events) : e.confirmed =>
    \E a, b \in SeqSet(articles) :
      /\ {a.id, b.id} \subseteq e.ids
      /\ a.source # b.source
      /\ Tier(a.source) <= 2

\* No narrative that is found is ever too weak: the least the formula gives is
\* more than the 0.3 that orchestrator and outlook ask for, so one article of
\* any source puts its narrative into the paper account's history.
EveryNarrativeActive == ActiveNarratives(narratives) = narratives

\* Older copies of an article the feed has under the same page and title change
\* nothing but the count of copies, whatever their summary and source say.
OlderCopies(feed) == [i \in DOMAIN feed |-> [feed[i] EXCEPT !.at = @ - 1, !.topics = {}]]
OlderCopiesIgnored ==
  stage = "digested" =>
    LET swollen == ArticleIntelligence(OlderCopies(articles) \o articles)
    IN  [swollen EXCEPT !.copies = features.copies] = features
==============================================================================
