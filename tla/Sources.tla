--------------------------------- MODULE Sources ---------------------------------
(***************************************************************************)
(* The collection of market data: the providers, the cache, the repositories *)
(* and the collector (app/infrastructure/providers/, app/application/cache.py, *)
(* app/infrastructure/repositories/provider_repositories.py,               *)
(* app/application/market_data_collector.py), the feed manager of the news *)
(* connectors (app/infrastructure/news/) and the spot price that stands in *)
(* for a missing quote (app/application/gold_price_service.py).            *)
(*                                                                         *)
(* One process collects again and again, one step per source in the        *)
(* collector's order, and time passes while it waits for their answers; it *)
(* may be restarted, which empties the cache and the feeds' health.  What  *)
(* a provider replies is chosen anew each time, for the sources of one     *)
(* group: groups share nothing but the order, so the others may as well    *)
(* answer.                                                                 *)
(***************************************************************************)
EXTENDS Cooldown, Sequences, FiniteSets

CONSTANTS
  Series,   \* the enabled FRED series
  Feed,     \* the news connectors
  Keyless,  \* those of them whose API key is not set
  TTL,      \* how long each key is cached, in ticks
  FeedTTL,  \* how long the articles of a connector that is skipped are kept
  Length,   \* ticks a bar of each frame spans
  MaxTook   \* bound: ticks one collection waits for answers, GDELT's cooldown apart

Frames == <<"h1", "h4", "d1">>
Frame  == {Frames[i] : i \in 1 .. 3}
Single == {"dxy", "cot", "gld", "calendar", "connectors", "gdelt", "newsapi", "rss"}
Key    == Frame \cup Single \cup Series
Groups == {Frame, {"dxy"}, {"cot"}, {"gld"}, {"calendar"}, Series,
           {"connectors", "gdelt", "newsapi", "rss"}}
Day    == Length["d1"]

ASSUME SourcesAssumption ==
  /\ TTL \in [Key -> Nat \ {0}] /\ FeedTTL \in Nat \ {0}
  /\ Length \in [Frame -> Nat \ {0}] /\ MaxTook \in Nat
  /\ \A f \in Frame : Day % Length[f] = 0
  /\ Feed # {} /\ Series # {} /\ Keyless \subseteq Feed
  /\ Series \cap (Frame \cup Single) = {}

VARIABLES
  at,      \* the next source; "idle", "done", or how the cycle was cut short
  got,     \* what each source gave in this cycle, and how old that is by now
  took,    \* ticks this collection has taken
  cache,   \* the entry of each key
  feeds,   \* the health of each connector
  now,     \* time of day
  quote,   \* the price the cycle goes on with
  flaky    \* the group whose sources do not always answer

vars == <<coolVars, at, got, took, cache, feeds, now, quote, flaky>>

NoQuote == [from |-> "none", age |-> 0]
NoEntry == [some |-> FALSE, age |-> -1]
Result(status, some, age) == [status |-> status, some |-> some, age |-> age]
Failure(status) == Result(status, FALSE, 0)
NotRead == Failure("not read")
Statuses == {"SUCCESS", "PARTIAL_SUCCESS", "STALE_DATA", "FAILED", "NO_DATA", "INVALID_INPUT"}
HealthyFeed == [fails |-> 0, erred |-> FALSE, kept |-> 0, alien |-> FALSE]

(***************************************************************************)
(* What the providers make of a reply: refused (HTTP 400 and up, or no key *)
(* set), refused with a page of more than 1000 characters, a blank body, a *)
(* body that does not parse, a well-formed one without usable rows, with a *)
(* malformed row the provider expects, with one it does not, or good rows. *)
(***************************************************************************)
Reply == {"refused", "lengthy", "blank", "garbled", "empty", "odd", "alien", "full"}

Raises  == Failure("raises")   \* an exception nobody catches
TooLong == Failure("too long") \* the error does not fit into ProviderResult.error

GetJson(reply) ==
  CASE reply = "refused" -> Failure("FAILED")
    [] reply = "lengthy" -> TooLong
    [] reply = "blank"   -> Failure("NO_DATA")
    [] reply = "garbled" -> Failure("INVALID_INPUT")
    [] reply = "full"    -> Result("SUCCESS", TRUE, 0)
    [] OTHER             -> Result("SUCCESS", FALSE, 0)

Parsed(reply, empty, alien) ==
  CASE reply = "empty" -> empty
    [] reply = "odd"   -> Failure("INVALID_INPUT")
    [] reply = "alien" -> alien
    [] OTHER           -> GetJson(reply)

Nothing == Failure("NO_DATA")
Invalid == Failure("INVALID_INPUT")
NoRows  == Result("SUCCESS", FALSE, 0)

TwelveData(reply)   == Parsed(reply, Nothing, Raises)
DXY(reply)          == Parsed(reply, Nothing, Raises)
COT(reply)          == Parsed(reply, Nothing, Invalid)
GLD(reply)          == Parsed(reply, Invalid, Raises)
FREDCalendar(reply) == Parsed(reply, Nothing, Raises)
FREDMacro(reply)    == Parsed(reply, Nothing, Raises)
GDELT(reply)        == Parsed(reply, NoRows, Raises)
NewsAPI(reply)      == Parsed(reply, NoRows, Invalid)

\* RSSNewsProvider: six feeds and the keyed services.  "empty" and "odd" stand for
\* no articles without an error and for articles that have nothing to do with
\* gold, "alien" for an item without a date, the others for errors alone.
RSS(reply) ==
  CASE reply = "full"  -> Result("SUCCESS", TRUE, 0)
    [] reply \in {"empty", "odd"} -> NoRows
    [] reply = "alien" -> Raises
    [] OTHER           -> Failure("FAILED")

Provider(key, reply) ==
  CASE key \in Frame      -> TwelveData(reply)
    [] key \in Series     -> FREDMacro(reply)
    [] key = "dxy"        -> DXY(reply)
    [] key = "cot"        -> COT(reply)
    [] key = "gld"        -> GLD(reply)
    [] key = "calendar"   -> FREDCalendar(reply)
    [] key = "gdelt"      -> GDELT(reply)
    [] key = "newsapi"    -> NewsAPI(reply)
    [] key = "rss"        -> RSS(reply)

Replies(key) == IF key \in flaky THEN Reply ELSE {"full"}

(***************************************************************************)
(* _read_with_cache.                                                       *)
(***************************************************************************)
Cached(key) == IF cache[key] = NoEntry THEN {} ELSE {cache[key]}

\* An answer is cached, without rows as well; any other outcome is made up for
\* by what the cache still has.
ReadWithCache(key, result) ==
  IF result.status = "SUCCESS" THEN result
  ELSE IF Cached(key) # {} THEN Result("STALE_DATA", cache[key].some, cache[key].age)
       ELSE result

CacheSet(key, result) ==
  cache' = IF result.status = "SUCCESS"
           THEN [cache EXCEPT ![key] = [some |-> result.some, age |-> 0]] ELSE cache

\* InMemoryCacheRepository: entries that get as old as their TTL are evicted.
\* A bug: expired entries stay.
AgedForEver(key) ==
  IF Cached(key) = {} THEN NoEntry
  ELSE [cache[key] EXCEPT !.age = IF @ > TTL[key] THEN @ ELSE @ + 1]
Aged(key) ==
  IF Cached(key) = {} \/ cache[key].age + 1 >= TTL[key] THEN NoEntry
  ELSE [cache[key] EXCEPT !.age = @ + 1]

(***************************************************************************)
(* The connectors.  A connector reads several feeds or queries: it may get *)
(* articles and errors at once, and one error is a failure of it all.  A   *)
(* feed that does not parse counts as one without articles.  "alien" is an *)
(* article the snapshot refuses: a url of more than 1000 characters, or a  *)
(* source that is null.                                                    *)
(***************************************************************************)
OneFeed   == {"full", "failed", "empty", "alien"}
ManyFeeds == OneFeed \cup {"partly"}
WithKey(f) == IF f \in Keyless THEN {"failed"} ELSE ManyFeeds

ReutersReplies == OneFeed
FedReplies     == ManyFeeds
ECBReplies     == ManyFeeds
GoogleReplies  == ManyFeeds
BridgeReplies  == ManyFeeds
OfficialReplies(f)   == IF f = "treasury" THEN ManyFeeds ELSE OneFeed
FinnhubReplies       == WithKey("finnhub")
MarketAuxReplies     == WithKey("marketaux")
TheNewsAPIReplies    == WithKey("thenewsapi")
WorldNewsAPIReplies  == WithKey("worldnewsapi")

FeedReplies(f) ==
  CASE f = "reuters"      -> ReutersReplies
    [] f = "fed"          -> FedReplies
    [] f = "ecb"          -> ECBReplies
    [] f = "google_rss"   -> GoogleReplies
    [] f = "rss_bridge"   -> BridgeReplies
    [] f = "finnhub"      -> FinnhubReplies
    [] f = "marketaux"    -> MarketAuxReplies
    [] f = "thenewsapi"   -> TheNewsAPIReplies
    [] f = "worldnewsapi" -> WorldNewsAPIReplies
    [] OTHER              -> OfficialReplies(f)

\* What a connector brings when the world is well.
Sure(f) == FeedReplies(f) \cap IF f \in Keyless THEN {"failed"} ELSE {"full"}

IsHealthy(f) == feeds[f].fails < 3

Fetched(f, reply) ==
  LET failed == reply \in {"failed", "partly"}
      some   == reply \in {"full", "partly", "alien"}
  IN [fails |-> IF failed THEN feeds[f].fails + 1 ELSE 0,
      erred |-> feeds[f].erred \/ failed,
      kept  |-> IF some THEN FeedTTL ELSE feeds[f].kept,
      alien |-> IF some THEN reply = "alien" ELSE feeds[f].alien]

\* FeedManager.fetch_all and NewsConnectorProvider.fetch_all.  The last error
\* of a connector is never cleared.
FetchAll(replies) ==
  LET after == [f \in Feed |-> IF IsHealthy(f) THEN Fetched(f, replies[f]) ELSE feeds[f]]
      heard == {f \in Feed : IF IsHealthy(f) THEN replies[f] \in {"full", "partly", "alien"}
                             ELSE feeds[f].kept > 0}
      result == CASE \E f \in heard : after[f].alien -> Raises
                  [] heard # {} /\ (\A f \in heard : ~after[f].alien) -> Result("SUCCESS", TRUE, 0)
                  [] OTHER -> IF \E f \in Feed : after[f].erred THEN Failure("FAILED") ELSE NoRows
  IN [feeds |-> after, result |-> result]

(***************************************************************************)
(* The cycle.                                                              *)
(***************************************************************************)
Resting == {"idle", "done", "raised", "too long"}
Sources == <<"h1", "h4", "d1", "dxy", "cot", "gld", "calendar", "connectors", "gdelt",
             "newsapi", "rss", "macro">>
Following(key) == Sources[1 + CHOOSE i \in 1 .. 11 : Sources[i] = key]

Init ==
  /\ CoolInit
  /\ at = "idle"
  /\ got = [k \in Key |-> NotRead]
  /\ took = 0
  /\ cache = [k \in Key |-> NoEntry]
  /\ feeds = [f \in Feed |-> HealthyFeed]
  /\ now = 0
  /\ quote = NoQuote
  /\ flaky \in Groups

\* collect() begins.
Collect ==
  /\ at = "idle"
  /\ at' = "h1"
  /\ UNCHANGED <<coolVars, got, took, cache, feeds, now, quote, flaky>>

\* The rest of run_once works on what was collected, or the cycle has failed.
HandOver ==
  /\ at \in {"done", "raised", "too long"}
  /\ at' = "idle"
  /\ got' = [k \in Key |-> NotRead]
  /\ took' = 0
  /\ quote' = NoQuote
  /\ UNCHANGED <<coolVars, cache, feeds, now, flaky>>

\* Where the cycle goes with the outcome of a call: an exception ends it.
GoOn(result, next) ==
  at' = CASE result.status = "raises"   -> "raised"
          [] result.status = "too long" -> "too long"
          [] OTHER                      -> next

\* What a call gave is cached and becomes the source's result.
Take(key, result, next) ==
  /\ GoOn(result, next)
  /\ CacheSet(key, result)
  /\ got' = [got EXCEPT ![key] = ReadWithCache(key, result)]

\* The market, institutional and calendar repositories read their keys in turn.
ReadOneOf(keys) ==
  /\ at \in keys
  /\ \E reply \in Replies(at) : Take(at, Provider(at, reply), Following(at))
  /\ UNCHANGED <<coolVars, took, feeds, now, quote, flaky>>

ReadMarket        == ReadOneOf(Frame \cup {"dxy"})
ReadInstitutional == ReadOneOf({"cot", "gld"})
ReadCalendar      == ReadOneOf({"calendar"})

\* The news: the connectors first; only fresh and non-empty news ends the chain.
ReadConnectors ==
  /\ at = "connectors"
  /\ \E replies \in [Feed -> ManyFeeds] :
       /\ \A f \in Feed : replies[f] \in IF at \in flaky THEN FeedReplies(f) ELSE Sure(f)
       /\ LET fetch == FetchAll(replies)
              ended == fetch.result.status = "SUCCESS" /\ fetch.result.some
          IN /\ feeds' = fetch.feeds
             /\ Take(at, fetch.result, IF ended THEN "macro" ELSE "gdelt")
  /\ UNCHANGED <<coolVars, took, now, quote, flaky>>

\* A bug: after the sleep the cooldown is looked at again.
AwaitAgain ==
  /\ at \in {"gdelt", "sleep"} /\ wait = 0
  /\ IF Remaining = 0 THEN Look /\ at' = "ask" ELSE Look /\ at' = "sleep"
  /\ UNCHANGED <<got, took, cache, feeds, now, quote, flaky>>

AwaitCooldown ==
  /\ at \in {"gdelt", "sleep"} /\ wait = 0
  /\ IF at = "gdelt" /\ Remaining > 0 THEN Look /\ at' = "sleep"
     ELSE UNCHANGED coolVars /\ at' = "ask"
  /\ UNCHANGED <<got, took, cache, feeds, now, quote, flaky>>

\* Any answer of GDELT, also one without articles, ends the chain.
AskGDELT ==
  /\ at = "ask"
  /\ Ask
  /\ \E reply \in Replies("gdelt") :
       LET result == Provider("gdelt", reply)
       IN Take("gdelt", result, IF result.status = "SUCCESS" THEN "macro" ELSE "newsapi")
  /\ UNCHANGED <<took, feeds, now, quote, flaky>>

\* NewsAPI and RSS are not asked while the cache has their last answer.
Reused(key) == Result("SUCCESS", cache[key].some, cache[key].age)

\* A bug: a failure of NewsAPI ends the chain.
ReadNewsAPILast ==
  /\ at = "newsapi"
  /\ \/ /\ Cached(at) # {}
        /\ got' = [got EXCEPT ![at] = Reused(at)]
        /\ at' = "macro"
        /\ UNCHANGED cache
     \/ /\ Cached(at) = {}
        /\ \E reply \in Replies(at) :
             Take(at, Provider(at, reply), "macro")
  /\ UNCHANGED <<coolVars, took, feeds, now, quote, flaky>>

ReadNewsAPI ==
  /\ at = "newsapi"
  /\ \/ /\ Cached(at) # {}
        /\ got' = [got EXCEPT ![at] = Reused(at)]
        /\ at' = "macro"
        /\ UNCHANGED cache
     \/ /\ Cached(at) = {}
        /\ \E reply \in Replies(at) :
             LET result == Provider(at, reply)
             IN Take(at, result, IF result.status = "SUCCESS" THEN "macro" ELSE "rss")
  /\ UNCHANGED <<coolVars, took, feeds, now, quote, flaky>>

ReadRSS ==
  /\ at = "rss"
  /\ \/ /\ Cached(at) # {}
        /\ got' = [got EXCEPT ![at] = Reused(at)]
        /\ at' = "macro"
        /\ UNCHANGED cache
     \/ /\ Cached(at) = {}
        /\ \E reply \in Replies(at) : Take(at, Provider(at, reply), "macro")
  /\ UNCHANGED <<coolVars, took, feeds, now, quote, flaky>>

\* asyncio.gather over the series: one exception is everybody's.
ReadMacro ==
  /\ at = "macro"
  /\ \E replies \in [Series -> UNION {Replies(s) : s \in Series}] :
       LET result == [s \in Series |-> Provider(s, replies[s])]
           worst  == IF \E s \in Series : result[s].status = "raises" THEN Raises
                     ELSE IF \E s \in Series : result[s].status = "too long" THEN TooLong
                     ELSE NoRows
       IN /\ GoOn(worst, "price")
          /\ got' = [k \in Key |-> IF k \in Series THEN ReadWithCache(k, result[k]) ELSE got[k]]
          /\ cache' = [k \in Key |-> IF k \in Series /\ result[k].status = "SUCCESS"
                                     THEN [some |-> TRUE, age |-> 0] ELSE cache[k]]
  /\ UNCHANGED <<coolVars, took, feeds, now, quote, flaky>>

(***************************************************************************)
(* What becomes of the bars.                                               *)
(***************************************************************************)
\* Bugs: one fresh frame makes the bars fresh; of bars that open at the same
\* time the last one counts.
CombineAny ==
  IF \E f \in Frame : got[f].status = "SUCCESS" THEN "SUCCESS"
  ELSE IF \E f \in Frame : got[f].some THEN "PARTIAL_SUCCESS"
  ELSE got["h1"].status
\* _combine_bar_results.
CombineBarResults ==
  IF \A f \in Frame : got[f].status = "SUCCESS" THEN "SUCCESS"
  ELSE IF \E f \in Frame : got[f].some THEN "PARTIAL_SUCCESS"
  ELSE got["h1"].status

\* How long ago the newest bar of a frame opened.
Opened(f) == (((now - got[f].age) % Day) % Length[f]) + got[f].age

\* _derive_gold_price_from_bars: the frame of the newest bar, the first of those
\* that open at the same time.
QuoteFrameLast ==
  Frames[CHOOSE i \in 1 .. 3 : /\ got[Frames[i]].some
    /\ \A j \in 1 .. 3 : got[Frames[j]].some =>
         Opened(Frames[i]) < Opened(Frames[j]) \/ (Opened(Frames[i]) = Opened(Frames[j]) /\ i >= j)]
QuoteFrame ==
  Frames[CHOOSE i \in 1 .. 3 : /\ got[Frames[i]].some
    /\ \A j \in 1 .. 3 : got[Frames[j]].some =>
         Opened(Frames[i]) < Opened(Frames[j]) \/ (Opened(Frames[i]) = Opened(Frames[j]) /\ i <= j)]

HasBars == \E f \in Frame : got[f].some

\* GoldPriceService.fetch_quote: the first source with a price between 800 and
\* 15000 dollars.
Spots == <<"gold-api.com", "metals.live", "yahoo">>
FetchQuote(replies) ==
  LET sane == {i \in 1 .. 3 : replies[i] = "sane"}
  IN  IF sane = {} THEN NoQuote
      ELSE [from |-> Spots[CHOOSE i \in sane : \A j \in sane : i <= j], age |-> 0]

\* Without bars to take the price from, run_once asks the spot sources.
FindQuote ==
  /\ at = "price"
  /\ IF HasBars THEN quote' = [from |-> QuoteFrame, age |-> got[QuoteFrame].age]
     ELSE \E replies \in [1 .. 3 -> {"sane", "insane", "none"}] : quote' = FetchQuote(replies)
  /\ at' = "done"
  /\ UNCHANGED <<coolVars, got, took, cache, feeds, now, flaky>>

\* What was read ages while the collection waits for the other sources.
Longest == MaxTook + CooldownTicks
OlderBy1(r) == IF r.some THEN [r EXCEPT !.age = @ + 1] ELSE r
Waits == IF took = Longest THEN UNCHANGED <<got, took>>
         ELSE took' = took + 1 /\ got' = [k \in Key |-> OlderBy1(got[k])]

\* Time passes between collections, in GDELT's cooldown and before any answer.
\* The time of day only matters to the bars.
Tick ==
  /\ \/ at = "idle" /\ UNCHANGED <<got, took>>
     \/ at = "sleep" /\ wait > 0 /\ Waits
     \/ at \notin Resting \cup {"sleep", "ask"} /\ took < MaxTook /\ Waits
  /\ CoolTick
  /\ cache' = [k \in Key |-> Aged(k)]
  /\ feeds' = [f \in Feed |-> [feeds[f] EXCEPT !.kept = IF @ > 0 THEN @ - 1 ELSE 0]]
  /\ now' = IF flaky = Frame THEN (now + 1) % Day ELSE now
  /\ UNCHANGED <<at, quote, flaky>>

\* Another process, a run-once beside run-forever, asks GDELT.
Other ==
  /\ "gdelt" \in flaky
  /\ OtherAsks(at \in {"sleep", "ask"})
  /\ UNCHANGED <<at, got, took, cache, feeds, now, quote, flaky>>

\* The process ends and is started again.
Restart ==
  /\ at' = "idle"
  /\ got' = [k \in Key |-> NotRead]
  /\ took' = 0
  /\ cache' = [k \in Key |-> NoEntry]
  /\ feeds' = [f \in Feed |-> HealthyFeed]
  /\ quote' = NoQuote
  /\ CoolRestart
  /\ UNCHANGED <<now, flaky>>

Step == \/ ReadMarket \/ ReadInstitutional \/ ReadCalendar \/ ReadConnectors
        \/ AwaitCooldown \/ AskGDELT \/ ReadNewsAPI \/ ReadRSS \/ ReadMacro \/ FindQuote

Next == Collect \/ HandOver \/ Step \/ Tick \/ Other \/ Restart

Spec == Init /\ [][Next]_vars
FairSpec == Spec /\ WF_vars(Step) /\ WF_vars(at = "sleep" /\ Tick)

\* ProviderMacroRepository.latest.
MacroStatus ==
  IF \A s \in Series : got[s].status = "SUCCESS" THEN "SUCCESS"
  ELSE IF \E s \in Series : got[s].some THEN "PARTIAL_SUCCESS"
  ELSE "NO_DATA"

\* ProviderNewsEventRepository.latest: the result of the source that ended the
\* chain, the last that was asked.
NewsSource ==
  IF got["rss"] # NotRead THEN "rss"
  ELSE IF got["newsapi"] # NotRead THEN "newsapi"
  ELSE IF got["gdelt"] # NotRead THEN "gdelt"
  ELSE "connectors"
HasNews == got[NewsSource].some

-----------------------------------------------------------------------------
Entry(key) == [some : BOOLEAN, age : 0 .. TTL[key] - 1]
Outcome == [status : Statuses \cup {"not read", "raises", "too long"}, some : BOOLEAN, age : Nat]

TypeOK ==
  /\ at \in Resting \cup {Sources[i] : i \in 1 .. 12} \cup {"sleep", "ask", "price"}
  /\ quote \in [from : Frame \cup {Spots[i] : i \in 1 .. 3} \cup {"none"}, age : Nat]
  /\ got \in [Key -> Outcome]
  /\ DOMAIN cache = Key /\ \A k \in Key : cache[k] \in Entry(k) \cup {NoEntry}
  /\ feeds \in [Feed -> [fails : 0 .. 3, erred : BOOLEAN, kept : 0 .. FeedTTL, alien : BOOLEAN]]
  /\ now \in 0 .. Day - 1 /\ took \in 0 .. Longest
  /\ <<known, filed, asked>> \in Age \X Age \X Age /\ wait \in Age
  /\ excused \in BOOLEAN /\ flaky \in Groups

Done == at = "done"

\* However sources fail and recover, nothing was older than its own time to live
\* when it was read: what reaches the engines, "stale" data included, exceeds that
\* by no more than the collection took, GDELT's cooldown and all waits included.
DataWithinTTL ==
  Done => \A k \in Key : got[k].some => got[k].age < TTL[k] + took

\* Whatever the other frames have in the cache, also at the hour when bars of
\* all frames open together, and when that hour comes while the frames are read:
\* with hourly bars just fetched the price is no older than they are.
PriceIsCurrent ==
  Done /\ got["h1"].status = "SUCCESS" /\ got["h1"].some => quote.age <= got["h1"].age

\* A price or macro picture that comes from the cache, all or in part, is never
\* reported as SUCCESS, the only thing that tells the engines its age: all of it
\* was fetched in this collection.
SuccessIsFresh ==
  /\ Done /\ CombineBarResults = "SUCCESS" => quote.age <= took
  /\ Done /\ MacroStatus = "SUCCESS" => \A s \in Series : got[s].age <= took

\* Failing sources alone do not leave the engines without news: without any, a
\* source has answered that there is none, or all of them down to RSS failed.
OutageNeverSilences ==
  Done /\ ~HasNews => NewsSource = "rss" \/ got[NewsSource].status = "SUCCESS"

\* Requests to GDELT keep the cooldown, across processes started one after the
\* other; another process may only come in between while this one sleeps, and
\* a time that could not be written is forgotten with the process.
GDELTSpaced ==
  [][at = "ask" /\ at' \notin {"ask", "idle"} => asked = CooldownTicks \/ excused]_vars

\* A collection comes to an end, also when others keep asking GDELT.
CollectionEnds == at \notin Resting ~> at \in Resting

\* test_news_repository_degrades_cleanly_when_gdelt_and_newsapi_fail: a source
\* that refuses is a status, not the end of the cycle.
DegradesCleanly == at # "too long"
==================================================================================
