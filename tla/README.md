# MIOS in TLA+

Specifications of the Market Intelligence and Opportunity System (a Python
program that looks at the gold market in cycles, lets a committee of language
models vote, decides, keeps a journal and sends Discord alerts), checked with
TLC and, where it says so, proved with TLAPS. `src/` is the repository; every
definition that models code is listed with its lines in `PROJECT.json`, "map".

1. [The system](#1-the-system)
2. [Modules and code](#2-modules-and-code)
3. [Runs](#3-runs)
4. [Bounds](#4-bounds)
5. [Fairness](#5-fairness)
6. [Proofs](#6-proofs)
7. [Where documents and code disagree](#7-where-documents-and-code-disagree)
8. [Not modelled](#8-not-modelled)
9. [Plan](#9-plan)

## 1. The system

`python -m app run-forever` starts `ContinuousRunner`, which runs one
`run_once` of the orchestrator per interval and logs and survives a failing one.
`run-once` does the same a single time, from another terminal or a cron job, and
`serve` shows the journal over HTTP from threads. These processes share
files and nothing else: the journal (by default the SQLite database of
`config/database.json`, else a JSON file), the notification state, the paper
account, GDELT's cooldown stamp and the Groq lock.

A cycle: the collector reads quote, candles, macro, positioning and news through
caching repositories; the event pipeline makes events and narratives of the
news; the engines turn each kind of data into a scored report; the research
desk decides whether to think deep and the committee's members vote, each by
one call of the LLM client (which calls Groq under a lock file), and the votes
become a report; the decision engine makes a decision of it and the policy
says for each mode (physical, forex, etf) whether to act on it; it is
journaled, notified and handed to paper trading.

| part | state it keeps | operations | interacts by | what is hard | what makes it correct |
|---|---|---|---|---|---|
| LLM client `app/ai/agents/llm_client.py`, `urllib_http_client.py` | the circuit breaker: providers and when each was opened | `complete`, provider by provider and model by model; `post` with its own retries | called by each voting member; calls providers | two layers of retries; circuits expire between the calls of one deliberation | an open circuit is not called; nobody is given up untried; AI comes back |
| Groq lock (same file) | one file, its age | `_acquire_groq_lock`, `finally: remove` | shared by processes | check-then-remove, kills, time | one process at a time while active locks are left alone; a wait ends unless a stale file cannot be removed; an orphan is reclaimed |
| Committee `app/ai/committee.py` | votes of the cycle | `deliberate` | asks LLM client, feeds decision | a member failing half way, the unlocked last round | votes of one cycle come from one provider; an outage never looks like conviction |
| Providers, repositories, cache, collector | a cache with a time to live per key; the health of each news connector | `collect`, source by source, reading through | HTTP; the orchestrator | stale data, what ages while the rest is waited for, fall-through order, one failing source of many | what is served is fresh or marked; a failure is a status, not the end of the cycle |
| GDELT cooldown | a time stamp in the process and in a file | wait, ask, write | processes share the file | read, sleep and write without a lock | requests are spaced; the wait ends |
| Event pipeline, article features | none | screen, detect, cluster, verify | the orchestrator, news engines | order of arrival, copies, several names of one outlet | one event per story whatever the order; confirmation needs two |
| Technical features, engines | none | `build_technical_features`, `analyze` | pure | missing data, ties, averages | missing data never strengthens a report |
| Research desk | none | `analyze`, escalation | engines, committee | thresholds on scores that mean opposite things | a shock gets deep reasoning |
| Decision engine, execution policy, adapters | none | filter, score, confidence, recommendation; per mode the policy | pure | thresholds, clamping, truncated lists | gates that block are never overruled |
| SQLite and JSON journal | a table and a connection per process; a JSON file and a lock file | `append`, `latest`, `list_recent` | writer: cycle; readers: dashboard | implicit transactions, snapshots; flock on a name that is removed, kills between open, write, rename | one list, as long as JSON appends do not overlap; after a failure it can be written again |
| Notification `notification_engine.py`, state file, `webhook_client.py` | last evaluated, last notified, time of the last alert, pending | `process_recommendation` | end of a cycle; Discord | lost acknowledgement, kill before the save, two processes | the file knows what Discord shows; a change is not swallowed |
| Paper trading | one account file: open position, closed ones | `update`, `summary` | end of a cycle | load, change, save without a lock | it follows the journal; the history only grows; a missed close is made up for |
| Continuous runner, commands | the stop flag | `run`, `request_stop` | everything above | one step failing after others were done | monitoring goes on until it is stopped |
| Backtesting | none | windows through the same engines | pure | data the windows do not have | its windows can decide something |
| Dashboard | none | HTTP handlers | reads the journal | reads while it is replaced | see the JSON journal |
| Polling scheduler, benchmark, legacy API clients, knowledge base | — | not part of a cycle as `main` builds it | — | — | — |

The hazards, each at its line and with the properties that would catch it, are
in `PROJECT.json`, "hazards".

## 2. Modules and code

```
Consensus ─┬─ Committee ─ MCCommittee      Journal (abstract)      Cycle
LLMClient ─┘                                  ▲ refinement
Consensus ─┐                               JsonJournal ─ MCJsonJournal
Engines ───┴─ Decision ─┐                  GroqLock
TechnicalFeatures ──────┴─ MCDecision      Notification ─ MCNotification
Engines ─ News ─ MCNews                    Cooldown ─ Sources ─ MCSources

CommitteeProofs, CycleProofs, DecisionProofs, GroqLockProofs, JsonJournalProofs,
NewsProofs, NotificationProofs and SourcesProofs extend the module they are named after.
```

A cycle of the program is divided along the calls of `run_once`: Sources collects,
News digests the articles, Decision goes from data to the modes' advice (with the
committee's routing in Committee, LLMClient and GroqLock), Cycle files, trades and
repeats, Notification alerts. What one part hands to the next is a constant set of
cases or a free choice in the next.

**Sources, Cooldown** — one process collects again and again, one action per
read of the collector in its order. What a provider makes of a reply is a
function of the kind of reply (`Reply`: refused, refused with a long page, blank,
garbled, empty, with a malformed row, good), read off each provider's code,
with the exceptions nobody catches. `ReadWithCache`, `CacheSet` and `Aged` are the
read-through cache: a failure serves what the cache still has as stale, and the
cache evicts at the time to live. The connectors are the feed manager's health
counters over each connector's possible replies. Only one group of sources is flaky at
a time (`flaky`): groups share nothing but the order. Time passes between collections, in GDELT's
sleep and before any answer: then the cache ages and so does what the collection has already read
(`Waits`), and `took` counts it. Cooldown is GDELT's stamp
in process and file, beside a second process. At the end the price is derived from
the newest bar, or asked of the spot sources.

**News** — articles are records with a title of words (numbers in alphabetical
order), a source, a page, an hour and the signals found in the text; `Articles` is what may be
published. The detector's union-find is a partition of the feed that two recursive functions
take through the pairs in the code's order (`Row` one article against those after
it, `Grouping` the rows). Every stable sort of the pipeline is `Arranged`, which gives
each element its rank; `Kept` and `OncePerPage` are the two ways in which the code drops copies.
Confidences are percents, a narrative's strength is in thousandths, rounded as the code does.

**TechnicalFeatures, Engines** — pure operators: what the feature builder sees in
candles of whole numbers, and score, confidence, bias, status and risk severities of each
engine. Scores are whole as in the code; Python's `round` and `int` are `Nearest`
(half to even) and `Trunc`. RSI, averages and the move's size come with a market as
numbers. Candles whose volume ratio divides by zero have the features `Raised`: no engine sees
them, the cycle has failed, which is `Fails` in Cycle. An evidence list is kept where its length or its severities are read.

**Decision** — the state machine of one decision: engines, desk and committee,
`DecisionEngine.decide`, the policy and adapters, or one window of the backtest.
Weights and thresholds are those of the defaults in `decision_config.py`, which
`config/decision_engine.json` repeats.

**Cycle** — `run-forever` and run-once processes from the decision on: `latest`,
INSERT and COMMIT over either journal, the alert (which may raise), load, update and
save of the paper account, and the runner's loop with stop requests, failures,
kills and restarts. `conn` is what matters of an SQLite connection in Python's
default transaction mode: whether a transaction is open, whether it has read, and
whether what it saw is outdated. An append to the JSON file is a read and a write, and the
appends of two processes may overlap, since the lock does not keep them apart
(`json_journal_lock`): then a record may be lost, or the shared temporary file garbled or
gone. `log` says whose decision a reader of the journal would find; the history
variable `clash`, which appends have overlapped.

**Consensus** — the pure part of `committee.py`: what the desk's and the
members' votes weigh, the shares, the cap and the level, the fields of the
report which the decision engine reads. Confidences and weights are whole
percents and shares ten-thousandths, so ties and thresholds are exact. The desk's vote is cut to
whole percents where the code keeps a float: a share differs by less than 25 ten-thousandths, which
may move it over a level's threshold and matters to no property. The models' prose is left out.
The one tie that floating point decides (a one-sided desk with every provider
out: .225 against .22499999999999998) falls as it does in the model; the outage
then reports the desk's direction, not WAIT, so `FallbackBounded` states what
the code does bound: confidence, level and adjustment.

**LLMClient** — `complete` and `_try_provider` with one action per outcome of a
provider call: a valid reply; a failing model followed by the next model
(retryable) or by the next provider (permanent, the circuit opens); an unusable
reply; a retry inside `UrlLibHttpClient.post` and its exhaustion, which reports
599. Which statuses are retryable is the code's list. `circuit` maps a provider
to the age of its entry, up to ResetAge, because the code compares a monotonic
clock with one bound. Groq's `lock_timeout` is one more unusable answer here;
how it comes about is GroqLock.

**Committee** — `deliberate`: the outer loop over providers, the members one
after the other, the restart of all members when one fails on a locked provider,
the last round without a lock in which failing members abstain, and the report.
`tooLong` are the members whose prompt exceeds the token limit even compressed: they
abstain without asking anyone, which fails every locked cycle. Composes LLMClient and Consensus. Whether the desk escalates is a free choice here; Decision computes it.

**GroqLock** — processes and one lock file with an age. `getmtime` and `remove`
are separate steps and a remove may fail, for as long as it likes; the holder posts up to three times with back-offs; Tick
advances every clock and cannot pass the longest post or back-off, which is how
"a call takes at most so long" is said. `owner` is a history component: the file
holds no owner, and `Cleanup` removes whatever file has the name, as the code. `breached` says
that a waiter has removed the file of a process inside its call, `aged` that some file has reached the
staleness window.

**Journal / JsonJournal** — Journal is what callers rely on: an atomic capped
list. JsonJournal is `file_lock` plus the repository over names, inodes and
open descriptors: flock is on the inode, `os.unlink` removes only the name, and
`append` writes a temporary file and renames it. Steps are system calls; a
process can be killed between any two. INSTANCE Journal with the contents of the
inode the name points to gives the refinement `ImplementsJournal`. The lock is
the POSIX branch of `file_lock`.

**Notification** — the end of `run_once`: load, choose the trigger, publish with
the webhook's tries, save. A try that fails may have been delivered. History
variables say what Discord shows (`shown`) and whether something happened that
the state file cannot know (`lost`). The webhook's waiting between tries does
not change any state and has no action of its own.

MC modules hold the instances for TLC; the `...Proofs` modules the theorems.

## 3. Runs

| run | question | result |
|---|---|---|
| `committee_routing` | three providers, any sequence of deliberations: routing and circuit breaker | `CycleLocked`: the votes of an accepted locked cycle are one provider's. `CircuitRespected`: no call on an open circuit. `FallbackOnlyAfterExhaustion`: unless every prompt is too long, a report without AI only after every provider was tried or its circuit was open. `DeliberationEnds`, `AIRecovers` |
| `groq_lock` | the lock with the code's proportions of timeout, retries and window, a kill, and removes that may fail | until a waiter removes an active lock, which `groq_reclaim` shows it can: `MutualExclusion`, `FileIsTheLock`. `BreachIsLate`: that takes a lock file of the window's age. `WaitEnds`: a wait ends, or the waiter finds stale locks for ever. `OrphanReclaimed`: a killed holder's file goes away unless removes fail again and again |
| `groq_reclaim` | is an active lock never reclaimed, with the HTTP client's retries? | violated, see 7 |
| `json_journal` | one writer, two readers, kills anywhere | `ImplementsJournal`, `ReadsAreCurrent`, `LockIsGranted` |
| `json_journal_lock` | is `file_lock` exclusive? | violated, see 7 |
| `notification` | two processes, one state file, failing webhooks | `RecordMatchesDiscord`, `OneRecommendationOnFile`, `ConfidenceAlertsSpaced`, `ChangeReachesDiscord` |
| `sources` | any source of a group failing in any way, restarts, another process at GDELT | `DataWithinTTL`: nothing was older than its time to live when it was read, and what reaches the engines exceeds it by no more than the collection took. `PriceIsCurrent`: with freshly fetched hourly bars the price is no older than they are, also when bars of all frames open together. `SuccessIsFresh`: cached parts never pass as SUCCESS, all of it was fetched in this collection. `OutageNeverSilences`: failures alone do not leave the engines without news before RSS was asked. `GDELTSpaced`, `CollectionEnds` |
| `provider_abort` | is a refused request a status and no more? | violated, see 7 |
| `news` | every order of two to four of six articles | `EventsAreStories`: the events are the connected groups of similar articles, in whatever order they are read. `ConfirmedByTwo`: confirmation takes two articles under two names, although every article reaches the detector twice. `EveryNarrativeActive`: the filter on narratives filters none. `OlderCopiesIgnored` |
| `decision` | markets from candles, macro data, flows, news, every ballot of a committee | `OnlyLongActions`: no mode ever acts on a bearish outlook, the thresholds put it out of reach. `GraveRiskBlocks`: a grave risk in any report blocks, although only ten risks are carried on. `ActsOnData`, `PhysicalWaitsInOutage`, `ShockIsDeep`, `FallbackBounded`. `BacktestOnlyWaits`: the backtest command can decide nothing but WAIT |
| `cycle` | run-forever beside run-once over either journal, anything failing anywhere | `PaperFollowsJournal` (unless JSON appends overlapped: the account moves only on a decision the journal still holds), `HistoryGrows` (but for a save that overwrites another's), `CloseMadeUp`, `MonitoringContinues`, `StopHonoured` |
| `cycle_resumes` | is the journal written again when all is well again? | violated, see 7 |

Every property of a passing run has a mutant in `PROJECT.json`: the modelled code
with one plausible mistake, defined in the module before the definition it
replaces, under which the property fails. Modules without a `TypeOK` among their
run's properties still state it, as documentation of their variables.

## 4. Bounds

- `committee_routing`: three providers, one with two models, contexts that fit every
  member or not the last one (the latest a locked cycle can fail); `ResetAge = 2` so that
  a circuit can be new, older and expired; HttpRetries 1, since further retries inside
  `post` only repeat the same action. One ballot: routing does not depend on votes.
- `groq_lock`: two processes are enough for owner, waiter and newcomer because
  roles are taken in turn; a third process adds states, not roles (the theorems
  hold for any number). A tick is 30 s: an HTTP try 1, the code's two retries make a post 3, a
  back-off 1 (5 s, rounded up), StaleAfter 4, MaxWait 2 (45 s, rounded up): a hold may take 12 ticks
  and active locks do get removed. `MaxKills = 1`. `groq_reclaim` has StaleAfter 7,
  which is more than the source's own sum of three tries and back-offs, and no kills.
- `json_journal`: MaxRecords 2 reaches the cap on the third append; three reports
  distinguish newest, older and dropped; four inodes are the data file, a
  temporary file and the old data files of two readers at once, one more than the
  processes, as section 6 asks.
- `notification`: a window of one tick, two tries instead of three (first and
  last), one pending alert counted (nothing reads the number), two
  recommendations and two confidences a delta apart.
- `sources`: cache entries live one or two ticks, in the order of
  the configured times; an hourly bar spans more ticks than its entry lives and a
  daily entry lives as long as one, so all frames can be stale or fresh and open
  together. Two series, one connector with a key that is not set and one without need
  of one; the others differ only in the replies they can have. GDELT's cooldown is one tick,
  and one more may pass before any answer (`MaxTook = 1`), which is a whole time to live.
- `news`: four articles give every order in which two groups are linked by a third
  article; doubled they are eight, one more than `MaxCluster = 7`, so that the limit is
  reached. The pool has two names of one outlet, a page without a significant word, and
  a source that is authoritative by part of its name.
- `decision`: ten markets (a rising frame beside one without a trend in either order, rising, falling,
  resuming, drifting, flat, too few candles, none, none but a spot price), an eleventh whose
  features raise, five macro pictures, eight flows, six news wires, and three AI members with two answers or
  none each: every product of them. Adjustment and cap are those of the README's table, which are those of `config/ai_research.json`; `FeatureAssumption` is
  evaluated on all of them.
- `cycle`: one runner and one run-once, which may come again; opening, waiting and closing
  decisions; two closed positions kept, so that a lost one is seen; of the journal, whose decisions of the
  cycles in progress are in it, since nothing here reads an older one.

## 5. Fairness

- *Calls end.* Every HTTP call has a timeout, so steps of a running call are weakly
  fair (Committee, LLMClient, Notification), and in GroqLock no clock passes its bound.
- *Cycles come again.* `run-forever` sleeps at most its interval: `Decide`,
  `Deliberate` and, in GroqLock, `Start` of Regular processes are weakly fair.
  `run-once` is not required to come back for any liveness property except as
  another writer of the same file in Notification.
- *Time passes.* Tick is fair; strongly in GroqLock, where it is disabled again and
  again by processes whose step is due.
- *A cycle goes on.* In Cycle and Sources the steps of a cycle are weakly fair, and so are the
  runner's next start, its waking and, in Sources, time during GDELT's sleep.
- *The write lock is granted.* Another process holds SQLite's write lock between INSERT and
  COMMIT only, so the runner's INSERT is strongly fair. A holder that is suspended for more
  than the five seconds is `InsertFails`, until the outside has settled.
- *flock is granted.* Linux wakes the waiters of flock in order: `Flock` is strongly
  fair, as long as holders close the file, which the operating system does for a
  killed one.
- *Nothing outside is forced.* A provider need not heal, the world need not settle,
  nobody need be killed: the liveness properties are conditional on it
  (`AIRecovers`: if a reliable provider heals and some member's prompt fits; `ChangeReachesDiscord`: if the
  outside settles and no record is lost any more; `CloseMadeUp`: if it settles and the
  runner's connection can still write). `MonitoringContinues` and `StopHonoured` hold with
  failures for ever.

## 6. Proofs

`tlapm` proves the following for every value of the constants that the modules'
ASSUMEs allow: any number of processes, providers, series or feeds, any times. What a
theorem assumes beyond them is stated with it. In each module `IInv` is the
inductive invariant; TLC finds each one true on the instance of its module's run, but for
DecisionProofs, whose invariant quantifies over the inputs at every step.

### GroqLockProofs

`GroqTypes`, `GroqMutualExclusion`, `GroqFileIsTheLock`, `GroqBreachIsLate`, for any times and kills: nothing
is assumed of how long a call takes, since the shipped numbers refute what the source
claims (section 7). What remains true is that one process is inside until a waiter removes the file
of another that is inside (`breached`). `MutualExclusion` is not inductive: that a second
process stays out rests on the file of the first (`Owned`), which no finally block and no kill
takes away. `Earned` says that a process about to remove saw a file of the window's
age, also when the file it then removes is a younger one: the step between
`getmtime` and `remove`. That a call ends is `ClocksInBounds`: a third 429 ends the posts.

### NotificationProofs

- `NotificationTypes`, `NotifiedAsEvaluated`: `OneRecommendationOnFile`, for processes that
  overwrite each other's state. Every state any process is *going* to save already has
  the property (`Consistent`).
- `FileKnowsDiscord`: `RecordMatchesDiscord`, which speaks only of moments when nobody is
  between a delivery and its record. `Recorded` carries it through the others. As long as
  somebody in flight is not stale, the author of what Discord shows is in
  flight too (`AuthorInFlight`); then either the author records it, or another save
  makes the author stale and its record counts as lost. Whoever saves without a
  message, over the file it loaded, keeps recommendation and alert time on file (`InRecord`).
- `ConfidenceWaits`: the action property `ConfidenceAlertsSpaced`. The same invariant says
  that the file takes the last alert for no older than it is, so a window that is over
  for the file (`WindowOver`) is over in the channel.

### CommitteeProofs

- `CommitteeTypes`: type correctness, LLMClient's variables included.
- `CyclesAreWhole` (`CycleLocked`): a locked request can only reach the locked provider
  (`LockedOrder`, `CalledIsEligible`).
- `CircuitsRespected` (`CircuitRespected`): the dict of failures and the history of the
  providers agree (`AgesAgree`), whatever expires between the calls of a deliberation.
- `FallbackMeansExhaustion` (`FallbackOnlyAfterExhaustion`): until a request of the unlocked
  round has failed, the providers without a failure are all still before it
  (`Exhausting`); once a member that could ask has abstained and nobody has answered, at
  most the one being called is without (`GaveUp`).
- The types need that votes and shares are bounded for every ballot, and a report's
  confidence by 95 (`DeskVoteIsBallot`, `ShareBounded`, `ReportBounded`).

### SourcesProofs

`SourcesTypes`, `NothingOutlivesItsTTL`, `SuccessMeansFresh`, `OutagesAskEverySource`, `GDELTIsSpaced`, and
`FreshBarsPriceFresh` under the condition that bars of every frame are whole numbers of
hourly ones, as 1 h, 4 h and 1 day are. The promises speak of the end of a collection;
`IInv` says of every place in it which sources have been asked (`NewsInOrder`), what they
gave and how it has aged since (`Fresh`, `SuccessIsNew`), of the stamp that the file is never older than the last
request, and of the sleep that what is left of it is enough (`FileKnows`,
`SleepSuffices`). `NoWaitGoesUncounted` says that the slack in those promises is real: `took`
stops at `Longest` to keep TLC's states finite, and no collection gets there with time still to pass
(`WaitsCounted`). The price needs a fact about remainders: of two bars of aligned frames, the
one that opened later is at least as new.

### JsonJournalProofs

`FileImplementsJournal` (the refinement of Journal) and `ReadersAreCurrent`, under
`SingleWriter` (one process appends, as run-forever does beside a dashboard) and
`EnoughInodes` (more inodes than processes, so that the old contents some reader still has
open need not be reused). `Apart`: the temporary file is neither the journal nor
open for reading, so what a reader has open is never written. `ReadersSee`: it is the journal of
a moment of its call. `WriterKnows`: what the writer has read is still the journal when it renames.
None of it mentions the lock: with one writer `file_lock` plays no part, which is why the
failure of `json_journal_lock` does no harm in that deployment. What two writers may do to
each other is in Cycle.

### CycleProofs

`CycleTypes`, `PaperIsFiled` (`PaperFollowsJournal`), `HistoryIsKept` (`HistoryGrows`). That a decision
is in the journal when it is filed is not enough: an append of another process replaces the whole file
afterwards. `OnRecord` says that it is also in what any append under way has read,
unless appends overlapped, and `Alone` that two at once are both marked. What a process loaded
is the file's contents unless it is marked stale (`LoadedIsCurrent`).

### DecisionProofs

The stages of a decision are functions of what was collected, so `IInv` only says that each
result is what its inputs make it; the work is in lemmas on what each engine
guarantees of its report, over all inputs that `FeatureAssumption` types.

- `GraveRisksBlock`: the decision carries ten risks on. The six engines report at most
  nine (`RisksOK`) and come before the blockers, so no grave one is pushed out.
- `ModesActOnData`, `ShocksAreDeep`, `BacktestsWait`.
- `NoShortAction`: when two engines are bearish and no two bullish, four scores sum to
  at most 236 (`SellingIsPoor`), an opportunity of 59, and every mode asks for 60 or more.
- `OutageIsNotSure` for FallbackAdjustment < 0 and ConfidenceCap at most 35, and
  `OutageKeepsPhysicalWaiting` for FallbackAdjustment at most -8; the defaults of
  `config/ai_research.json` are -8 and 35. The engines' odds are at most 92 percent, and
  92 - 8 < 85: with an adjustment of -7 the second argument would not go through.
  A committee that is out reports the desk's vote or abstentions, at most 90 and 33 (`DeskVoteBounded`,
  `AbstentionsBounded`) before the cap.

### NewsProofs

For every set of articles, every batch and every `MaxCluster` from 2:

- The lemma `Reachable` says where the stages stand: the articles are some of those published, the
  events are those detected in them, afterwards verified (`EventsMade`), every narrative is stronger than the
  threshold (`Strong`), and the features are those of the articles (`FeaturesMade`).
- `DetectsStories` (`EventsAreStories`). At every pair of the union-find the groups are a
  partition in which no group holds articles of two stories (`Sound`, `JoinSound`). Where
  every story is shorter than `MaxCluster` no group is ever full (`ShortNeverFull`), so a
  similar pair is together from its turn on, and at the end every group is a whole
  story (`GroupsAreStories`).
- `ConfirmationNeedsTwo` (`ConfirmedByTwo`): an event's names are the sources of its members,
  so two names are two articles (`EventOfWellMade`, `ConfirmedNames`), and doubling the feed adds
  no name.
- `NarrativesAlwaysActive` (`EveryNarrativeActive`): the base and at least one event and
  one source make a strength of 333 thousandths, before articles and confidence count
  (`StrengthAboveThreshold`).
- `OlderCopiesChangeNothing` (`OlderCopiesIgnored`): an older copy is never the first of its page,
  and the copies before the feed only shift its numbers, which sorting does not notice
  (`UniqueOfSwollen`, `ArrangedShifted`).

A recursive function is known here by `Recursion`, which gets its existence from a least
number without a partial solution, and properties of its values come from `CountingUp`;
both rest on the well-foundedness of the naturals and not on an induction theorem. `Ranks`
says that the ranks of a finite set of numbers are 1 to its size, so that `Arranged` is a
permutation.

### What stays with TLC

- Every liveness property (`WaitEnds`, `OrphanReclaimed`, `LockIsGranted`,
  `ChangeReachesDiscord`, `CloseMadeUp`, `MonitoringContinues`, `StopHonoured`,
  `DeliberationEnds`, `AIRecovers`, `CollectionEnds`): fairness and ENABLED.
- TechnicalFeatures: what the builder makes of candles. DecisionProofs takes features as
  `FeatureAssumption` types them; TLC evaluates that assumption on the features it builds.
- The properties of the four violated runs.

Some definitions are written so that they can be reasoned about: LLMClient's `Among`
filters a sequence by rank, `ZoneAmount` is an addend of its own, Sources chooses with IF
where the cases exclude each other, News sorts by rank and repeats by recursive functions.

## 7. Where documents and code disagree

1. `llm_client.py:43-45` computes the longest hold as about 105 s. `post` retries by
   itself twice while the lock is held: about 285 s against a window of
   120 s (`groq_reclaim`).
2. `json_decision_journal_repository.py:67-69` relies on `file_lock` being exclusive.
   Unlinking the name after release lets two processes in (`json_journal_lock`). With
   one writer, as `run-forever` and a dashboard are, the journal is still
   correct: that is what `json_journal` shows.
3. `continuous_runner.py:7`: "without letting one failure stop monitoring".
   `SqliteDecisionJournalRepository.append` does not roll back. After one INSERT that
   failed the connection stays in Python's implicit transaction; the next
   `latest()` reads inside it, and if another process commits before the INSERT that follows, that and every
   later INSERT fails with "database is locked". The runner goes on and files, alerts
   and trades nothing until it is restarted (`cycle_resumes`).
4. `test_news_repository_degrades_cleanly_when_gdelt_and_newsapi_fail` and two comments
   (`rss_news_provider.py:125-126`, `gold_price_service.py:78-79`) want a failing source to be a status.
   `ProviderBase._get_json` puts the whole body of a refused reply into an error that may
   have 1000 characters: a longer page ends the cycle (`provider_abort`).

Met without a run:

- `README.md:94` promises that a whole voting cycle is locked to one provider; the last round
  of `deliberate` is not (`committee.py:320`), and circuits may expire during it.
- `llm_client.py:25-27` promises that a server hiccup tries the next model; hiccups arrive as
  599, which is in no list.
- `llm_client.py:59-63` promises bounded waiting and `None` when "no stale lock could be safely
  reclaimed". A stale file that cannot be removed (another user's in a sticky /tmp, or held open on
  Windows) is logged as reclaimed and tried again at once, without a sleep and for ever:
  the alternative that `WaitEnds` has to allow and that TLC takes if it is left out.
- `provider_repositories.py:151-153`: the cache that "caps" NewsAPI at 48 calls a day keeps
  successes only; while NewsAPI fails it is asked in every cycle.
- `docs/CURRENT_STATE_AUDIT.md:104` says the fallback means WAIT; with every provider out
  and a one-sided desk the report follows the desk. With the desk disabled, `main` builds no desk, so
  there is no adjustment at all and the physical mode may act.
- `README.md:132` says conflicting AI output degrades to WAIT; it lowers the adjustment and the
  confidence, and a mode may still act.
- `main.py:217-219` multiplies a hit rate by 100 that is already in percent; it is always 0.
- "reuters" and "Reuters" count as two sources; an outlet with "fed" in its name is tier 1.
- A connector with one failing feed of several counts as failed, and three failed cycles
  silence it for the process's life; a connector without its key fails every time.
- `serve` reads the configured journal; `run-once --db-path X` writes to another.

## 8. Not modelled

- The Windows branch of `file_lock` (byte locks of msvcrt).
- Prompt building, the LLM client's truncation of a prompt over its safe budget (it
  never fails a committee call: system prompts are far below the limit), knowledge retrieval and JSON
  schema checks beyond "the reply is valid or not"; wording of reports, evidence
  texts, unified outlook.
- `flush_pending_updates` and `send_structured_notification`: nothing under `app/` calls
  them, so a pending alert is only ever cleared by the next message sent.
- A journal with an unreadable record (the JSON one reads as empty and the next append
  replaces it; the SQLite one skips the row), and a COMMIT that fails.
- The arithmetic of RSI, ATR and moving averages, XML and JSON parsing, HTML: no state or ordering.
- What order the frames' biases come in: a set's, another in every process. A neutral frame
  among agreeing ones earns the six points for agreement or not by it, so one
  market may be scored twice differently. The `decision` run has such a market in both orders
  and the theorems hold for all; no document promises one score.
- The outcome of a backtest window, since no window decides; the benchmark.
- The polling scheduler, the event bus and the orchestrator's collection without a
  collector: `main` uses none of them.

## 9. Plan

| module | next |
|---|---|
| Decision | the rank of the reports (`TraceConfidence`) as lemmas, so that a bound on the confidence of every mode follows |
| Consensus | that swapping BUY and SELL in a ballot swaps them in the report |
| JsonJournal | mutual exclusion under a lock file that is never removed, to state what a repair would give |
| News | what the grouping guarantees of stories that do reach `MaxCluster` |
