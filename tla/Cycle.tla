--------------------------------- MODULE Cycle ---------------------------------
(***************************************************************************)
(* The end of a cycle and what repeats it: journal, alert and paper trade  *)
(* in run_once (app/application/orchestrator.py), the paper-trading state  *)
(* (app/paper_trading/), the runner (app/scheduler/continuous_runner.py)   *)
(* and the commands of app/main.py that use them.                          *)
(*                                                                         *)
(* `Runner` is the run-forever process, the others are run-once commands.  *)
(* The alert (module Notification) only matters here because it may raise. *)
(* The paper file is locked for the load and for the save and not in       *)
(* between.                                                                *)
(*                                                                         *)
(* The journal is the one _build_journal picks.  Of its contents the model *)
(* keeps the decisions of the cycles in progress: whose would be found.    *)
(*                                                                         *)
(* Of a JSON file an append reads all and writes all.  Its lock does not   *)
(* keep others out (module JsonJournal), so two appends may overlap; then  *)
(* one decision may be lost, the shared temporary file may be garbled,     *)
(* which empties the journal, or be gone, which raises.                    *)
(*                                                                         *)
(* An SQLite database has one connection per process                       *)
(* (sqlite_decision_journal_repository.py).  Python opens a                *)
(* transaction before an INSERT, and nothing ends it when the INSERT fails: *)
(* the next SELECT then fixes what the connection sees, and once another   *)
(* process has committed, that connection can never write again.  An INSERT *)
(* gives up when another process holds the write lock for five seconds,    *)
(* because it is suspended or its disk is slow.  A commit does not fail.   *)
(*                                                                         *)
(* Once `settled` the outside is calm: every new decision is `target`, has *)
(* a quote, and nothing else raises, dies or is stopped, and no one holds  *)
(* the write lock for long.                                                *)
(***************************************************************************)
EXTENDS Integers, Sequences

OPEN_RECOMMENDATIONS  == {"BUY", "STRONG_BUY"}
CLOSE_RECOMMENDATIONS == {"TAKE_PROFIT", "STRONG_SELL"}
Recommendation == OPEN_RECOMMENDATIONS \cup CLOSE_RECOMMENDATIONS \cup {"WAIT"}

CONSTANTS
  Proc, Runner,
  Calls,      \* the recommendations the cycles come to
  MaxClosed   \* bound: the model keeps this many closed positions, newest first

ASSUME CycleAssumption ==
  /\ Runner \in Proc
  /\ Calls \subseteq Recommendation
  /\ MaxClosed \in Nat \ {0}

VARIABLES
  pc,      \* "idle", "run", "looked", "inserted" or "read" while it appends,
           \* "filed", "save"; of the runner also "sleep", "stopped"
  made,    \* the recommendation of a process's cycle
  seen,    \* what it read of the JSON journal
  clash,   \* of the time since it began to append: "none", or appends "overlapped",
           \* or another process "passed" its own (history)
  loaded,  \* the paper state it read
  stale,   \* whether the paper file moved on since (history)
  sqlite,  \* the journal is an SQLite database
  conn,    \* the connection: "plain" outside a transaction, "open" in one that has
           \* not read, "current" and "stale" in one that sees the present or a
           \* former journal, "writing" with the write lock
  log,     \* the processes whose present decision a reader of the journal finds
  paper,   \* the paper-trading file
  stop,    \* request_stop was called
  settled, target

journal == <<log, seen, clash>>
vars == <<pc, made, journal, loaded, stale, sqlite, conn, paper, stop, settled, target>>

\* Positions of the same kind are told apart only by their place in the file.
NoPosition == "none"
Position   == [by : OPEN_RECOMMENDATIONS, closedBy : CLOSE_RECOMMENDATIONS]
PaperState == [open : OPEN_RECOMMENDATIONS \cup {NoPosition},
               closed : UNION {[1 .. n -> Position] : n \in 0 .. MaxClosed}]
NewState   == [open |-> NoPosition, closed |-> <<>>]

Init ==
  /\ pc = [p \in Proc |-> "idle"]
  /\ made = [p \in Proc |-> "WAIT"]
  /\ log = {}
  /\ seen = [p \in Proc |-> {}]
  /\ clash = [p \in Proc |-> "none"]
  /\ loaded = [p \in Proc |-> NewState]
  /\ stale = [p \in Proc |-> FALSE]
  /\ sqlite \in BOOLEAN
  /\ conn = [p \in Proc |-> "plain"]
  /\ paper = NewState
  /\ stop = FALSE
  /\ settled = FALSE
  /\ target = "WAIT"

\* How a bug would miss a stop request: by a copy of the flag taken at the start.
AskedAtFirst == FALSE

\* The flag, as the loop looks at it.
Asked == stop

(***************************************************************************)
(* ContinuousRunner.run: after a cycle, failed or not, it stops if asked   *)
(* to, else sleeps.  A run-once command ends; it may be given again.       *)
(***************************************************************************)
Rest(p) == IF p # Runner THEN "idle" ELSE IF Asked THEN "stopped" ELSE "sleep"

\* What a cycle leaves behind when it is over, and a reader then finds `found`: its
\* decision is one of the past.
Over(p, at, found) ==
  /\ pc' = [pc EXCEPT ![p] = at]
  /\ made' = [made EXCEPT ![p] = "WAIT"]
  /\ loaded' = [loaded EXCEPT ![p] = NewState]
  /\ log' = found \ {p}
  /\ seen' = [q \in Proc |-> IF q = p THEN {} ELSE seen[q] \ {p}]
  /\ clash' = [clash EXCEPT ![p] = "none"]

\* A process that ends gives up its transaction; the runner keeps it.
Closed(p, at) == IF at = "idle" THEN "plain" ELSE conn[p]

\* A cycle begins; what it will decide.
Start(p) ==
  /\ pc[p] = "idle"
  /\ p = Runner => ~Asked
  /\ \E d \in Calls : /\ settled => d = target
                      /\ made' = [made EXCEPT ![p] = d]
  /\ pc' = [pc EXCEPT ![p] = "run"]
  /\ UNCHANGED <<journal, loaded, stale, sqlite, conn, paper, stop, settled, target>>

\* The data is collected and the decision made; latest() reads the journal.
Look(p) ==
  /\ pc[p] = "run"
  /\ conn' = [conn EXCEPT ![p] = IF @ = "open" THEN "current" ELSE @]
  /\ pc' = [pc EXCEPT ![p] = "looked"]
  /\ UNCHANGED <<made, journal, loaded, stale, sqlite, paper, stop, settled, target>>

\* Another process has the database's write lock.
Locked(p) == \E q \in Proc \ {p} : conn[q] = "writing"

Insert(p) ==
  /\ pc[p] = "looked" /\ sqlite
  /\ ~Locked(p) /\ conn[p] # "stale"
  /\ conn' = [conn EXCEPT ![p] = "writing"]
  /\ pc' = [pc EXCEPT ![p] = "inserted"]
  /\ UNCHANGED <<made, journal, loaded, stale, sqlite, paper, stop, settled, target>>

\* "database is locked", at once when what the connection sees is outdated.
InsertFails(p) ==
  /\ pc[p] = "looked" /\ sqlite
  /\ conn[p] = "stale" \/ (Locked(p) /\ ~settled)
  /\ Over(p, Rest(p), log)
  /\ conn' = [conn EXCEPT ![p] = IF p # Runner THEN "plain" ELSE IF @ = "plain" THEN "open" ELSE @]
  /\ UNCHANGED <<stale, sqlite, paper, stop, settled, target>>

\* The decision is in the database.
Commit(p) ==
  /\ pc[p] = "inserted"
  /\ log' = log \cup {p}
  /\ conn' = [q \in Proc |-> CASE q = p -> "plain"
                              [] q # p /\ conn[q] = "current" -> "stale"
                              [] OTHER -> conn[q]]
  /\ pc' = [pc EXCEPT ![p] = "filed"]
  /\ UNCHANGED <<made, seen, clash, loaded, stale, sqlite, paper, stop, settled, target>>

\* The others between the read and the write of an append to the JSON file.
Appending(p) == {q \in Proc \ {p} : pc[q] = "read"}

\* append reads the journal, whether or not another append is under way.
Read(p) ==
  /\ pc[p] = "looked" /\ ~sqlite
  /\ seen' = [seen EXCEPT ![p] = log]
  /\ clash' = [q \in Proc |->
                 IF q = p THEN IF Appending(p) = {} THEN "none" ELSE "overlapped"
                 ELSE IF Appending(p) # {} /\ clash[q] = "none" /\ pc[q] \in {"read", "filed", "save"}
                      THEN "overlapped" ELSE clash[q]]
  /\ pc' = [pc EXCEPT ![p] = "read"]
  /\ UNCHANGED <<made, log, loaded, stale, sqlite, conn, paper, stop, settled, target>>

\* How a bug would append: to nothing, what the file holds is not read.
VersionAlone(p) == {p}

\* What p, and what another writer of the temporary file, would make of the journal.
Version(p) == seen[p] \cup {p}
Clobbered(p) == {{}} \cup {Version(q) : q \in Appending(p)}

\* It writes the temporary file and renames it: with its own text in it, or what
\* came of an overlap.
Write(p) ==
  /\ pc[p] = "read"
  /\ \/ log' = Version(p)
     \/ clash[p] # "none" /\ log' \in Clobbered(p)
  /\ clash' = [q \in Proc |-> IF q \in Appending(p) THEN "passed" ELSE clash[q]]
  /\ seen' = [seen EXCEPT ![p] = {}]
  /\ pc' = [pc EXCEPT ![p] = "filed"]
  /\ UNCHANGED <<made, loaded, stale, sqlite, conn, paper, stop, settled, target>>

\* The write raises, or the rename does because another process has renamed the
\* temporary file away; that may have left p's text in the journal, or half of it.
WriteFails(p) ==
  /\ pc[p] = "read"
  /\ \/ ~settled /\ Over(p, Rest(p), log)
     \/ clash[p] = "passed" /\ \E found \in {log, Version(p), {}} : Over(p, Rest(p), found)
  /\ UNCHANGED <<stale, sqlite, conn, paper, stop, settled, target>>

\* The alert went through or there is none: PaperTradingEngine.update loads.
Load(p) ==
  /\ pc[p] = "filed"
  /\ loaded' = [loaded EXCEPT ![p] = paper]
  /\ stale' = [stale EXCEPT ![p] = FALSE]
  /\ pc' = [pc EXCEPT ![p] = "save"]
  /\ UNCHANGED <<made, journal, sqlite, conn, paper, stop, settled, target>>

\* Without a quote there is no paper trading in this cycle.
NoQuote(p) ==
  /\ pc[p] = "filed"
  /\ ~settled
  /\ Over(p, Rest(p), log)
  /\ conn' = [conn EXCEPT ![p] = Closed(p, Rest(p))]
  /\ UNCHANGED <<stale, sqlite, paper, stop, settled, target>>

Kept(closed) == SubSeq(closed, 1, IF Len(closed) > MaxClosed THEN MaxClosed ELSE Len(closed))

Closing(s, call) == [by |-> s.open, closedBy |-> call]

\* Two bugs: closed positions are overwritten; a sale takes no profit.
UpdatedOverwriting(s, call) ==
  CASE s.open = NoPosition /\ call \in OPEN_RECOMMENDATIONS -> [s EXCEPT !.open = call]
    [] s.open # NoPosition /\ call \in CLOSE_RECOMMENDATIONS ->
         [open |-> NoPosition, closed |-> <<Closing(s, call)>>]
    [] OTHER -> s
UpdatedOnStrongSell(s, call) ==
  CASE s.open = NoPosition /\ call \in OPEN_RECOMMENDATIONS -> [s EXCEPT !.open = call]
    [] s.open # NoPosition /\ call = "STRONG_SELL" ->
         [open |-> NoPosition, closed |-> Kept(<<Closing(s, call)>> \o s.closed)]
    [] OTHER -> s

\* PaperTradingEngine.update.
Updated(s, call) ==
  CASE s.open = NoPosition /\ call \in OPEN_RECOMMENDATIONS -> [s EXCEPT !.open = call]
    [] s.open # NoPosition /\ call \in CLOSE_RECOMMENDATIONS ->
         [open |-> NoPosition, closed |-> Kept(<<Closing(s, call)>> \o s.closed)]
    [] OTHER -> s

\* JsonPaperTradingRepository.save: what other processes loaded is now old.
Save(p) ==
  /\ pc[p] = "save"
  /\ paper' = Updated(loaded[p], made[p])
  /\ stale' = [q \in Proc |-> IF q = p THEN FALSE ELSE stale[q] \/ pc[q] = "save"]
  /\ Over(p, Rest(p), log)
  /\ conn' = [conn EXCEPT ![p] = Closed(p, Rest(p))]
  /\ UNCHANGED <<sqlite, stop, settled, target>>

\* How a bug would end monitoring: an exception leaves the loop.
FailsForGood(p) ==
  /\ pc[p] \in {"run", "filed", "save"}
  /\ ~settled
  /\ Over(p, IF p = Runner THEN "stopped" ELSE "idle", log)
  /\ conn' = [conn EXCEPT ![p] = Closed(p, Rest(p))]
  /\ UNCHANGED <<stale, sqlite, paper, stop, settled, target>>

\* The collection or an engine, the alert, or the save raises.
Fails(p) ==
  /\ pc[p] \in {"run", "filed", "save"}
  /\ ~settled
  /\ Over(p, Rest(p), log)
  /\ conn' = [conn EXCEPT ![p] = Closed(p, Rest(p))]
  /\ UNCHANGED <<stale, sqlite, paper, stop, settled, target>>

\* The interval is over; the loop looks at the flag again.
Wake ==
  /\ pc[Runner] = "sleep"
  /\ pc' = [pc EXCEPT ![Runner] = IF Asked THEN "stopped" ELSE "idle"]
  /\ UNCHANGED <<made, journal, loaded, stale, sqlite, conn, paper, stop, settled, target>>

\* SIGINT or SIGTERM to run-forever.  A sleep goes on after the handler.
RequestStop ==
  /\ pc[Runner] # "stopped" /\ ~stop /\ ~settled
  /\ stop' = TRUE
  /\ UNCHANGED <<pc, made, journal, loaded, stale, sqlite, conn, paper, settled, target>>

\* The runner was asked to stop between two looks at the flag.
Leave ==
  /\ pc[Runner] = "idle" /\ Asked
  /\ pc' = [pc EXCEPT ![Runner] = "stopped"]
  /\ UNCHANGED <<made, journal, loaded, stale, sqlite, conn, paper, stop, settled, target>>

\* A process dies; run-forever is started again, then or after a stop.
Kill(p) ==
  /\ ~settled
  /\ pc[p] # "idle"
  /\ Over(p, "idle", log)
  /\ conn' = [conn EXCEPT ![p] = "plain"]
  /\ stop' = (stop /\ p # Runner)
  /\ UNCHANGED <<stale, sqlite, paper, settled, target>>

Settle ==
  /\ ~settled /\ ~stop
  /\ settled' = TRUE
  /\ target' \in Calls
  /\ UNCHANGED <<pc, made, journal, loaded, stale, sqlite, conn, paper, stop>>

Files(p) == Insert(p) \/ InsertFails(p) \/ Commit(p) \/ Read(p) \/ Write(p) \/ WriteFails(p)
Step(p) == Look(p) \/ Files(p) \/ Load(p) \/ NoQuote(p) \/ Save(p) \/ Fails(p)

Next ==
  \/ \E p \in Proc : Start(p) \/ Step(p) \/ Kill(p)
  \/ Wake \/ RequestStop \/ Leave \/ Settle

Spec == Init /\ [][Next]_vars

\* A cycle that has begun goes on, the runner's next one begins, a sleep ends.
\* Others hold the write lock for moments between long cycles, so the runner gets
\* it in the end when it is free again and again.
FairSpec ==
  /\ Spec
  /\ \A p \in Proc : WF_vars(Step(p))
  /\ SF_vars(Insert(Runner)) /\ WF_vars(Start(Runner)) /\ WF_vars(Wake) /\ WF_vars(Leave)

-----------------------------------------------------------------------------
TypeOK ==
  /\ pc \in [Proc -> {"idle", "run", "looked", "inserted", "read", "filed", "save", "sleep", "stopped"}]
  /\ conn \in [Proc -> {"plain", "open", "current", "stale", "writing"}]
  /\ \A p \in Proc : pc[p] \in {"sleep", "stopped"} => p = Runner
  /\ made \in [Proc -> Recommendation]
  /\ log \subseteq Proc /\ seen \in [Proc -> SUBSET Proc]
  /\ clash \in [Proc -> {"none", "overlapped", "passed"}]
  /\ stale \in [Proc -> BOOLEAN]
  /\ loaded \in [Proc -> PaperState]
  /\ paper \in PaperState
  /\ sqlite \in BOOLEAN /\ stop \in BOOLEAN /\ settled \in BOOLEAN
  /\ target \in Recommendation

\* Every virtual trade can be looked up: when the paper account moves, the
\* journal still holds the decision, whatever other processes append or fail to
\* in the meantime, unless two appends to the JSON file overlapped.
PaperFollowsJournal ==
  [][paper' # paper => \E p \in Proc : pc[p] = "save" /\ (p \in log \/ clash[p] # "none")]_vars

\* The history of closed positions only grows, by one at a time, unless a
\* process writes over what another saved since it loaded: only then may
\* trades vanish from the file or come back.
HistoryGrows ==
  [][\/ \E p \in Proc : pc[p] = "save" /\ stale[p] /\ pc'[p] # "save"
     \/ IF paper.open # NoPosition /\ paper'.open = NoPosition
        THEN \E x \in Position : paper'.closed = Kept(<<x>> \o paper.closed)
        ELSE paper'.closed = paper.closed]_vars

\* An update that an exception, a missing quote, a kill or an overwritten file
\* swallowed is made up for: once the outlook stays at closing, the position
\* is closed for good, without anyone looking after it, unless the runner's
\* connection cannot write any more.
CloseMadeUp ==
  settled /\ target \in CLOSE_RECOMMENDATIONS /\ pc[Runner] # "stopped"
    ~> [](paper.open = NoPosition) \/ conn[Runner] = "stale"

\* "without letting one failure stop monitoring" (ContinuousRunner): unless it
\* is asked to stop again and again, run-forever keeps starting cycles.
MonitoringContinues ==
  []<>(stop \/ pc[Runner] = "run")

\* A stop request is honoured, in a cycle, in a failing one or in a sleep; only
\* the death of the process forgets it.
StopHonoured == stop ~> (pc[Runner] = "stopped" \/ ~stop)

\* "Run one application cycle repeatedly without letting one failure stop
\* monitoring": when all is well again, the runner's decisions reach the SQLite
\* journal again.
JournalResumes == sqlite => []<>(~settled \/ Runner \in log)
================================================================================
