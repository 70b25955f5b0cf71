------------------------------- MODULE GroqLock -------------------------------
(***************************************************************************)
(* The lock file that serialises Groq calls across processes               *)
(* (_acquire_groq_lock and _call_groq in app/ai/agents/llm_client.py).     *)
(*                                                                         *)
(* The lock is a file created with O_EXCL and removed in a finally block.  *)
(* A waiter polls; once it has waited MaxWait it looks at the file's age   *)
(* and, from StaleAfter on, removes the file and tries again at once.      *)
(* getmtime and remove are two steps, and remove takes whatever file has   *)
(* the name by then.                                                       *)
(*                                                                         *)
(* Time is counted in ticks.  While the lock is held, one post takes at    *)
(* most PostTime ticks (UrlLibHttpClient tries HttpRetries + 1 times, each *)
(* up to Timeout) and one 429 back-off at most Backoff; the code gives up  *)
(* after three 429 answers.  Clocks that are only compared with a bound    *)
(* stop at it.                                                             *)
(***************************************************************************)
EXTENDS Naturals

CONSTANTS
  Proc,          \* processes that call Groq: run-forever, run-once, ...
  NoProc,        \* no process
  Regular,       \* those that call again and again (run-forever)
  Timeout,       \* timeout of one HTTP try, in ticks (30 s)
  HttpRetries,   \* UrlLibHttpClient's retry_attempts
  Backoff,       \* longest sleep after a 429 answer (5 s)
  MaxWait,       \* _GROQ_LOCK_MAX_WAIT_SECONDS (45 s)
  StaleAfter,    \* _GROQ_LOCK_STALE_AFTER_SECONDS (120 s)
  MaxKills,      \* bound: how many processes are killed in a behaviour
  RemoveMayFail  \* whether os.remove of another user's file may fail

ASSUME LockAssumption ==
  /\ NoProc \notin Proc
  /\ Regular \subseteq Proc
  /\ Timeout \in Nat \ {0}
  /\ HttpRetries \in Nat
  /\ Backoff \in Nat \ {0}
  /\ MaxWait \in Nat
  /\ StaleAfter \in Nat \ {0}
  /\ MaxKills \in Nat
  /\ RemoveMayFail \in BOOLEAN

VARIABLES
  pc,       \* where each process is
  waited,   \* how long it has waited for the lock, up to MaxWait
  clock,    \* how long its present post or back-off has taken
  retries,  \* 429 answers to its present call
  file,     \* the lock file
  kills,    \* processes killed so far
  aged,     \* whether a lock file has ever been StaleAfter old (history)
  breached  \* whether a waiter has removed the file of a process inside its
            \* call (history)

history == <<aged, breached>>
vars == <<pc, waited, clock, retries, file, kills, history>>

Place == {"idle", "trying", "sleeping", "checking", "removing",
          "posting", "backoff", "cleanup"}

\* The file: whether it exists, its age up to StaleAfter, and who created it
\* (not in the file: a history component for the properties).
File == [present : BOOLEAN, age : 0 .. StaleAfter, owner : Proc \cup {NoProc}]

NoFile == [present |-> FALSE, age |-> 0, owner |-> NoProc]

PostTime == (HttpRetries + 1) * Timeout

\* Inside the try block whose finally removes the lock.
Holding(p) == pc[p] \in {"posting", "backoff", "cleanup"}

Init ==
  /\ pc = [p \in Proc |-> "idle"]
  /\ waited = [p \in Proc |-> 0]
  /\ clock = [p \in Proc |-> 0]
  /\ retries = [p \in Proc |-> 0]
  /\ file = NoFile
  /\ kills = 0
  /\ aged = FALSE /\ breached = FALSE

-----------------------------------------------------------------------------
\* _acquire_groq_lock is entered.
Start(p) ==
  /\ pc[p] = "idle"
  /\ pc' = [pc EXCEPT ![p] = "trying"]
  /\ waited' = [waited EXCEPT ![p] = 0]
  /\ UNCHANGED <<clock, retries, file, kills, history>>

\* How a bug would create the file: without O_EXCL.
TryCreateShared(p) ==
  /\ pc[p] = "trying"
  /\ file' = [present |-> TRUE, age |-> 0, owner |-> p]
  /\ pc' = [pc EXCEPT ![p] = "posting"]
  /\ clock' = [clock EXCEPT ![p] = 0]
  /\ retries' = [retries EXCEPT ![p] = 0]
  /\ UNCHANGED <<waited, kills, history>>

\* os.open with O_EXCL: creates the file, or it exists and the process
\* polls again, or has waited long enough to look at its age.
TryCreate(p) ==
  /\ pc[p] = "trying"
  /\ IF ~file.present
       THEN /\ file' = [present |-> TRUE, age |-> 0, owner |-> p]
            /\ pc' = [pc EXCEPT ![p] = "posting"]
            /\ clock' = [clock EXCEPT ![p] = 0]
            /\ retries' = [retries EXCEPT ![p] = 0]
       ELSE /\ pc' = [pc EXCEPT ![p] = IF waited[p] >= MaxWait THEN "checking"
                                                               ELSE "sleeping"]
            /\ UNCHANGED <<file, clock, retries>>
  /\ UNCHANGED <<waited, kills, history>>

\* time.sleep(poll_seconds) ends.
Wake(p) ==
  /\ pc[p] = "sleeping"
  /\ pc' = [pc EXCEPT ![p] = "trying"]
  /\ UNCHANGED <<waited, clock, retries, file, kills, history>>

\* How a bug would wait: an old lock is waited for, never reclaimed.
CheckAgeNeverStale(p) ==
  /\ pc[p] = "checking"
  /\ pc' = [pc EXCEPT ![p] = "idle"]
  /\ UNCHANGED <<waited, clock, retries, file, kills, history>>

\* How a bug would wait: any lock still there after MaxWait is taken for stale.
CheckAgeNotRead(p) ==
  /\ pc[p] = "checking"
  /\ pc' = [pc EXCEPT ![p] = IF file.present THEN "removing" ELSE "idle"]
  /\ UNCHANGED <<waited, clock, retries, file, kills, history>>

\* How a bug would wait: it polls on when the file is young.
CheckAgePolling(p) ==
  /\ pc[p] = "checking"
  /\ pc' = [pc EXCEPT ![p] = IF file.present /\ file.age >= StaleAfter
                               THEN "removing" ELSE "sleeping"]
  /\ UNCHANGED <<waited, clock, retries, file, kills, history>>

\* os.path.getmtime: a stale file is to be removed; a young one, or one gone
\* by now (age None), ends the wait with lock_timeout.
CheckAge(p) ==
  /\ pc[p] = "checking"
  /\ pc' = [pc EXCEPT ![p] = IF file.present /\ file.age >= StaleAfter
                               THEN "removing" ELSE "idle"]
  /\ UNCHANGED <<waited, clock, retries, file, kills, history>>

\* os.remove of the stale file, whoever's the file of that name is by now, or of
\* none; then `continue`.
RemovesStale(p) ==
  /\ pc[p] = "removing"
  /\ pc' = [pc EXCEPT ![p] = "trying"]
  /\ file' = NoFile
  /\ breached' = (breached \/ (file.present /\ Holding(file.owner)))
  /\ UNCHANGED <<waited, clock, retries, kills, aged>>

\* os.remove raises an OSError, which is ignored; then `continue` all the same.
RemoveFails(p) ==
  /\ pc[p] = "removing"
  /\ RemoveMayFail /\ file.present /\ file.owner # p
  /\ pc' = [pc EXCEPT ![p] = "trying"]
  /\ UNCHANGED <<waited, clock, retries, file, kills, history>>

RemoveStale(p) == RemovesStale(p) \/ RemoveFails(p)

\* The post returns or raises: the finally block is next, or after a 429
\* answer the back-off.
PostReturns(p) ==
  /\ pc[p] = "posting"
  /\ \/ /\ pc' = [pc EXCEPT ![p] = "cleanup"]
        /\ UNCHANGED retries
     \/ /\ pc' = [pc EXCEPT ![p] = "backoff"]
        /\ retries' = [retries EXCEPT ![p] = @ + 1]
  /\ clock' = [clock EXCEPT ![p] = 0]
  /\ UNCHANGED <<waited, file, kills, history>>

\* The back-off is over: `while retries < 3`.
BackoffEnds(p) ==
  /\ pc[p] = "backoff"
  /\ pc' = [pc EXCEPT ![p] = IF retries[p] < 3 THEN "posting" ELSE "cleanup"]
  /\ clock' = [clock EXCEPT ![p] = 0]
  /\ UNCHANGED <<waited, retries, file, kills, history>>

\* How a bug would leave: an error path that returns before the try block.
CleanupForgotten(p) ==
  /\ pc[p] = "cleanup"
  /\ pc' = [pc EXCEPT ![p] = "idle"]
  /\ UNCHANGED <<waited, clock, retries, file, kills, history>>

\* finally: os.remove(_GROQ_LOCK_FILE), an OSError ignored.
Cleanup(p) ==
  /\ pc[p] = "cleanup"
  /\ pc' = [pc EXCEPT ![p] = "idle"]
  /\ file' = NoFile
  /\ UNCHANGED <<waited, clock, retries, kills, history>>

\* The process is killed, and may be started again; its lock file stays.
Kill(p) ==
  /\ kills < MaxKills
  /\ pc[p] # "idle"
  /\ kills' = kills + 1
  /\ pc' = [pc EXCEPT ![p] = "idle"]
  /\ UNCHANGED <<waited, clock, retries, file, history>>

\* Time passes, unless a post or a back-off has taken all it can take.  The
\* remove of the finally block follows at once.
Tick ==
  /\ \A p \in Proc :
       /\ pc[p] = "posting" => clock[p] < PostTime
       /\ pc[p] = "backoff" => clock[p] < Backoff
       /\ pc[p] # "cleanup"
  /\ clock' = [p \in Proc |-> IF pc[p] \in {"posting", "backoff"}
                                THEN clock[p] + 1 ELSE clock[p]]
  /\ waited' = [p \in Proc |->
                  IF pc[p] \in {"trying", "sleeping", "checking", "removing"}
                     /\ waited[p] < MaxWait THEN waited[p] + 1 ELSE waited[p]]
  /\ file' = [file EXCEPT !.age = IF file.present /\ @ < StaleAfter THEN @ + 1 ELSE @]
  /\ aged' = (aged \/ (file.present /\ file'.age = StaleAfter))
  /\ UNCHANGED <<pc, retries, kills, breached>>

Waiting(p) == TryCreate(p) \/ Wake(p) \/ CheckAge(p) \/ RemoveStale(p)
Held(p)    == PostReturns(p) \/ BackoffEnds(p) \/ Cleanup(p)

Next ==
  \/ \E p \in Proc : Start(p) \/ Waiting(p) \/ Held(p) \/ Kill(p)
  \/ Tick

Spec == Init /\ [][Next]_vars

\* A process that has begun a call goes on with it, and run-forever calls
\* Groq again and again; run-once need not.  Time goes on however busy the processes are
\* (strong: Tick waits for a remove that is due).  No process has to be killed.
Fairness ==
  /\ \A p \in Regular : WF_vars(Start(p))
  /\ \A p \in Proc : WF_vars(Waiting(p)) /\ WF_vars(Held(p))
  /\ SF_vars(Tick)

FairSpec == Spec /\ Fairness

-----------------------------------------------------------------------------
TypeOK ==
  /\ pc \in [Proc -> Place]
  /\ waited \in [Proc -> 0 .. MaxWait]
  /\ clock \in [Proc -> Nat]
  /\ retries \in [Proc -> 0 .. 3]
  /\ file \in File
  /\ kills \in 0 .. MaxKills
  /\ aged \in BOOLEAN /\ breached \in BOOLEAN

\* One process at most is inside the locked call, through kills, orphaned files
\* and their reclaim, until a waiter removes the file of a process that is
\* inside: polling, giving up and the finally block never let a second one in.
MutualExclusion ==
  ~breached => \A p, q \in Proc : Holding(p) /\ Holding(q) => p = q

\* The file and the lock are one for as long: whoever is inside has its own file,
\* which no finally block of another removes, and a file whose creator is not
\* inside was left by a kill.
FileIsTheLock ==
  ~breached =>
    /\ \A p \in Proc : Holding(p) => file.present /\ file.owner = p
    /\ file.present => Holding(file.owner) \/ kills > 0

\* "Stale detection is conservative": the file of a process inside its call is
\* not removed before some lock file has been StaleAfter old, this one or one
\* that the waiter looked at and another waiter has reclaimed since.
BreachIsLate == breached => aged

\* "a lock that could plausibly belong to an active call is never reclaimed":
\* no waiter removes the file of a process that is inside its call.
ActiveLockNeverReclaimed ==
  [][\A p \in Proc : RemoveStale(p) /\ file'.present # file.present
       => ~(file.owner \in Proc /\ Holding(file.owner))]_vars

\* "Acquire the Groq serialization lock with bounded waiting": whoever waits gets
\* the lock or gives up, whoever else is waiting, holding or killed.  The one way
\* to wait for ever is to find a stale lock again and again: one whose remove
\* fails, which the code retries without bound, or one more after every remove.
Acquires(p) == pc[p] = "trying" ~> (Holding(p) \/ pc[p] = "idle")
WaitEnds == \A p \in Proc : Acquires(p) \/ []<><<RemoveStale(p)>>_vars

\* A lock left behind by a killed process does not stop Groq for good: the
\* file goes away as others keep calling, unless they keep failing to remove it.
Orphaned == file.present /\ \A p \in Proc : ~Holding(p)

OrphanReclaimed ==
  (Orphaned ~> ~Orphaned) \/ []<><<\E p \in Proc : RemoveFails(p)>>_vars
==============================================================================
