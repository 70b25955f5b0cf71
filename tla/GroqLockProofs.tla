---------------------------- MODULE GroqLockProofs ----------------------------
(***************************************************************************)
(* The Groq lock for any number of processes, all timeouts, retries and    *)
(* kills: one process at most is inside the call until a waiter removes    *)
(* the file of a process that is inside, and no waiter does so before some *)
(* lock file has been StaleAfter old.                                      *)
(*                                                                         *)
(* Nothing is assumed of the time a call takes: with the HTTP client's     *)
(* retries it may outlast StaleAfter (the run groq_reclaim).  MutualExclusion *)
(* alone is not inductive: that a second process stays out rests on the    *)
(* file of the first (Owned), and that a young lock is left alone on what  *)
(* a waiter saw before its remove (Earned).                                *)
(***************************************************************************)
EXTENDS GroqLock, TLAPS

\* Every clock is within its bound, and a third 429 answer ends the posts.
ClocksInBounds ==
  \A p \in Proc :
    /\ pc[p] = "posting" => clock[p] <= PostTime /\ retries[p] < 3
    /\ pc[p] = "backoff" => clock[p] <= Backoff /\ retries[p] > 0

\* Whoever is inside has its own file; one of another process was left by a kill.
Owned ==
  /\ file.present => file.owner \in Proc
  /\ ~breached =>
       /\ \A p \in Proc : Holding(p) => file.present /\ file.owner = p
       /\ file.present => Holding(file.owner) \/ kills > 0

\* Whoever is about to remove a file saw one that was StaleAfter old.
Earned ==
  /\ file.present /\ file.age = StaleAfter => aged
  /\ (\E p \in Proc : pc[p] = "removing") => aged
  /\ breached => aged

IInv == TypeOK /\ ClocksInBounds /\ Owned /\ Earned
-----------------------------------------------------------------------------
\* The bounds are natural numbers.
LEMMA BoundsAreNat == /\ PostTime \in Nat
                      /\ Backoff \in Nat
                      /\ StaleAfter \in Nat
                      /\ Timeout \in Nat
<1>1. (HttpRetries + 1) \in Nat /\ Timeout \in Nat
  BY LockAssumption
<1>2. \A a, b \in Nat : a * b \in Nat
  OBVIOUS
<1>3. PostTime \in Nat
  BY <1>1, <1>2 DEF PostTime
<1> QED
  BY <1>1, <1>3, LockAssumption

\* A missing lock file is a value of the file variable.
LEMMA NoFileIsFile == NoFile \in File
BY BoundsAreNat DEF NoFile, File

\* The initial state satisfies the inductive invariant.
LEMMA InitIInv == Init => IInv
<1> SUFFICES ASSUME Init PROVE IInv
  OBVIOUS
<1> USE DEF Init
<1>1. TypeOK
  <2>1. aged \in BOOLEAN /\ breached \in BOOLEAN
    OBVIOUS
  <2>2. file \in File
    BY NoFileIsFile
  <2> QED
    BY <2>1, <2>2, LockAssumption DEF TypeOK, Place
<1>2. ClocksInBounds
  BY DEF ClocksInBounds
<1>3. Owned /\ Earned
  BY DEF Owned, Earned, Holding, NoFile
<1> QED
  BY <1>1, <1>2, <1>3 DEF IInv

\* Every step keeps the types and the clocks' bounds.
LEMMA TypeStep ==
  ASSUME TypeOK, ClocksInBounds, [Next]_vars
  PROVE  TypeOK' /\ ClocksInBounds'
<1> USE LockAssumption, BoundsAreNat DEF TypeOK, ClocksInBounds, Place, history
<1>1. ASSUME NEW p \in Proc, Start(p) PROVE TypeOK' /\ ClocksInBounds'
  BY <1>1 DEF Start
<1>2. ASSUME NEW p \in Proc, TryCreate(p) PROVE TypeOK' /\ ClocksInBounds'
  <2>1. file' \in File
    <3>1. file' = file \/ file' = [present |-> TRUE, age |-> 0, owner |-> p]
      BY <1>2 DEF TryCreate
    <3>2. [present |-> TRUE, age |-> 0, owner |-> p] \in File
      BY DEF File
    <3> QED
      BY <3>1, <3>2
  <2> QED
    BY <1>2, <2>1 DEF TryCreate
<1>3. ASSUME NEW p \in Proc, Wake(p) PROVE TypeOK' /\ ClocksInBounds'
  BY <1>3 DEF Wake
<1>4. ASSUME NEW p \in Proc, CheckAge(p) PROVE TypeOK' /\ ClocksInBounds'
  BY <1>4 DEF CheckAge
<1>5. ASSUME NEW p \in Proc, RemoveStale(p) PROVE TypeOK' /\ ClocksInBounds'
  <2>1. file' \in File
    BY <1>5, NoFileIsFile DEF RemoveStale, RemovesStale, RemoveFails
  <2> QED
    BY <1>5, <2>1 DEF RemoveStale, RemovesStale, RemoveFails
<1>6. ASSUME NEW p \in Proc, PostReturns(p) PROVE TypeOK' /\ ClocksInBounds'
  BY <1>6 DEF PostReturns
<1>7. ASSUME NEW p \in Proc, BackoffEnds(p) PROVE TypeOK' /\ ClocksInBounds'
  BY <1>7 DEF BackoffEnds
<1>8. ASSUME NEW p \in Proc, Cleanup(p) PROVE TypeOK' /\ ClocksInBounds'
  <2>1. file' \in File
    BY <1>8, NoFileIsFile DEF Cleanup
  <2> QED
    BY <1>8, <2>1 DEF Cleanup
<1>9. ASSUME NEW p \in Proc, Kill(p) PROVE TypeOK' /\ ClocksInBounds'
  BY <1>9 DEF Kill
<1>10. CASE Tick
  <2>1. file' \in File
    BY <1>10 DEF Tick, File
  <2>2. waited' \in [Proc -> 0 .. MaxWait] /\ clock' \in [Proc -> Nat]
    BY <1>10 DEF Tick
  <2> QED
    BY <1>10, <2>1, <2>2 DEF Tick
<1>11. CASE UNCHANGED vars
  BY <1>11 DEF vars
<1> QED
  BY <1>1, <1>2, <1>3, <1>4, <1>5, <1>6, <1>7, <1>8, <1>9, <1>10, <1>11
  DEF Next, Waiting, Held

\* Every step keeps the file and the lock together, and a reclaim late.
LEMMA OwnedStep ==
  ASSUME IInv, [Next]_vars
  PROVE  Owned' /\ Earned'
<1> USE LockAssumption, BoundsAreNat DEF IInv, TypeOK, Place, Owned, Earned, Holding, history
<1>1. ASSUME NEW p \in Proc, Start(p) PROVE Owned' /\ Earned'
  BY <1>1 DEF Start
<1>2. ASSUME NEW p \in Proc, TryCreate(p) PROVE Owned' /\ Earned'
  <2>1. CASE file.present
    BY <1>2, <2>1 DEF TryCreate
  <2>2. CASE ~file.present
    <3>1. /\ file' = [present |-> TRUE, age |-> 0, owner |-> p]
          /\ pc' = [pc EXCEPT ![p] = "posting"]
          /\ UNCHANGED <<kills, history>>
      BY <1>2, <2>2 DEF TryCreate
    <3> QED
      BY <2>2, <3>1
  <2> QED
    BY <2>1, <2>2
<1>3. ASSUME NEW p \in Proc, Wake(p) PROVE Owned' /\ Earned'
  BY <1>3 DEF Wake
<1>4. ASSUME NEW p \in Proc, CheckAge(p) PROVE Owned' /\ Earned'
  <2>1. CASE file.present /\ file.age >= StaleAfter
    <3>1. aged
      BY <2>1 DEF File
    <3> QED
      BY <1>4, <3>1 DEF CheckAge
  <2>2. CASE ~(file.present /\ file.age >= StaleAfter)
    BY <1>4, <2>2 DEF CheckAge
  <2> QED
    BY <2>1, <2>2
<1>5. ASSUME NEW p \in Proc, RemovesStale(p) PROVE Owned' /\ Earned'
  BY <1>5 DEF RemovesStale, NoFile
<1>6. ASSUME NEW p \in Proc, RemoveFails(p) PROVE Owned' /\ Earned'
  BY <1>6 DEF RemoveFails
<1>7. ASSUME NEW p \in Proc, PostReturns(p) PROVE Owned' /\ Earned'
  BY <1>7 DEF PostReturns
<1>8. ASSUME NEW p \in Proc, BackoffEnds(p) PROVE Owned' /\ Earned'
  BY <1>8 DEF BackoffEnds
<1>9. ASSUME NEW p \in Proc, Cleanup(p) PROVE Owned' /\ Earned'
  BY <1>9 DEF Cleanup, NoFile
<1>10. ASSUME NEW p \in Proc, Kill(p) PROVE Owned' /\ Earned'
  BY <1>10 DEF Kill
<1>11. CASE Tick
  BY <1>11 DEF Tick, File
<1>12. CASE UNCHANGED vars
  BY <1>12 DEF vars
<1> QED
  BY <1>1, <1>2, <1>3, <1>4, <1>5, <1>6, <1>7, <1>8, <1>9, <1>10, <1>11, <1>12
  DEF Next, Waiting, Held, RemoveStale

\* What every reachable state satisfies.
LEMMA Reachable == Spec => []IInv
<1>1. Init => IInv
  BY InitIInv
<1>2. IInv /\ [Next]_vars => IInv'
  BY TypeStep, OwnedStep DEF IInv
<1> QED
  BY <1>1, <1>2, PTL DEF Spec
-----------------------------------------------------------------------------
\* For all constants the lock's state keeps its types and bounds: whatever the
\* timeouts and however many processes are killed, a call of _call_groq posts
\* at most three times and a wait counts no further than MaxWait.
THEOREM GroqTypes == Spec => []TypeOK
<1>1. IInv => TypeOK
  BY DEF IInv
<1> QED
  BY <1>1, Reachable, PTL

\* For any number of processes, all timeouts and any kills, one process at most
\* is inside the locked Groq call until a waiter removes a live lock.
THEOREM GroqMutualExclusion == Spec => []MutualExclusion
<1>1. IInv => MutualExclusion
  BY DEF IInv, Owned, MutualExclusion
<1> QED
  BY <1>1, Reachable, PTL

\* Until then whoever is inside has its own file, which no finally block of
\* another removes, and a file left behind is a killed process's.
THEOREM GroqFileIsTheLock == Spec => []FileIsTheLock
<1>1. IInv => FileIsTheLock
  BY DEF IInv, Owned, FileIsTheLock
<1> QED
  BY <1>1, Reachable, PTL

\* No waiter removes a live lock before some lock file has been StaleAfter old:
\* with the theorems above the calls are exclusive for at least that long, whatever
\* they take and whoever is killed.
THEOREM GroqBreachIsLate == Spec => []BreachIsLate
<1>1. IInv => BreachIsLate
  BY DEF IInv, Earned, BreachIsLate
<1> QED
  BY <1>1, Reachable, PTL
==============================================================================
