-------------------------- MODULE NotificationProofs --------------------------
(***************************************************************************)
(* For any number of processes and any decisions, the state file never     *)
(* records a decision as evaluated under another recommendation than the   *)
(* one last notified: the drift of the confidence is always measured       *)
(* within one recommendation.                                              *)
(*                                                                         *)
(* The invariant alone is not inductive: a save copies what a process      *)
(* prepared earlier, from a file that may have changed since.  So it is    *)
(* carried for the file and for every state on its way to the file.        *)
(***************************************************************************)
EXTENDS Notification, TLAPS

\* What holds of a state, in the file or on its way there.
Consistent(st) ==
  st.notified # NoSnapshot =>
    /\ st.evaluated # NoSnapshot
    /\ st.evaluated.recommendation = st.notified.recommendation

\* A decision is at hand in every cycle.
AtHand == \A p \in Proc : pc[p] # "idle" => snapshot[p] \in Snapshots

AllConsistent == Consistent(state) /\ \A p \in Proc : Consistent(next[p])

IInv == TypeOK /\ AtHand /\ AllConsistent
-----------------------------------------------------------------------------
\* What is written when there is nothing to say, when an alert is queued and
\* when one was sent is a state again, and consistent.
LEMMA WrittenStates ==
  ASSUME NEW s \in Snapshots, NEW st \in NotificationState, Consistent(st)
  PROVE  /\ Trigger(s, st) \in {"none", "changed", "confidence"}
         /\ Sent(s, st) \in NotificationState /\ Consistent(Sent(s, st))
         /\ Trigger(s, st) = "none" =>
              LET n == [st EXCEPT !.evaluated = s]
              IN  n \in NotificationState /\ Consistent(n)
         /\ Trigger(s, st) = "confidence" =>
              Queued(s, st) \in NotificationState /\ Consistent(Queued(s, st))
<1> USE NotificationAssumption DEF NotificationState, Consistent, Maybe
<1>1. Trigger(s, st) \in {"none", "changed", "confidence"}
  BY DEF Trigger
<1>2. Sent(s, st) \in NotificationState /\ Consistent(Sent(s, st))
  BY DEF Sent
<1>3. ASSUME Trigger(s, st) = "none" \/ Trigger(s, st) = "confidence", st.notified # NoSnapshot
      PROVE  s.recommendation = st.notified.recommendation
  BY <1>3 DEF Trigger
<1>4. ASSUME Trigger(s, st) = "none"
      PROVE  LET n == [st EXCEPT !.evaluated = s]
             IN  n \in NotificationState /\ Consistent(n)
  BY <1>3, <1>4
<1>5. ASSUME Trigger(s, st) = "confidence"
      PROVE  Queued(s, st) \in NotificationState /\ Consistent(Queued(s, st))
  <2> DEFINE more == IF st.pending < MaxPending THEN st.pending + 1 ELSE st.pending
  <2>1. more \in 0 .. MaxPending
    OBVIOUS
  <2>2. Queued(s, st) = [st EXCEPT !.evaluated = s, !.pending = more]
    BY DEF Queued
  <2> HIDE DEF more
  <2> QED
    BY <1>3, <1>5, <2>1, <2>2
<1> QED
  BY <1>1, <1>2, <1>4, <1>5

\* A state stays a consistent state as time passes.
LEMMA OlderState ==
  ASSUME NEW st \in NotificationState, Consistent(st)
  PROVE  Older(st) \in NotificationState /\ Consistent(Older(st))
BY NotificationAssumption DEF NotificationState, Consistent, Older

\* The empty state is a consistent state.
LEMMA BlankState == Blank \in NotificationState /\ Consistent(Blank)
BY NotificationAssumption DEF Blank, NotificationState, Consistent, Maybe

\* Returning to idle keeps the types of the locals.
LEMMA ReturnStep ==
  ASSUME IInv, NEW p \in Proc, Return(p)
  PROVE  /\ pc' \in [Proc -> {"idle", "loading", "publishing", "saving"}]
         /\ snapshot' \in [Proc -> Maybe]
         /\ next' \in [Proc -> NotificationState]
         /\ trigger' \in [Proc -> {"none", "changed", "confidence"}]
         /\ attempt' \in [Proc -> 0 .. Attempts - 1]
         /\ delivered' \in [Proc -> BOOLEAN]
         /\ AtHand'
         /\ \A q \in Proc : Consistent(next'[q])
<1> USE NotificationAssumption DEF Return, Goto, IInv, TypeOK, AllConsistent, AtHand
<1>1. next' \in [Proc -> NotificationState] /\ \A q \in Proc : Consistent(next'[q])
  BY BlankState
<1> QED
  BY <1>1 DEF Maybe

\* The initial state satisfies the inductive invariant.
LEMMA InitIInv == Init => IInv
<1> SUFFICES ASSUME Init PROVE IInv
  OBVIOUS
<1>1. AllConsistent
  BY BlankState DEF Init, AllConsistent
<1>2. AtHand
  BY DEF Init, AtHand
<1>3. TypeOK
  <2>1. 0 \in 0 .. Attempts - 1 /\ Window \in 0 .. Window
    BY NotificationAssumption
  <2>2. attempt \in [Proc -> 0 .. Attempts - 1]
    BY <2>1 DEF Init
  <2>3. /\ next \in [Proc -> NotificationState] /\ state \in NotificationState
        /\ snapshot \in [Proc -> Maybe]
    BY BlankState DEF Init, Maybe
  <2> QED
    BY <2>1, <2>2, <2>3 DEF Init, TypeOK, Maybe
<1> QED
  BY <1>1, <1>2, <1>3 DEF IInv

\* Every step keeps the inductive invariant.
LEMMA NextIInv ==
  ASSUME IInv, [Next]_vars
  PROVE  IInv'
<1> USE NotificationAssumption DEF IInv, TypeOK, AtHand, AllConsistent
<1>1. ASSUME NEW p \in Proc, Decide(p) PROVE IInv'
  BY <1>1 DEF Decide, Goto, Maybe, worldVars
<1>2. ASSUME NEW p \in Proc, LoadState(p) PROVE IInv'
  <2> DEFINE s == snapshot[p]
             t == Trigger(s, state)
  <2>1. s \in Snapshots /\ Consistent(state) /\ state \in NotificationState
    BY <1>2 DEF LoadState
  <2>2. t \in {"none", "changed", "confidence"}
    BY <2>1, WrittenStates
  <2>3. t # "none" /\ Consolidate(t, state) => t = "confidence"
    BY DEF Consolidate
  <2>4. \E n \in NotificationState : Consistent(n) /\ next' = [next EXCEPT ![p] = n]
    <3>1. CASE t # "none" /\ ~Consolidate(t, state)
      BY <1>2, <2>1, <3>1 DEF LoadState
    <3>2. CASE t = "none"
      BY <1>2, <2>1, <3>2, WrittenStates DEF LoadState
    <3>3. CASE t # "none" /\ Consolidate(t, state)
      BY <1>2, <2>1, <2>3, <3>3, WrittenStates DEF LoadState
    <3> QED
      BY <3>1, <3>2, <3>3
  <2>5. next' \in [Proc -> NotificationState] /\ \A q \in Proc : Consistent(next'[q])
    BY <2>4
  <2>6. /\ pc' \in [Proc -> {"idle", "loading", "publishing", "saving"}]
        /\ trigger' \in [Proc -> {"none", "changed", "confidence"}]
        /\ attempt' \in [Proc -> 0 .. Attempts - 1]
        /\ delivered' \in [Proc -> BOOLEAN] /\ stale' \in [Proc -> BOOLEAN]
    BY <1>2, <2>2 DEF LoadState, Goto
  <2>7. AtHand'
    BY <1>2, <2>1 DEF LoadState, Goto
  <2> QED
    BY <1>2, <2>5, <2>6, <2>7 DEF LoadState, worldVars
<1>3. ASSUME NEW p \in Proc, Accepted(p) PROVE IInv'
  <2>1. snapshot[p] \in Snapshots
    BY <1>3 DEF Accepted
  <2>2. Sent(snapshot[p], next[p]) \in NotificationState /\ Consistent(Sent(snapshot[p], next[p]))
    BY <2>1, WrittenStates
  <2>3. next' \in [Proc -> NotificationState] /\ \A q \in Proc : Consistent(next'[q])
    BY <1>3, <2>2 DEF Accepted
  <2>4. AtHand'
    BY <1>3 DEF Accepted, Goto
  <2> QED
    BY <1>3, <2>1, <2>3, <2>4 DEF Accepted, Show, Goto, Maybe, worldVars
<1>4. ASSUME NEW p \in Proc, TryFails(p) PROVE IInv'
  <2>1. PICK took \in BOOLEAN :
          /\ IF took THEN Show(p) ELSE UNCHANGED <<shown, shownAge>>
          /\ IF LastTry(p)
               THEN GiveUp(p, delivered[p] \/ took)
               ELSE /\ attempt' = [attempt EXCEPT ![p] = @ + 1]
                    /\ delivered' = [delivered EXCEPT ![p] = @ \/ took]
                    /\ UNCHANGED <<pc, snapshot, next, trigger, lost, stale>>
    BY <1>4 DEF TryFails
  <2>2. shown' \in Maybe /\ shownAge' \in 0 .. Window /\ state' = state
        /\ settled' = settled
    BY <1>4, <2>1 DEF TryFails, Show, worldVars
  <2>3. CASE LastTry(p)
    <3>1. Return(p) /\ lost' \in BOOLEAN /\ stale' \in [Proc -> BOOLEAN]
      BY <2>1, <2>3 DEF GiveUp, MakeStale
    <3> QED
      BY <2>2, <3>1, ReturnStep
  <2>4. CASE ~LastTry(p)
    <3>1. attempt' \in [Proc -> 0 .. Attempts - 1]
      BY <2>1, <2>4 DEF LastTry
    <3>2. delivered' \in [Proc -> BOOLEAN]
      BY <2>1, <2>4
    <3> QED
      BY <2>1, <2>2, <2>4, <3>1, <3>2
  <2> QED
    BY <2>3, <2>4
<1>5. ASSUME NEW p \in Proc, Refused(p) PROVE IInv'
  <2>1. Return(p) /\ lost' \in BOOLEAN /\ stale' \in [Proc -> BOOLEAN]
    BY <1>5 DEF Refused, GiveUp, MakeStale
  <2> QED
    BY <1>5, <2>1, ReturnStep DEF Refused, worldVars
<1>6. ASSUME NEW p \in Proc, SaveState(p) PROVE IInv'
  <2>1. Return(p) /\ lost' \in BOOLEAN /\ stale' \in [Proc -> BOOLEAN]
    BY <1>6 DEF SaveState, MakeStale
  <2> QED
    BY <1>6, <2>1, ReturnStep DEF SaveState, worldVars
<1>7. ASSUME NEW p \in Proc, Abort(p) PROVE IInv'
  <2>1. Return(p) /\ lost' \in BOOLEAN /\ stale' \in [Proc -> BOOLEAN]
    BY <1>7 DEF Abort, GiveUp, MakeStale
  <2> QED
    BY <1>7, <2>1, ReturnStep DEF Abort, worldVars
<1>8. CASE Tick
  <2>1. state' \in NotificationState /\ Consistent(state')
    BY <1>8, OlderState DEF Tick
  <2>2. next' \in [Proc -> NotificationState] /\ \A q \in Proc : Consistent(next'[q])
    BY <1>8, OlderState DEF Tick
  <2> QED
    BY <1>8, <2>1, <2>2 DEF Tick, worldVars
<1>9. CASE Settle
  BY <1>9 DEF Settle, procVars
<1>10. CASE UNCHANGED vars
  BY <1>10 DEF vars
<1> QED
  BY <1>1, <1>2, <1>3, <1>4, <1>5, <1>6, <1>7, <1>8, <1>9, <1>10 DEF Next, Step

\* The state file's evaluated and notified decisions always carry the same
\* recommendation, for any number of processes, with kills, lost answers and
\* overwritten saves.
THEOREM NotifiedAsEvaluated == Spec => [](TypeOK /\ OneRecommendationOnFile)
<1>1. IInv /\ [Next]_vars => IInv'
  BY NextIInv
<1>2. IInv => TypeOK /\ OneRecommendationOnFile
  BY DEF IInv, AllConsistent, Consistent, OneRecommendationOnFile
<1> QED
  BY InitIInv, <1>1, <1>2, PTL DEF Spec

\* The file keeps its types and bounds, for any constants: an alert's age
\* and the tries of the webhook never leave their ranges.
THEOREM NotificationTypes == Spec => []TypeOK
BY NotifiedAsEvaluated, PTL
-----------------------------------------------------------------------------
(***************************************************************************)
(* What the file knows of the channel.  RecordMatchesDiscord speaks of the *)
(* moments when nobody is in flight, and is carried through the others by  *)
(* what is known of those in flight and of those about to save:            *)
(*   - while someone in flight will not be counted as lost, the one whose  *)
(*     message Discord shows is in flight too;                             *)
(*   - whoever saves without a message, over the file it loaded, keeps the *)
(*     recommendation and the time of the last alert on file.              *)
(***************************************************************************)
\* The file agrees with Discord, and takes the alert for no older than it is.
FileMatches ==
  (shown # NoSnapshot /\ ~lost /\ \A p \in Proc : ~InFlight(p))
    => /\ state.evaluated # NoSnapshot
       /\ state.evaluated.recommendation = shown.recommendation
       /\ state.alertAge <= shownAge

\* Discord shows p's message, and p is going to record it.
Author(p) ==
  /\ InFlight(p)
  /\ shown = snapshot[p]
  /\ pc[p] = "saving" => next[p].alertAge <= shownAge

AuthorInFlight ==
  (\E p \in Proc : InFlight(p) /\ ~stale[p]) => \E q \in Proc : Author(q)

\* p's record: of its message, or of what the file said.
InRecord(p) ==
  pc[p] = "saving" =>
    /\ delivered[p] => next[p].evaluated = snapshot[p]
    /\ ~delivered[p] /\ ~stale[p] /\ state.evaluated # NoSnapshot =>
         /\ next[p].evaluated # NoSnapshot
         /\ next[p].evaluated.recommendation = state.evaluated.recommendation
         /\ next[p].alertAge = state.alertAge

\* p publishes a confidence update: the window of the alert on file is over.
WindowOver(p) ==
  pc[p] = "publishing" /\ ~stale[p] /\ trigger[p] = "confidence" => state.alertAge >= Window

Recorded == FileMatches /\ AuthorInFlight /\ \A p \in Proc : InRecord(p) /\ WindowOver(p)

\* A process that gives up its message, or never sent one, disturbs nothing:
\* what Discord took of it is lost, and everyone else in flight is stale.
LEMMA GiveUpStep ==
  ASSUME IInv, Recorded, NEW p \in Proc, NEW took \in BOOLEAN,
         GiveUp(p, took), InFlight(p) => took, state' = state,
         took \/ UNCHANGED <<shown, shownAge>>
  PROVE  Recorded'
<1> USE DEF IInv, TypeOK
<1>1. /\ pc' = [pc EXCEPT ![p] = "idle"] /\ snapshot' = [snapshot EXCEPT ![p] = NoSnapshot]
      /\ next' = [next EXCEPT ![p] = Blank] /\ trigger' = [trigger EXCEPT ![p] = "none"]
      /\ delivered' = [delivered EXCEPT ![p] = FALSE]
  BY DEF GiveUp, Return, Goto
<1>2. pc'[p] = "idle"
  BY <1>1
<1>3. ASSUME NEW q \in Proc, q # p
      PROVE  /\ pc'[q] = pc[q] /\ snapshot'[q] = snapshot[q] /\ next'[q] = next[q]
             /\ trigger'[q] = trigger[q] /\ delivered'[q] = delivered[q]
  BY <1>1, <1>3
<1>4. ASSUME NEW q \in Proc, q # p PROVE InFlight(q)' <=> InFlight(q)
  BY <1>3, <1>4 DEF InFlight
<1>5. ~InFlight(p)'
  BY <1>2 DEF InFlight
<1>6. CASE took
  <2>1. lost'
    BY <1>6 DEF GiveUp
  <2>2. ASSUME NEW q \in Proc, pc'[q] \in {"publishing", "saving"} PROVE stale'[q]
    <3>1. q # p
      BY <1>2, <2>2
    <3>2. stale'[q] = (q # p /\ (stale[q] \/ pc[q] \in {"publishing", "saving"}))
      BY <1>6 DEF GiveUp, MakeStale
    <3> QED
      BY <1>3, <2>2, <3>1, <3>2
  <2>3. FileMatches'
    BY <2>1 DEF FileMatches
  <2>4. AuthorInFlight'
    BY <2>2 DEF AuthorInFlight, InFlight
  <2>5. ASSUME NEW q \in Proc PROVE InRecord(q)'
    <3>1. CASE q = p
      BY <1>2, <3>1 DEF InRecord
    <3>2. CASE q # p
      BY <1>3, <2>2, <3>2 DEF InRecord, Recorded
    <3> QED
      BY <3>1, <3>2
  <2>6. ASSUME NEW q \in Proc PROVE WindowOver(q)'
    BY <2>2 DEF WindowOver
  <2> QED
    BY <2>3, <2>4, <2>5, <2>6 DEF Recorded
<1>7. CASE ~took
  <2>1. ~InFlight(p) /\ UNCHANGED <<shown, shownAge, lost>>
    BY <1>7 DEF GiveUp
  <2>2. ASSUME NEW q \in Proc, q # p PROVE stale'[q] = stale[q]
    BY <1>7, <2>2 DEF GiveUp
  <2>3. FileMatches'
    <3>1. (\A q \in Proc : ~InFlight(q))' => \A q \in Proc : ~InFlight(q)
      BY <1>4, <2>1
    <3> QED
      BY <2>1, <3>1 DEF FileMatches, Recorded
  <2>4. AuthorInFlight'
    <3>1. ASSUME NEW q \in Proc, InFlight(q)', ~stale'[q] PROVE \E r \in Proc : Author(r)'
      <4>1. q # p /\ InFlight(q) /\ ~stale[q]
        BY <1>4, <1>5, <2>2, <3>1
      <4>2. PICK r \in Proc : Author(r)
        BY <4>1 DEF Recorded, AuthorInFlight
      <4>3. r # p
        BY <2>1, <4>2 DEF Author
      <4>4. Author(r)'
        BY <1>3, <1>4, <2>1, <4>2, <4>3 DEF Author
      <4> QED
        BY <4>4
    <3> QED
      BY <3>1 DEF AuthorInFlight
  <2>5. ASSUME NEW q \in Proc PROVE InRecord(q)'
    <3>1. CASE q = p
      BY <1>2, <3>1 DEF InRecord
    <3>2. CASE q # p
      BY <1>3, <2>2, <3>2 DEF InRecord, Recorded
    <3> QED
      BY <3>1, <3>2
  <2>6. ASSUME NEW q \in Proc PROVE WindowOver(q)'
    <3>1. CASE q = p
      BY <1>2, <3>1 DEF WindowOver
    <3>2. CASE q # p
      BY <1>3, <2>2, <3>2 DEF WindowOver, Recorded
    <3> QED
      BY <3>1, <3>2
  <2> QED
    BY <2>3, <2>4, <2>5, <2>6 DEF Recorded
<1> QED
  BY <1>6, <1>7

\* A step that ends nobody's flight and moves no file: p alone changes place
\* or locals.
LEMMA RecordedAlone ==
  ASSUME IInv, Recorded, NEW p \in Proc, UNCHANGED <<state, shown, shownAge, lost>>,
         \A q \in Proc : q # p =>
           /\ pc'[q] = pc[q] /\ snapshot'[q] = snapshot[q] /\ next'[q] = next[q]
           /\ trigger'[q] = trigger[q] /\ delivered'[q] = delivered[q] /\ stale'[q] = stale[q],
         ~InFlight(p), ~InFlight(p)', InRecord(p)', WindowOver(p)'
  PROVE  Recorded'
<1>1. ASSUME NEW q \in Proc PROVE InFlight(q)' <=> InFlight(q)
  BY DEF InFlight
<1>2. FileMatches'
  BY <1>1 DEF FileMatches, Recorded
<1>3. ASSUME NEW q \in Proc, InFlight(q)', ~stale'[q] PROVE \E r \in Proc : Author(r)'
  <2>1. q # p /\ InFlight(q) /\ ~stale[q]
    BY <1>1, <1>3
  <2>2. PICK r \in Proc : Author(r)
    BY <2>1 DEF Recorded, AuthorInFlight
  <2>3. r # p
    BY <2>2 DEF Author
  <2>4. Author(r)'
    BY <1>1, <2>2, <2>3 DEF Author
  <2> QED
    BY <2>4
<1>4. AuthorInFlight'
  BY <1>3 DEF AuthorInFlight
<1>5. ASSUME NEW q \in Proc PROVE InRecord(q)' /\ WindowOver(q)'
  <2>1. CASE q = p
    BY <2>1
  <2>2. CASE q # p
    <3>1. InRecord(q)'
      BY <2>2 DEF InRecord, Recorded
    <3>2. WindowOver(q)'
      BY <2>2 DEF WindowOver, Recorded
    <3> QED
      BY <3>1, <3>2
  <2> QED
    BY <2>1, <2>2
<1> QED
  BY <1>2, <1>4, <1>5 DEF Recorded

\* Discord takes a try of p's message while p goes on publishing or is about
\* to save it: p is the author of what is shown.
LEMMA RecordedShown ==
  ASSUME IInv, Recorded, NEW p \in Proc, pc[p] = "publishing", Show(p), snapshot' = snapshot,
         state' = state, stale' = stale, trigger' = trigger, delivered'[p],
         \A q \in Proc : q # p =>
           pc'[q] = pc[q] /\ next'[q] = next[q] /\ delivered'[q] = delivered[q],
         \/ pc'[p] = "publishing"
         \/ /\ pc'[p] = "saving"
            /\ next'[p].evaluated = snapshot[p] /\ next'[p].alertAge = 0
  PROVE  Recorded'
<1> USE DEF IInv, TypeOK
<1>1. InFlight(p)'
  BY DEF InFlight
<1>2. Author(p)'
  BY <1>1 DEF Author, Show
<1>3. FileMatches'
  BY <1>1 DEF FileMatches
<1>4. AuthorInFlight'
  BY <1>2 DEF AuthorInFlight
<1>5. ASSUME NEW q \in Proc PROVE InRecord(q)'
  <2>1. CASE q = p
    BY <2>1 DEF InRecord
  <2>2. CASE q # p
    BY <2>2 DEF InRecord, Recorded
  <2> QED
    BY <2>1, <2>2
<1>6. ASSUME NEW q \in Proc PROVE WindowOver(q)'
  <2>1. pc'[q] = "publishing" => pc[q] = "publishing"
    BY DEF IInv
  <2> QED
    BY <2>1 DEF WindowOver, Recorded
<1> QED
  BY <1>3, <1>4, <1>5, <1>6 DEF Recorded

\* The record that p is about to save, as it was loaded and chosen.
LEMMA RecordedLoad ==
  ASSUME IInv, Recorded, NEW p \in Proc, LoadState(p)
  PROVE  Recorded'
<1> USE DEF IInv, TypeOK
<1> DEFINE s == snapshot[p]
           t == Trigger(s, state)
<1>1. /\ pc[p] = "loading" /\ s \in Snapshots
      /\ state \in NotificationState
  BY DEF LoadState, AtHand
<1>2. delivered'[p] = FALSE /\ stale'[p] = FALSE
  BY DEF LoadState
<1>3. InRecord(p)'
  <2>1. SUFFICES ASSUME pc'[p] = "saving", state.evaluated # NoSnapshot
                 PROVE  /\ next'[p].evaluated # NoSnapshot
                        /\ next'[p].evaluated.recommendation = state.evaluated.recommendation
                        /\ next'[p].alertAge = state.alertAge
    BY <1>2 DEF LoadState, InRecord
  <2>2. t = "none" \/ Consolidate(t, state)
    BY <2>1 DEF LoadState, Goto
  <2>3. t = "none" \/ t = "confidence"
    BY <2>2 DEF Consolidate
  <2>4. s # NoSnapshot /\ s.recommendation = state.evaluated.recommendation
    BY <1>1, <2>1, <2>3, NotificationAssumption DEF Trigger
  <2>5. next'[p] = IF t = "none" THEN [state EXCEPT !.evaluated = s] ELSE Queued(s, state)
    BY <2>2 DEF LoadState
  <2>6. next'[p].evaluated = s /\ next'[p].alertAge = state.alertAge
    BY <1>1, <2>5 DEF Queued, NotificationState
  <2> QED
    BY <2>4, <2>6
<1>4. WindowOver(p)'
  <2>1. SUFFICES ASSUME pc'[p] = "publishing", trigger'[p] = "confidence"
                 PROVE  state.alertAge >= Window
    BY DEF LoadState, WindowOver
  <2>2. t = "confidence" /\ ~Consolidate(t, state)
    BY <2>1 DEF LoadState, Goto
  <2> QED
    BY <1>1, <2>2, NotificationAssumption DEF Consolidate, NotificationState
<1>5. \A q \in Proc : q # p =>
        /\ pc'[q] = pc[q] /\ snapshot'[q] = snapshot[q] /\ next'[q] = next[q]
        /\ trigger'[q] = trigger[q] /\ delivered'[q] = delivered[q] /\ stale'[q] = stale[q]
  BY DEF LoadState, Goto
<1>6. ~InFlight(p) /\ ~InFlight(p)'
  BY <1>1, <1>2 DEF InFlight
<1>7. UNCHANGED <<state, shown, shownAge, lost>>
  BY DEF LoadState
<1> QED
  BY <1>3, <1>4, <1>5, <1>6, <1>7, RecordedAlone

\* A save: of a message, over the file that was loaded; of no message, which
\* keeps what the file says; or over another's save, which is lost.
LEMMA RecordedSave ==
  ASSUME IInv, Recorded, NEW p \in Proc, SaveState(p)
  PROVE  Recorded'
<1> USE DEF IInv, TypeOK
<1>1. /\ pc[p] = "saving" /\ state' = next[p] /\ pc' = [pc EXCEPT ![p] = "idle"]
      /\ snapshot' = [snapshot EXCEPT ![p] = NoSnapshot]
      /\ next' = [next EXCEPT ![p] = Blank]
      /\ delivered' = [delivered EXCEPT ![p] = FALSE]
      /\ UNCHANGED <<shown, shownAge>>
  BY DEF SaveState, Return, Goto
<1>2. pc'[p] = "idle"
  BY <1>1
<1>3. ASSUME NEW q \in Proc, q # p
      PROVE  /\ pc'[q] = pc[q] /\ snapshot'[q] = snapshot[q]
             /\ next'[q] = next[q] /\ delivered'[q] = delivered[q]
  BY <1>1, <1>3
<1>4. ASSUME NEW q \in Proc, pc'[q] \in {"publishing", "saving"} PROVE stale'[q]
  <2>1. q # p
    BY <1>2, <1>4
  <2>2. stale'[q] = (q # p /\ (stale[q] \/ pc[q] \in {"publishing", "saving"}))
    BY DEF SaveState, MakeStale
  <2> QED
    BY <1>3, <1>4, <2>1, <2>2
<1>5. AuthorInFlight'
  BY <1>4 DEF AuthorInFlight, InFlight
<1>6. ASSUME NEW q \in Proc PROVE InRecord(q)'
  <2>1. CASE q = p
    BY <1>2, <2>1 DEF InRecord
  <2>2. CASE q # p
    BY <1>3, <1>4, <2>2 DEF InRecord, Recorded
  <2> QED
    BY <2>1, <2>2
<1>7. ASSUME NEW q \in Proc PROVE WindowOver(q)'
  BY <1>4 DEF WindowOver
<1>8. FileMatches'
  <2>1. SUFFICES ASSUME shown # NoSnapshot, ~lost', \A q \in Proc : ~InFlight(q)'
                 PROVE  /\ state'.evaluated # NoSnapshot
                        /\ state'.evaluated.recommendation = shown.recommendation
                        /\ state'.alertAge <= shownAge
    BY <1>1 DEF FileMatches
  <2>2. ASSUME NEW q \in Proc, q # p PROVE ~InFlight(q)
    BY <1>3, <2>1, <2>2 DEF InFlight
  <2>3. ~stale[p]
    BY <2>1 DEF SaveState
  <2>4. CASE delivered[p]
    <3>1. InFlight(p)
      BY <1>1, <2>4 DEF InFlight
    <3>2. PICK r \in Proc : Author(r)
      BY <2>3, <3>1 DEF Recorded, AuthorInFlight
    <3>3. Author(p)
      BY <2>2, <3>2 DEF Author
    <3>4. next[p].evaluated = snapshot[p]
      BY <1>1, <2>4 DEF InRecord, Recorded
    <3> QED
      BY <1>1, <2>1, <3>3, <3>4 DEF Author
  <2>5. CASE ~delivered[p]
    <3>1. ~InFlight(p) /\ ~lost
      BY <2>1, <2>3, <2>5 DEF InFlight, SaveState
    <3>2. \A q \in Proc : ~InFlight(q)
      BY <2>2, <3>1
    <3>3. /\ state.evaluated # NoSnapshot
          /\ state.evaluated.recommendation = shown.recommendation
          /\ state.alertAge <= shownAge
      BY <2>1, <3>1, <3>2 DEF FileMatches, Recorded
    <3> QED
      BY <1>1, <2>3, <2>5, <3>3 DEF InRecord, Recorded
  <2> QED
    BY <2>4, <2>5
<1> QED
  BY <1>5, <1>6, <1>7, <1>8 DEF Recorded

\* Time ages the file, the records on their way to it and the channel alike.
LEMMA RecordedTick ==
  ASSUME IInv, Recorded, Tick
  PROVE  Recorded'
<1> USE NotificationAssumption DEF IInv, TypeOK
<1>1. UNCHANGED <<pc, snapshot, trigger, delivered, stale, shown, lost>>
  BY DEF Tick
<1>2. /\ state' = Older(state)
      /\ \A q \in Proc : next'[q] = Older(next[q])
      /\ shownAge' = IF shownAge < Window THEN shownAge + 1 ELSE shownAge
  BY DEF Tick
<1>3. ASSUME NEW st \in NotificationState
      PROVE  /\ Older(st).evaluated = st.evaluated
             /\ st.alertAge <= shownAge => Older(st).alertAge <= shownAge'
             /\ st.alertAge >= Window => Older(st).alertAge >= Window
  BY <1>2 DEF Older, NotificationState
<1>4. ASSUME NEW st \in NotificationState, NEW other \in NotificationState,
             st.alertAge = other.alertAge
      PROVE  Older(st).alertAge = Older(other).alertAge
  BY <1>4 DEF Older, NotificationState
<1>5. \A q \in Proc : InFlight(q)' <=> InFlight(q)
  BY <1>1 DEF InFlight
<1>6. FileMatches'
  BY <1>1, <1>2, <1>3, <1>5 DEF FileMatches, Recorded
<1>7. AuthorInFlight'
  <2>1. ASSUME NEW r \in Proc, Author(r) PROVE Author(r)'
    BY <1>1, <1>2, <1>3, <1>5, <2>1 DEF Author
  <2> QED
    BY <1>1, <1>5, <2>1 DEF AuthorInFlight, Recorded
<1>8. ASSUME NEW q \in Proc PROVE InRecord(q)'
  <2>1. next[q] \in NotificationState
    OBVIOUS
  <2>2. InRecord(q)
    BY DEF Recorded
  <2> QED
    BY <1>1, <1>2, <1>3, <1>4, <2>1, <2>2 DEF InRecord
<1>9. ASSUME NEW q \in Proc PROVE WindowOver(q)'
  BY <1>1, <1>2, <1>3 DEF WindowOver, Recorded
<1> QED
  BY <1>6, <1>7, <1>8, <1>9 DEF Recorded

\* What the file knows of the channel stays true in every step.
LEMMA NextRecorded ==
  ASSUME IInv, Recorded, [Next]_vars
  PROVE  Recorded'
<1> USE DEF IInv, TypeOK
<1>1. ASSUME NEW p \in Proc, Decide(p) PROVE Recorded'
  <2>1. pc[p] = "idle" /\ pc'[p] = "loading"
    BY <1>1 DEF Decide, Goto
  <2>2. ~InFlight(p) /\ ~InFlight(p)' /\ InRecord(p)' /\ WindowOver(p)'
    BY <2>1 DEF InFlight, InRecord, WindowOver
  <2>3. \A q \in Proc : q # p =>
          /\ pc'[q] = pc[q] /\ snapshot'[q] = snapshot[q] /\ next'[q] = next[q]
          /\ trigger'[q] = trigger[q] /\ delivered'[q] = delivered[q] /\ stale'[q] = stale[q]
    BY <1>1 DEF Decide, Goto
  <2>4. UNCHANGED <<state, shown, shownAge, lost>>
    BY <1>1 DEF Decide
  <2> QED
    BY <2>2, <2>3, <2>4, RecordedAlone
<1>2. ASSUME NEW p \in Proc, LoadState(p) PROVE Recorded'
  BY <1>2, RecordedLoad
<1>3. ASSUME NEW p \in Proc, Accepted(p) PROVE Recorded'
  <2>1. /\ pc[p] = "publishing" /\ Show(p) /\ UNCHANGED <<snapshot, trigger, stale, state>>
        /\ delivered'[p]
        /\ \A q \in Proc : q # p =>
             pc'[q] = pc[q] /\ next'[q] = next[q] /\ delivered'[q] = delivered[q]
    BY <1>3 DEF Accepted, Goto
  <2>2. pc'[p] = "saving" /\ next'[p] = Sent(snapshot[p], next[p])
    BY <1>3 DEF Accepted, Goto
  <2>3. next'[p].evaluated = snapshot[p] /\ next'[p].alertAge = 0
    BY <2>2 DEF Sent
  <2> QED
    BY <2>1, <2>2, <2>3, RecordedShown
<1>4. ASSUME NEW p \in Proc, TryFails(p) PROVE Recorded'
  <2>1. PICK took \in BOOLEAN :
          /\ IF took THEN Show(p) ELSE UNCHANGED <<shown, shownAge>>
          /\ IF LastTry(p)
               THEN GiveUp(p, delivered[p] \/ took)
               ELSE /\ attempt' = [attempt EXCEPT ![p] = @ + 1]
                    /\ delivered' = [delivered EXCEPT ![p] = @ \/ took]
                    /\ UNCHANGED <<pc, snapshot, next, trigger, lost, stale>>
    BY <1>4 DEF TryFails
  <2>2. pc[p] = "publishing" /\ state' = state
    BY <1>4 DEF TryFails
  <2>3. CASE LastTry(p)
    <3>1. (delivered[p] \/ took) \in BOOLEAN
      OBVIOUS
    <3>2. InFlight(p) => (delivered[p] \/ took)
      BY DEF InFlight
    <3> QED
      BY <2>1, <2>2, <2>3, <3>1, <3>2, GiveUpStep
  <2>4. CASE ~LastTry(p) /\ took
    <3>1. delivered'[p] /\ \A q \in Proc : q # p => delivered'[q] = delivered[q]
      BY <2>1, <2>4
    <3> QED
      BY <2>1, <2>2, <2>4, <3>1, RecordedShown
  <2>5. CASE ~LastTry(p) /\ ~took
    <3>1. UNCHANGED <<pc, snapshot, next, trigger, lost, stale, state, shown, shownAge>>
      BY <2>1, <2>2, <2>5
    <3>2. delivered' = delivered
      <4>1. delivered' = [delivered EXCEPT ![p] = delivered[p] \/ took]
        BY <2>1, <2>5
      <4>2. delivered'[p] = delivered[p]
        BY <2>5, <4>1
      <4> QED
        BY <4>1, <4>2
    <3>3. \A q \in Proc : InFlight(q)' <=> InFlight(q)
      BY <3>1, <3>2 DEF InFlight
    <3> QED
      BY <3>1, <3>2, <3>3
      DEF Recorded, FileMatches, AuthorInFlight, Author, InRecord, WindowOver
  <2> QED
    BY <2>3, <2>4, <2>5
<1>5. ASSUME NEW p \in Proc, Refused(p) \/ Abort(p) PROVE Recorded'
  <2>1. GiveUp(p, delivered[p]) /\ UNCHANGED <<state, shown, shownAge>>
    BY <1>5 DEF Refused, Abort
  <2>2. delivered[p] \in BOOLEAN /\ (InFlight(p) => delivered[p])
    BY DEF InFlight
  <2> QED
    BY <2>1, <2>2, GiveUpStep
<1>6. ASSUME NEW p \in Proc, SaveState(p) PROVE Recorded'
  BY <1>6, RecordedSave
<1>7. CASE Tick
  BY <1>7, RecordedTick
<1>8. CASE Settle \/ UNCHANGED vars
  <2>1. UNCHANGED <<procVars, state, shown, shownAge, lost>>
    BY <1>8 DEF Settle, vars, procVars
  <2> QED
    BY <2>1 DEF procVars, Recorded, FileMatches, AuthorInFlight, Author, InFlight, InRecord, WindowOver
<1> QED
  BY <1>1, <1>2, <1>3, <1>4, <1>5, <1>6, <1>7, <1>8 DEF Next, Step

\* Initially nothing is shown.
LEMMA InitRecorded == Init => Recorded
BY DEF Init, Recorded, FileMatches, AuthorInFlight, InFlight, InRecord, WindowOver

\* Both invariants hold in every reachable state.
LEMMA Known == Spec => [](IInv /\ Recorded)
<1>1. Init => IInv /\ Recorded
  BY InitIInv, InitRecorded
<1>2. IInv /\ Recorded /\ [Next]_vars => (IInv /\ Recorded)'
  BY NextIInv, NextRecorded
<1> QED
  BY <1>1, <1>2, PTL DEF Spec

\* For any number of processes, tries and kills: once nobody is in flight and
\* no record was lost, the recommendation on file is the one Discord shows.
THEOREM FileKnowsDiscord == Spec => []RecordMatchesDiscord
<1>1. IInv /\ Recorded => RecordMatchesDiscord
  BY DEF Recorded, FileMatches, RecordMatchesDiscord
<1> QED
  BY Known, <1>1, PTL

\* A confidence update that one process sends, with nothing lost, reaches
\* Discord only when the last message is Window old.
THEOREM ConfidenceWaits == Spec => ConfidenceAlertsSpaced
<1> DEFINE Spaced ==
      \A p \in Proc :
        /\ Accepted(p) /\ trigger[p] = "confidence"
        /\ ~lost /\ ~stale[p] /\ attempt[p] = 0
        /\ \A q \in Proc : ~InFlight(q)
        => shown = NoSnapshot \/ shownAge = Window
<1>1. IInv /\ Recorded /\ [Next]_vars => [Spaced]_vars
  <2> SUFFICES ASSUME IInv, Recorded, NEW p \in Proc, Accepted(p), trigger[p] = "confidence",
                      ~lost, ~stale[p], \A q \in Proc : ~InFlight(q), shown # NoSnapshot
               PROVE  shownAge = Window
    OBVIOUS
  <2>1. state.alertAge >= Window
    BY DEF Accepted, WindowOver, Recorded
  <2>2. state.alertAge <= shownAge
    BY DEF FileMatches, Recorded
  <2>3. shownAge \in 0 .. Window /\ state.alertAge \in 0 .. Window + 1
    BY DEF IInv, TypeOK, NotificationState
  <2> QED
    BY <2>1, <2>2, <2>3, NotificationAssumption
<1> QED
  BY <1>1, Known, PTL DEF Spec, ConfidenceAlertsSpaced
===============================================================================
