----------------------------- MODULE Notification -----------------------------
(***************************************************************************)
(* Discord alerts: NotificationEngine.process_recommendation               *)
(* (app/application/notification_engine.py), its state file                *)
(* (json_notification_state_repository.py) and the webhook publisher       *)
(* (discord/webhook_client.py), as the orchestrator uses them at the end   *)
(* of every cycle with --notify.                                           *)
(*                                                                         *)
(* The state is loaded, the message is published, the state is saved: the  *)
(* file is locked for the load and for the save but not between them.  A   *)
(* message is tried Attempts times; a try may time out although Discord    *)
(* took the message.  Several processes may run cycles (run-forever,       *)
(* run-once) and may be killed at any point.                               *)
(*                                                                         *)
(* `lost` (a history variable) says that something happened which the      *)
(* state file cannot know of: a message Discord took was not recorded, or  *)
(* a save overwrote another process's.  A recorded message clears it.      *)
(* Once `settled`, the outside is calm: every new decision carries the     *)
(* recommendation `target`, Discord answers, and nobody is killed.         *)
(***************************************************************************)
EXTENDS Integers

CONSTANTS
  Proc,        \* processes that run cycles with --notify
  Snapshots,   \* the decisions: [recommendation, confidence]
  NoSnapshot,  \* None
  Delta,       \* confidence_significant_delta
  Window,      \* min_seconds_between_confidence_alerts, in ticks
  Attempts,    \* max_attempts of the webhook client
  MaxPending   \* bound: pending alerts are counted up to this

ASSUME NotificationAssumption ==
  /\ Snapshots # {}
  /\ NoSnapshot \notin Snapshots
  /\ Delta \in Nat
  /\ Window \in Nat \ {0}
  /\ Attempts \in Nat \ {0}
  /\ MaxPending \in Nat \ {0}

VARIABLES
  pc,         \* where each process is
  snapshot,   \* the decision of its cycle
  next,       \* the state it is going to save
  trigger,    \* why it publishes
  attempt,    \* tries of the webhook so far
  delivered,  \* whether Discord took a try of this message (history)
  stale,      \* whether the file moved on since it loaded it (history)
  state,      \* the notification state file
  shown,      \* the last decision Discord shows
  shownAge,   \* ticks since Discord took it, up to Window (history)
  lost,       \* see above (history)
  settled, target

procVars == <<pc, snapshot, next, trigger, attempt, delivered, stale>>
worldVars == <<settled, target>>
vars == <<pc, snapshot, next, trigger, attempt, delivered, stale,
          state, shown, shownAge, lost, settled, target>>

Maybe == Snapshots \cup {NoSnapshot}

\* alertAge is Window + 1 for "no alert yet" (last_alert_at is None).
NotificationState ==
  [evaluated : Maybe, notified : Maybe, alertAge : 0 .. Window + 1, pending : 0 .. MaxPending]

Blank == [evaluated |-> NoSnapshot, notified |-> NoSnapshot,
          alertAge |-> Window + 1, pending |-> 0]

Init ==
  /\ pc = [p \in Proc |-> "idle"]
  /\ snapshot = [p \in Proc |-> NoSnapshot]
  /\ next = [p \in Proc |-> Blank]
  /\ trigger = [p \in Proc |-> "none"]
  /\ attempt = [p \in Proc |-> 0]
  /\ delivered = [p \in Proc |-> FALSE]
  /\ stale = [p \in Proc |-> FALSE]
  /\ state = Blank
  /\ shown = NoSnapshot
  /\ shownAge = Window
  /\ lost = FALSE
  /\ settled = FALSE
  /\ target \in {s.recommendation : s \in Snapshots}

(***************************************************************************)
(* _select_trigger and _should_consolidate.  The orchestrator passes no    *)
(* events, and send_initial_snapshot is false.                             *)
(***************************************************************************)
Distance(a, b) == IF a > b THEN a - b ELSE b - a

Reference(st) == IF st.notified # NoSnapshot THEN st.notified ELSE st.evaluated

Trigger(s, st) ==
  CASE st.evaluated = NoSnapshot -> "none"
    [] /\ st.evaluated # NoSnapshot
       /\ s.recommendation # st.evaluated.recommendation -> "changed"
    [] /\ st.evaluated # NoSnapshot
       /\ s.recommendation = st.evaluated.recommendation
       /\ Distance(s.confidence, Reference(st).confidence) >= Delta -> "confidence"
    [] OTHER -> "none"

\* How a bug would consolidate: by the window alone.
ConsolidateAny(t, st) == t # "none" /\ st.alertAge < Window

Consolidate(t, st) == t = "confidence" /\ st.alertAge < Window

Queued(s, st) ==
  [st EXCEPT !.evaluated = s, !.pending = IF @ < MaxPending THEN @ + 1 ELSE @]

\* How a bug would record a sent alert: the decision only as notified.
SentUnevaluated(s, st) == [st EXCEPT !.notified = s, !.alertAge = 0, !.pending = 0]

\* How a bug would record a sent alert: without its time.
SentUntimed(s, st) == [evaluated |-> s, notified |-> s, alertAge |-> st.alertAge, pending |-> 0]

\* What _publish_recommendation saves of a message Discord accepted.
Sent(s, st) == [evaluated |-> s, notified |-> s, alertAge |-> 0, pending |-> 0]

-----------------------------------------------------------------------------
Goto(p, place) == pc' = [pc EXCEPT ![p] = place]

\* Everyone else who has loaded the file no longer has the latest.
MakeStale(p) ==
  stale' = [q \in Proc |-> q # p /\ (stale[q] \/ pc[q] \in {"publishing", "saving"})]

\* A cycle reaches the notification engine with its decision.
Decide(p) ==
  /\ pc[p] = "idle"
  /\ \E s \in Snapshots :
       /\ settled => s.recommendation = target
       /\ snapshot' = [snapshot EXCEPT ![p] = s]
  /\ Goto(p, "loading")
  /\ UNCHANGED <<next, trigger, attempt, delivered, stale, state, shown, shownAge,
                 lost, worldVars>>

\* The state is loaded and the trigger chosen: nothing to say or to queue is
\* saved at once, anything else is published first.
LoadState(p) ==
  /\ pc[p] = "loading"
  /\ LET s == snapshot[p]
         t == Trigger(s, state)
     IN  /\ trigger' = [trigger EXCEPT ![p] = t]
         /\ IF t # "none" /\ ~Consolidate(t, state)
              THEN /\ Goto(p, "publishing")
                   /\ next' = [next EXCEPT ![p] = state]
              ELSE /\ Goto(p, "saving")
                   /\ next' = [next EXCEPT ![p] =
                        IF t = "none" THEN [state EXCEPT !.evaluated = s]
                                      ELSE Queued(s, state)]
  /\ attempt' = [attempt EXCEPT ![p] = 0]
  /\ delivered' = [delivered EXCEPT ![p] = FALSE]
  /\ stale' = [stale EXCEPT ![p] = FALSE]
  /\ UNCHANGED <<snapshot, state, shown, shownAge, lost, worldVars>>

\* The message arrives in the channel.
Show(p) ==
  /\ shown' = snapshot[p]
  /\ shownAge' = 0

\* Discord accepts the message and says so.
Accepted(p) ==
  /\ pc[p] = "publishing"
  /\ Show(p)
  /\ next' = [next EXCEPT ![p] = Sent(snapshot[p], next[p])]
  /\ delivered' = [delivered EXCEPT ![p] = TRUE]
  /\ Goto(p, "saving")
  /\ UNCHANGED <<snapshot, trigger, attempt, stale, state, lost, worldVars>>

\* The cycle is over, and its locals are gone.
Return(p) ==
  /\ Goto(p, "idle")
  /\ snapshot' = [snapshot EXCEPT ![p] = NoSnapshot]
  /\ next' = [next EXCEPT ![p] = Blank]
  /\ trigger' = [trigger EXCEPT ![p] = "none"]
  /\ attempt' = [attempt EXCEPT ![p] = 0]
  /\ delivered' = [delivered EXCEPT ![p] = FALSE]

\* The message is given up; if Discord `took` a try of it, that is lost.
GiveUp(p, took) ==
  /\ Return(p)
  /\ IF took THEN lost' = TRUE /\ MakeStale(p) ELSE lost' = lost /\ stale' = [stale EXCEPT ![p] = FALSE]

\* How a bug would count tries: one too many.
LastTryLate(p) == attempt[p] >= Attempts

LastTry(p) == attempt[p] + 1 >= Attempts

\* 429, a network error or a timeout: the next try, or FAILED after the last.
\* A try that timed out may have arrived.
TryFails(p) ==
  /\ pc[p] = "publishing"
  /\ ~settled
  /\ \E took \in BOOLEAN :
       /\ IF took THEN Show(p) ELSE UNCHANGED <<shown, shownAge>>
       /\ IF LastTry(p)
            THEN GiveUp(p, delivered[p] \/ took)
            ELSE /\ attempt' = [attempt EXCEPT ![p] = @ + 1]
                 /\ delivered' = [delivered EXCEPT ![p] = @ \/ took]
                 /\ UNCHANGED <<pc, snapshot, next, trigger, lost, stale>>
  /\ UNCHANGED <<state, worldVars>>

\* Any other HTTP error, or no webhook URL: FAILED at once, nothing is saved.
Refused(p) ==
  /\ pc[p] = "publishing"
  /\ ~settled
  /\ GiveUp(p, delivered[p])
  /\ UNCHANGED <<state, shown, shownAge, worldVars>>

\* The state is saved over whatever is in the file.
SaveState(p) ==
  /\ pc[p] = "saving"
  /\ state' = next[p]
  /\ lost' = IF stale[p] THEN TRUE ELSE IF delivered[p] THEN FALSE ELSE lost
  /\ MakeStale(p)
  /\ Return(p)
  /\ UNCHANGED <<shown, shownAge, worldVars>>

\* The save raises (ContinuousRunner logs it and goes on), or p is killed.
Abort(p) ==
  /\ pc[p] # "idle"
  /\ ~settled
  /\ GiveUp(p, delivered[p])
  /\ UNCHANGED <<state, shown, shownAge, worldVars>>

\* Time passes: ages of the alert in the file and in the channel.
Older(st) == [st EXCEPT !.alertAge = IF @ < Window THEN @ + 1 ELSE @]

Tick ==
  /\ state' = Older(state)
  /\ next' = [p \in Proc |-> Older(next[p])]
  /\ shownAge' = IF shownAge < Window THEN shownAge + 1 ELSE shownAge
  /\ UNCHANGED <<pc, snapshot, trigger, attempt, delivered, stale, shown, lost, worldVars>>

Settle ==
  /\ ~settled
  /\ settled' = TRUE
  /\ UNCHANGED <<procVars, state, shown, shownAge, lost, target>>

Step(p) == LoadState(p) \/ Accepted(p) \/ TryFails(p) \/ Refused(p) \/ SaveState(p)

Next ==
  \/ \E p \in Proc : Decide(p) \/ Step(p) \/ Abort(p)
  \/ Tick
  \/ Settle

Spec == Init /\ [][Next]_vars

\* Cycles go on and come again, and time passes; nothing has to settle.
FairSpec ==
  /\ Spec
  /\ \A p \in Proc : WF_vars(Decide(p)) /\ WF_vars(Step(p))
  /\ WF_vars(Tick)
-----------------------------------------------------------------------------
TypeOK ==
  /\ pc \in [Proc -> {"idle", "loading", "publishing", "saving"}]
  /\ snapshot \in [Proc -> Maybe]
  /\ next \in [Proc -> NotificationState]
  /\ trigger \in [Proc -> {"none", "changed", "confidence"}]
  /\ attempt \in [Proc -> 0 .. Attempts - 1]
  /\ delivered \in [Proc -> BOOLEAN]
  /\ stale \in [Proc -> BOOLEAN]
  /\ state \in NotificationState
  /\ shown \in Maybe
  /\ shownAge \in 0 .. Window
  /\ lost \in BOOLEAN /\ settled \in BOOLEAN

\* Between Discord taking its message and the record of it.
InFlight(p) == pc[p] \in {"publishing", "saving"} /\ delivered[p]

\* The file knows what Discord shows: without a lost record the recommendation
\* last shown is the one the next cycle compares with, so a change after it is
\* never taken for no change.
RecordMatchesDiscord ==
  (shown # NoSnapshot /\ ~lost /\ \A p \in Proc : ~InFlight(p))
    => state.evaluated # NoSnapshot /\ state.evaluated.recommendation = shown.recommendation

\* Cumulative drift is measured from the last alert: no recommendation is
\* recorded as evaluated under another one as notified, whatever processes
\* overwrite each other's state.
OneRecommendationOnFile ==
  state.notified # NoSnapshot =>
    state.evaluated.recommendation = state.notified.recommendation

\* A mere confidence update reaches Discord only when the last message is at
\* least Window old, as far as one process at a time sends and none is lost.
ConfidenceAlertsSpaced ==
  [][\A p \in Proc :
       /\ Accepted(p) /\ trigger[p] = "confidence"
       /\ ~lost /\ ~stale[p] /\ attempt[p] = 0
       /\ \A q \in Proc : ~InFlight(q)
       => shown = NoSnapshot \/ shownAge = Window]_vars

\* A change of recommendation is not swallowed: when the outside has settled
\* and no record is lost any more, Discord ends up showing the recommendation
\* that holds, however many attempts failed and cycles were cut before.
ChangeReachesDiscord ==
  <>[](settled /\ ~lost)
    => <>[](shown = NoSnapshot \/ shown.recommendation = target)
===============================================================================
