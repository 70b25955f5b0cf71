------------------------------ MODULE CycleProofs ------------------------------
(***************************************************************************)
(* What is filed and traded at the end of a cycle, for any number of       *)
(* processes, any decisions and any length of the paper history: the paper *)
(* account only moves on a decision that the journal holds, of a JSON file *)
(* as long as no two appends overlap; and its history only loses trades    *)
(* where a process writes over another's save.                             *)
(*                                                                         *)
(* Neither action property says enough to be carried from step to step.    *)
(* The inductive invariant adds why a decision, once filed, stays: whoever *)
(* is going to write the journal anew has read it (OnRecord), and is alone *)
(* unless it knows of an overlap (Alone); and that what a process loaded   *)
(* is what the paper file holds unless it is marked stale                  *)
(* (LoadedIsCurrent).                                                      *)
(***************************************************************************)
EXTENDS Cycle, SequenceTheorems, TLAPS

\* Each way of appending is that of its journal.
OwnJournal ==
  \A p \in Proc :
    /\ pc[p] = "read" => ~sqlite
    /\ pc[p] = "inserted" => sqlite

\* Two processes that append to the file at once are both marked.
Alone == \A p, q \in Proc : pc[p] = "read" /\ pc[q] = "read" /\ p # q => clash[p] # "none"

\* A decision beyond the journal is in it, and in what any append is about to
\* write, unless appends have overlapped since.
OnRecord ==
  \A p \in Proc : pc[p] \in {"filed", "save"} /\ clash[p] = "none" =>
    /\ p \in log
    /\ \A q \in Proc : pc[q] = "read" => p \in seen[q] /\ clash[q] = "none"

\* What a process is going to update is what the file holds, or it is marked.
LoadedIsCurrent == \A p \in Proc : pc[p] = "save" /\ ~stale[p] => loaded[p] = paper

Filing == OwnJournal /\ Alone /\ OnRecord

IInv == TypeOK /\ Filing /\ LoadedIsCurrent
-----------------------------------------------------------------------------
\* Histories of closed positions are the sequences of at most MaxClosed.
LEMMA Histories ==
  \A s : s \in UNION {[1 .. n -> Position] : n \in 0 .. MaxClosed}
           <=> s \in Seq(Position) /\ Len(s) <= MaxClosed
<1>1. ASSUME NEW n \in 0 .. MaxClosed, NEW s \in [1 .. n -> Position]
      PROVE  s \in Seq(Position) /\ Len(s) <= MaxClosed
  BY CycleAssumption
<1>2. ASSUME NEW s \in Seq(Position), Len(s) <= MaxClosed
      PROVE  \E n \in 0 .. MaxClosed : s \in [1 .. n -> Position]
  <2>1. Len(s) \in 0 .. MaxClosed /\ s \in [1 .. Len(s) -> Position]
    BY <1>2, LenProperties, CycleAssumption
  <2> QED
    BY <2>1
<1> QED
  BY <1>1, <1>2

\* A new file is a state of the paper account.
LEMMA NewStateIsState == NewState \in PaperState
<1>1. <<>> \in Seq(Position) /\ Len(<<>>) <= MaxClosed
  BY EmptySeq, CycleAssumption
<1> QED
  BY <1>1, Histories DEF NewState, PaperState, NoPosition

\* An update leaves an account, whatever was decided; a sale puts its trade
\* before the others.
LEMMA UpdatedState ==
  ASSUME NEW s \in PaperState, NEW call \in Recommendation
  PROVE  /\ Updated(s, call) \in PaperState
         /\ IF s.open # NoPosition /\ Updated(s, call).open = NoPosition
              THEN \E x \in Position : Updated(s, call).closed = Kept(<<x>> \o s.closed)
              ELSE Updated(s, call).closed = s.closed
<1>0. s.closed \in Seq(Position) /\ Len(s.closed) <= MaxClosed
  BY Histories DEF PaperState
<1>1. CASE s.open = NoPosition /\ call \in OPEN_RECOMMENDATIONS
  BY <1>1 DEF Updated, PaperState, NoPosition
<1>2. CASE s.open # NoPosition /\ call \in CLOSE_RECOMMENDATIONS
  <2> DEFINE x == Closing(s, call)
             longer == <<x>> \o s.closed
  <2>1. x \in Position
    BY <1>2 DEF Closing, Position, PaperState
  <2>2. longer \in Seq(Position) /\ Len(longer) \in Nat
    BY <1>0, <2>1, ConcatProperties
  <2>3. Kept(longer) \in Seq(Position) /\ Len(Kept(longer)) <= MaxClosed
    <3> DEFINE n == IF Len(longer) > MaxClosed THEN MaxClosed ELSE Len(longer)
    <3>1. n \in Nat /\ n <= Len(longer) /\ n <= MaxClosed
      BY <2>2, CycleAssumption
    <3>2. \A i \in 1 .. n : longer[i] \in Position
      BY <2>2, <3>1, ElementOfSeq
    <3>3. SubSeq(longer, 1, n) \in Seq(Position) /\ Len(SubSeq(longer, 1, n)) <= MaxClosed
      BY <3>1, <3>2, SubSeqProperties
    <3> QED
      BY <3>3 DEF Kept
  <2>4. Updated(s, call) = [open |-> NoPosition, closed |-> Kept(longer)]
    BY <1>2 DEF Updated
  <2> HIDE DEF longer, x
  <2>5. Updated(s, call) \in PaperState
    BY <2>3, <2>4, Histories DEF PaperState
  <2> QED
    BY <1>2, <2>1, <2>4, <2>5 DEF longer
<1>3. CASE /\ ~(s.open = NoPosition /\ call \in OPEN_RECOMMENDATIONS)
           /\ ~(s.open # NoPosition /\ call \in CLOSE_RECOMMENDATIONS)
  BY <1>3 DEF Updated
<1> QED
  BY <1>1, <1>2, <1>3

\* While a process writes to the database nobody appends to a file.
LEMMA JournalsApart ==
  ASSUME OwnJournal, NEW p \in Proc, pc[p] = "inserted"
  PROVE  \A q \in Proc : pc[q] # "read"
BY DEF OwnJournal

\* The initial state satisfies the inductive invariant.
LEMMA InitIInv == Init => IInv
<1> SUFFICES ASSUME Init PROVE IInv
  OBVIOUS
<1>1. TypeOK
  <2>1. stale \in [Proc -> BOOLEAN] /\ log \subseteq Proc /\ seen \in [Proc -> SUBSET Proc]
    BY DEF Init
  <2>2. sqlite \in BOOLEAN /\ stop \in BOOLEAN /\ settled \in BOOLEAN
    BY DEF Init
  <2>3. "WAIT" \in Recommendation
    BY DEF Recommendation
  <2> QED
    BY <2>1, <2>2, <2>3, NewStateIsState, CycleAssumption DEF Init, TypeOK
<1>2. Filing /\ LoadedIsCurrent
  BY DEF Init, Filing, OwnJournal, Alone, OnRecord, LoadedIsCurrent
<1> QED
  BY <1>1, <1>2 DEF IInv

\* Where a cycle goes when it is over.
LEMMA RestIsHome ==
  ASSUME NEW p \in Proc
  PROVE  /\ Rest(p) \in {"idle", "sleep", "stopped"}
         /\ Rest(p) # "idle" => p = Runner
BY DEF Rest

\* A cycle that ends, normally or not, leaves the decisions of the others where
\* they were; a failed write may take them away, but only after an overlap.
LEMMA OverFiling ==
  ASSUME TypeOK, Filing, NEW p \in Proc, NEW at \in {"idle", "sleep", "stopped"},
         NEW found \in SUBSET Proc, Over(p, at, found), sqlite' = sqlite,
         found = log \/ (pc[p] = "read" /\ clash[p] # "none")
  PROVE  Filing'
<1> USE DEF Filing, Over, TypeOK
<1>1. OwnJournal' /\ Alone'
  BY DEF OwnJournal, Alone
<1>2. OnRecord'
  BY DEF OnRecord
<1> QED
  BY <1>1, <1>2

\* So does the rest of the invariant, whatever becomes of the connection.
LEMMA OverStep ==
  ASSUME IInv, NEW p \in Proc, NEW at \in {"idle", "sleep", "stopped"},
         at # "idle" => p = Runner, NEW found \in SUBSET Proc, Over(p, at, found),
         found = log \/ (pc[p] = "read" /\ clash[p] # "none"),
         NEW c \in {"plain", "open", "current", "stale", "writing"},
         conn' = [conn EXCEPT ![p] = c],
         UNCHANGED <<stale, sqlite, paper, settled, target>>,
         stop' \in BOOLEAN
  PROVE  IInv'
<1> USE DEF IInv
<1>1. TypeOK'
  BY NewStateIsState DEF Over, TypeOK, Recommendation
<1>2. Filing'
  BY OverFiling
<1>3. LoadedIsCurrent'
  BY DEF Over, TypeOK, LoadedIsCurrent
<1> QED
  BY <1>1, <1>2, <1>3

\* The steps that end a cycle before its trade.
CycleEnds(p) == InsertFails(p) \/ WriteFails(p) \/ NoQuote(p) \/ Fails(p) \/ Kill(p)

LEMMA EndStep ==
  ASSUME IInv, NEW p \in Proc, CycleEnds(p)
  PROVE  IInv'
<1>1. ASSUME InsertFails(p) PROVE IInv'
  <2> DEFINE c == IF p # Runner THEN "plain" ELSE IF conn[p] = "plain" THEN "open" ELSE conn[p]
  <2>1. /\ Over(p, Rest(p), log) /\ conn' = [conn EXCEPT ![p] = c]
        /\ UNCHANGED <<stale, sqlite, paper, settled, target>> /\ stop' = stop
    BY <1>1 DEF InsertFails
  <2>2. c \in {"plain", "open", "current", "stale", "writing"} /\ log \in SUBSET Proc /\ stop \in BOOLEAN
    BY DEF IInv, TypeOK
  <2> HIDE DEF c
  <2> QED
    BY <2>1, <2>2, RestIsHome, OverStep
<1>2. ASSUME WriteFails(p) PROVE IInv'
  <2>1. PICK found \in {log, Version(p), {}} :
          Over(p, Rest(p), found) /\ (found = log \/ clash[p] = "passed")
    BY <1>2 DEF WriteFails
  <2>2. found \in SUBSET Proc /\ stop \in BOOLEAN /\ conn' = [conn EXCEPT ![p] = conn[p]]
        /\ conn[p] \in {"plain", "open", "current", "stale", "writing"}
    BY <1>2, <2>1 DEF WriteFails, IInv, Version, TypeOK
  <2>3. /\ UNCHANGED <<stale, sqlite, paper, settled, target>> /\ stop' \in BOOLEAN
        /\ found = log \/ (pc[p] = "read" /\ clash[p] # "none")
    BY <1>2, <2>1, <2>2 DEF WriteFails
  <2> QED
    BY <2>1, <2>2, <2>3, RestIsHome, OverStep
<1>3. ASSUME NoQuote(p) \/ Fails(p) PROVE IInv'
  <2>1. /\ Over(p, Rest(p), log) /\ conn' = [conn EXCEPT ![p] = Closed(p, Rest(p))]
        /\ UNCHANGED <<stale, sqlite, paper, settled, target>> /\ stop' = stop
    BY <1>3 DEF NoQuote, Fails
  <2>2. /\ Closed(p, Rest(p)) \in {"plain", "open", "current", "stale", "writing"}
        /\ log \in SUBSET Proc /\ stop \in BOOLEAN
    BY DEF IInv, Closed, TypeOK
  <2> QED
    BY <2>1, <2>2, RestIsHome, OverStep
<1>4. ASSUME Kill(p) PROVE IInv'
  <2>1. /\ Over(p, "idle", log) /\ conn' = [conn EXCEPT ![p] = "plain"]
        /\ UNCHANGED <<stale, sqlite, paper, settled, target>>
        /\ stop' \in BOOLEAN /\ log \in SUBSET Proc
    BY <1>4 DEF IInv, Kill, TypeOK
  <2> QED
    BY <2>1, OverStep
<1> QED
  BY <1>1, <1>2, <1>3, <1>4 DEF CycleEnds

\* Every step keeps the invariant.
LEMMA NextIInv == IInv /\ [Next]_vars => IInv'
<1> SUFFICES ASSUME IInv, [Next]_vars PROVE IInv'
  OBVIOUS
<1> USE CycleAssumption DEF IInv, journal
<1> USE DEF Filing, OwnJournal, Alone, OnRecord, LoadedIsCurrent
<1>1. ASSUME NEW p \in Proc, Start(p) PROVE IInv'
  <2>1. PICK d \in Calls : made' = [made EXCEPT ![p] = d]
    BY <1>1 DEF Start
  <2> QED
    BY <1>1, <2>1 DEF Start, TypeOK
<1>2. ASSUME NEW p \in Proc, Look(p) PROVE IInv'
  BY <1>2 DEF Look, TypeOK
<1>3. ASSUME NEW p \in Proc, Insert(p) PROVE IInv'
  BY <1>3 DEF Insert, Locked, TypeOK
<1>5. ASSUME NEW p \in Proc, Commit(p) PROVE IInv'
  <2>1. TypeOK'
    BY <1>5 DEF Commit, TypeOK
  <2>2. \A q \in Proc : pc[q] # "read"
    BY <1>5, JournalsApart DEF Commit
  <2>3. OnRecord'
    BY <1>5, <2>2 DEF Commit, TypeOK
  <2>4. OwnJournal' /\ Alone' /\ LoadedIsCurrent'
    BY <1>5 DEF Commit, TypeOK
  <2> QED
    BY <2>1, <2>3, <2>4
<1>6. ASSUME NEW p \in Proc, Read(p) PROVE IInv'
  <2>1. TypeOK'
    BY <1>6 DEF Read, TypeOK
  <2>2. OwnJournal' /\ Alone' /\ LoadedIsCurrent'
    BY <1>6 DEF Read, Appending, TypeOK
  <2>3. OnRecord'
    BY <1>6 DEF Read, Appending, TypeOK
  <2> QED
    BY <2>1, <2>2, <2>3
<1>7. ASSUME NEW p \in Proc, Write(p) PROVE IInv'
  <2>1. TypeOK'
    BY <1>7 DEF Write, Version, Clobbered, Appending, TypeOK
  <2>2. OwnJournal' /\ Alone' /\ LoadedIsCurrent'
    BY <1>7 DEF Write, Appending, TypeOK
  <2>3. OnRecord'
    BY <1>7 DEF Write, Version, Appending, TypeOK
  <2> QED
    BY <2>1, <2>2, <2>3
<1>9. ASSUME NEW p \in Proc, Load(p) PROVE IInv'
  BY <1>9 DEF Load, TypeOK
<1>11. ASSUME NEW p \in Proc, Save(p) PROVE IInv'
  <2>1. paper' \in PaperState
    BY <1>11, UpdatedState DEF Save, TypeOK
  <2>2. TypeOK'
    <3>1. /\ pc' = [pc EXCEPT ![p] = Rest(p)] /\ conn' = [conn EXCEPT ![p] = Closed(p, Rest(p))]
          /\ UNCHANGED <<sqlite, stop, settled, target>>
          /\ stale' \in [Proc -> BOOLEAN]
      BY <1>11 DEF Save, Over, TypeOK
    <3>2. /\ made' \in [Proc -> Recommendation] /\ loaded' \in [Proc -> PaperState]
          /\ log' \subseteq Proc /\ seen' \in [Proc -> SUBSET Proc]
          /\ clash' \in [Proc -> {"none", "overlapped", "passed"}]
      BY <1>11, NewStateIsState DEF Save, Over, TypeOK, Recommendation
    <3>3. /\ pc' \in [Proc -> {"idle", "run", "looked", "inserted", "read", "filed", "save",
                               "sleep", "stopped"}]
          /\ \A q \in Proc : pc'[q] \in {"sleep", "stopped"} => q = Runner
      BY <3>1, RestIsHome DEF TypeOK
    <3>4. conn' \in [Proc -> {"plain", "open", "current", "stale", "writing"}]
      BY <3>1 DEF Closed, TypeOK
    <3>5. sqlite' \in BOOLEAN /\ stop' \in BOOLEAN /\ settled' \in BOOLEAN /\ target' \in Recommendation
      BY <3>1 DEF TypeOK
    <3> QED
      BY <2>1, <3>1, <3>2, <3>3, <3>4, <3>5 DEF TypeOK
  <2>3. Filing'
    BY <1>11, RestIsHome, OverFiling DEF Save, TypeOK
  <2>4. LoadedIsCurrent'
    BY <1>11, RestIsHome DEF Save, Over, TypeOK
  <2> QED
    BY <2>2, <2>3, <2>4
<1>12. ASSUME NEW p \in Proc, CycleEnds(p) PROVE IInv'
  BY <1>12, EndStep
<1>13. CASE Wake
  BY <1>13 DEF Wake, TypeOK
<1>14. CASE RequestStop
  BY <1>14 DEF RequestStop, TypeOK
<1>15. CASE Leave
  BY <1>15 DEF Leave, TypeOK
<1>16. CASE Settle
  BY <1>16 DEF Settle, TypeOK
<1>17. CASE UNCHANGED vars
  BY <1>17 DEF vars, TypeOK
<1> QED
  BY <1>1, <1>2, <1>3, <1>5, <1>6, <1>7, <1>9, <1>11, <1>12, <1>13, <1>14, <1>15, <1>16, <1>17
  DEF Next, Step, Files, CycleEnds

\* What every reachable state satisfies.
LEMMA Reachable == Spec => []IInv
BY InitIInv, NextIInv, PTL DEF Spec
-----------------------------------------------------------------------------
\* The paper file changes by a save only.
LEMMA PaperMoves ==
  ASSUME [Next]_vars, paper' # paper
  PROVE  \E p \in Proc : Save(p)
BY DEF Next, Step, Files, vars, Start, Look, Insert, InsertFails, Commit, Read, Write,
       WriteFails, Load, NoQuote, Fails, Kill, Wake, RequestStop, Leave, Settle

\* For any processes: whoever moves the paper account has its decision in the
\* journal at that moment, whatever others append and wherever they are killed,
\* unless two appends to the JSON file overlapped.
THEOREM PaperIsFiled == Spec => PaperFollowsJournal
<1> DEFINE Filed == paper' # paper =>
      \E p \in Proc : pc[p] = "save" /\ (p \in log \/ clash[p] # "none")
<1>1. ASSUME IInv, [Next]_vars, paper' # paper PROVE Filed
  <2>1. PICK p \in Proc : Save(p)
    BY <1>1, PaperMoves
  <2>2. pc[p] = "save" /\ (p \in log \/ clash[p] # "none")
    BY <1>1, <2>1 DEF Save, IInv, Filing, OnRecord
  <2> QED
    BY <2>2
<1>2. IInv /\ [Next]_vars => [Filed]_vars
  BY <1>1
<1> QED
  BY <1>2, Reachable, PTL DEF Spec, PaperFollowsJournal

\* For any processes: only a process that writes over what another saved since
\* it loaded can drop closed trades or bring them back.
THEOREM HistoryIsKept == Spec => HistoryGrows
<1> DEFINE Grows ==
      \/ \E p \in Proc : pc[p] = "save" /\ stale[p] /\ pc'[p] # "save"
      \/ IF paper.open # NoPosition /\ paper'.open = NoPosition
         THEN \E x \in Position : paper'.closed = Kept(<<x>> \o paper.closed)
         ELSE paper'.closed = paper.closed
<1>1. ASSUME IInv, [Next]_vars PROVE Grows
  <2>1. CASE paper' = paper
    BY <2>1
  <2>2. ASSUME NEW p \in Proc, Save(p), stale[p] PROVE Grows
    <3>1. pc[p] = "save" /\ pc'[p] # "save"
      BY <1>1, <2>2, RestIsHome DEF Save, Over, IInv, TypeOK
    <3> QED
      BY <2>2, <3>1
  <2>3. ASSUME NEW p \in Proc, Save(p), ~stale[p] PROVE Grows
    <3>1. loaded[p] = paper /\ paper \in PaperState /\ made[p] \in Recommendation
      BY <1>1, <2>3 DEF Save, IInv, TypeOK, LoadedIsCurrent
    <3>2. paper' = Updated(paper, made[p])
      BY <2>3, <3>1 DEF Save
    <3> QED
      BY <3>1, <3>2, UpdatedState
  <2> QED
    BY <1>1, <2>1, <2>2, <2>3, PaperMoves
<1>2. IInv /\ [Next]_vars => [Grows]_vars
  BY <1>1
<1> QED
  BY <1>2, Reachable, PTL DEF Spec, HistoryGrows

\* Types and bounds: the runner alone sleeps or is stopped, and the
\* paper history keeps within its bound.
THEOREM CycleTypes == Spec => []TypeOK
<1>1. IInv => TypeOK
  BY DEF IInv
<1> QED
  BY <1>1, Reachable, PTL
==============================================================================
