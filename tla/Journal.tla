-------------------------------- MODULE Journal --------------------------------
(***************************************************************************)
(* What a decision journal promises (DecisionJournalRepository in          *)
(* app/application/decision_journal.py): decisions, newest first, to which *)
(* one is added at a time, and of which the MaxRecords newest are kept.    *)
(***************************************************************************)
EXTENDS Naturals, Sequences

CONSTANTS
  Report,     \* the decisions
  MaxRecords  \* how many are kept

VARIABLE log  \* the journal, newest first

\* The MaxRecords newest decisions of a log.
Newest(l) == IF Len(l) > MaxRecords THEN SubSeq(l, 1, MaxRecords) ELSE l

Init == log = <<>>

AppendDecision(report) == log' = Newest(<<report>> \o log)

Next == \E report \in Report : AppendDecision(report)

Spec == Init /\ [][Next]_log
================================================================================
