----------------------------- MODULE MCJsonJournal -----------------------------
(***************************************************************************)
(* Instances of JsonJournal: run-forever as the only writer beside two     *)
(* dashboard threads, one that takes the lock and one that does not (the   *)
(* writer's own latest is the first thread's); and run-forever beside a    *)
(* run-once.                                                               *)
(***************************************************************************)
EXTENDS JsonJournal

OneWriter == [p \in Proc |-> CASE p = "forever" -> {"append"}
                               [] p = "health"  -> {"latest"}
                               [] p = "history" -> {"list"}]

TwoWriters == [p \in Proc |-> {"append", "latest"}]
================================================================================
