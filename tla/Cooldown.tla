-------------------------------- MODULE Cooldown --------------------------------
(***************************************************************************)
(* GDELT's cooldown (app/infrastructure/providers/gdelt_provider.py): the  *)
(* time of the last request is kept in a class attribute and in a file;    *)
(* the later of the two is read, slept on and written, without a lock.     *)
(* Times are ages in ticks, counted up to Cooldown: older is as good as    *)
(* never.                                                                  *)
(***************************************************************************)
EXTENDS Integers

CONSTANT CooldownTicks
ASSUME CooldownAssumption == CooldownTicks \in Nat \ {0}

VARIABLES
  known,   \* the age of the class attribute, gone when the process ends
  filed,   \* the age of the time in data/gdelt_cooldown.json
  wait,    \* ticks left to sleep
  asked,   \* age of the last request GDELT saw, from whichever process (history)
  excused  \* the file misses a request, or another process asked since this
           \* one looked (history)

coolVars == <<known, filed, wait, asked, excused>>
Age == 0 .. CooldownTicks

CoolInit ==
  /\ known = CooldownTicks /\ filed = CooldownTicks /\ asked = CooldownTicks
  /\ wait = 0
  /\ excused = FALSE

Later(a, b) == IF a < b THEN a ELSE b
Older(a) == Later(a + 1, CooldownTicks)

\* A bug: only the memory of this process is looked at.
RemainingInProcess == CooldownTicks - known

\* How long there is still to wait.
Remaining == CooldownTicks - Later(known, filed)

\* _respect_cooldown reads and begins to sleep.
Look == /\ wait' = Remaining
        /\ UNCHANGED <<known, filed, asked, excused>>

\* It has slept, writes the time (or fails to) and the request goes out.
Ask == /\ known' = 0 /\ asked' = 0 /\ wait' = 0
       /\ \/ filed' = 0 /\ excused' = FALSE
          \/ filed' = filed /\ excused' = TRUE

\* Another process looks, need not wait, and asks.
OtherAsks(looked) ==
  /\ filed = CooldownTicks
  /\ filed' = 0 /\ asked' = 0
  /\ excused' = (excused \/ looked)
  /\ UNCHANGED <<known, wait>>

CoolTick ==
  /\ known' = Older(known) /\ filed' = Older(filed) /\ asked' = Older(asked)
  /\ wait' = IF wait > 0 THEN wait - 1 ELSE 0
  /\ UNCHANGED excused

CoolRestart == /\ known' = CooldownTicks /\ wait' = 0
               /\ UNCHANGED <<filed, asked, excused>>
==================================================================================
