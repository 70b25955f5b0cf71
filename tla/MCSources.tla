------------------------------- MODULE MCSources -------------------------------
(***************************************************************************)
(* Times to live scaled down in their order: an hourly bar spans more ticks *)
(* than its entry lives, a daily entry lives as long as an hourly bar.      *)
(***************************************************************************)
EXTENDS Sources

MCLength == [h1 |-> 2, h4 |-> 4, d1 |-> 8]
MCTTL == [k \in Key |-> IF k \in {"h4", "d1", "cot", "newsapi"} THEN 2 ELSE 1]
================================================================================
