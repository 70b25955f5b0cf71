----------------------------- MODULE MCCommittee -----------------------------
(***************************************************************************)
(* The routing instance of Committee: the providers' shape of              *)
(* config/platform.json cut to three, groq first, opencode as the          *)
(* deep-reasoning one, and gemini with its two models; the members say one *)
(* thing, as what they say does not steer the routing (what comes of their *)
(* disagreement is checked in MCDecision).                                 *)
(***************************************************************************)
EXTENDS Committee

MCProvider    == {"groq", "opencode", "gemini"}
MCConfigured  == <<"groq", "opencode", "gemini">>
MCModels      == [p \in Provider |-> IF p = "gemini" THEN 2 ELSE 1]
MCAdjustment  == -8

Buy(c)  == [direction |-> "BUY", confidence |-> c]

LastLong == {{}, {4}}

OneBallot   == {Buy(80)}

OneDesk   == {[bullish |-> 240, bearish |-> 0, some |-> TRUE]}
==============================================================================
