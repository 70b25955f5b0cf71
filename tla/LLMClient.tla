------------------------------ MODULE LLMClient ------------------------------
(***************************************************************************)
(* LLMJsonClient (app/ai/agents/llm_client.py): one completion is asked of *)
(* the configured providers in order, of each provider's models in order,  *)
(* through an HTTP client that retries by itself; a provider whose models  *)
(* are used up has its circuit opened and is skipped until the circuit's   *)
(* age reaches ResetAge.                                                   *)
(*                                                                         *)
(* `failures` is the dict _provider_failures: its domain is the set of     *)
(* providers with an entry, its value the entry's age in ticks (counted up *)
(* to ResetAge, where is_expired begins to hold).  A completion is         *)
(* synchronous, so there is one request at a time.  What a provider        *)
(* answers is chosen freely, except that once `healed` holds the providers *)
(* in Reliable always end up answering: an assumption about the outside,   *)
(* used by liveness only.                                                  *)
(***************************************************************************)
EXTENDS Naturals, Sequences, FiniteSets

CONSTANTS
  Provider,     \* the providers of the configuration
  Configured,   \* ai_reasoning.providers, a sequence of Provider
  Enabled,      \* those whose configuration says enabled
  Supported,    \* those _calls has an implementation for
  Models,       \* number of models of each provider
  DeepProvider, \* "opencode": first when deep reasoning is required
  HttpRetries,  \* UrlLibHttpClient's retry_attempts
  ResetAge,     \* _CIRCUIT_RESET_SECONDS in ticks
  Reliable,     \* providers that answer for good once healed
  NoProvider    \* None

ASSUME ClientAssumption ==
  /\ Configured \in Seq(Provider)
  /\ Enabled \subseteq Provider
  /\ Supported \subseteq Provider
  /\ Models \in [Provider -> Nat \ {0}]
  /\ HttpRetries \in Nat
  /\ ResetAge \in Nat \ {0}
  /\ Reliable \subseteq Provider
  /\ NoProvider \notin Provider

VARIABLES
  failures,  \* _provider_failures: the open (or expired) circuits and their age
  req,       \* the completion being asked for
  sinceFail, \* ticks since the provider last failed, up to ResetAge (history)
  healed     \* whether the providers in Reliable have recovered for good

clientVars == <<failures, req, sinceFail, healed>>

Phase == {"idle", "choosing", "calling", "answered", "failed"}

Request ==
  [phase : Phase,
   order : Seq(Provider),           \* providers not yet tried
   model : Nat,                     \* the model being called, from 1
   tries : 0 .. HttpRetries,        \* tries of that call that failed
   by    : Provider \cup {NoProvider}]

NoRequest == [phase |-> "idle", order |-> <<>>, model |-> 1, tries |-> 0, by |-> NoProvider]

(***************************************************************************)
(* The order of providers.                                                 *)
(***************************************************************************)
\* [p for p in s if p in T], by ranks: the provers know nothing of SelectSeq.
Rank(s, T, i) == Cardinality({j \in 1 .. i : s[j] \in T})

Among(s, T) ==
  [k \in 1 .. Rank(s, T, Len(s)) |->
     s[CHOOSE i \in 1 .. Len(s) : s[i] \in T /\ Rank(s, T, i) = k]]

\* list.sort with key p != first: stable, so the others keep their order.
Preferring(first, s) == Among(s, {first}) \o Among(s, Provider \ {first})

\* get_provider_chain, which the committee calls without a preference.
ProviderChain(deep) ==
  Among(IF deep THEN Preferring(DeepProvider, Configured) ELSE Configured, Enabled)

\* How a bug would route: the locked provider is only tried first.
OrderPreferringForced(force, deep, preferred) ==
  IF force # NoProvider THEN Preferring(force, Configured) ELSE Preferring(preferred, Configured)

\* The order `complete` walks: the forced provider alone, or all of them.
RequestOrder(force, deep, preferred) ==
  IF force # NoProvider THEN Among(Configured, {force})
  ELSE IF deep THEN Preferring(DeepProvider, Configured)
  ELSE IF preferred # NoProvider THEN Preferring(preferred, Configured)
  ELSE Configured

(***************************************************************************)
(* The circuit breaker.                                                    *)
(***************************************************************************)
\* How a bug would read the clock: a circuit already closed a tick early.
ExpiredEarly(p) == failures[p] + 1 >= ResetAge

Expired(p) == failures[p] >= ResetAge

CircuitOpen(p) == p \in DOMAIN failures /\ ~Expired(p)

Without(f, p) == [q \in DOMAIN f \ {p} |-> f[q]]

With(f, p, v) == [q \in DOMAIN f \cup {p} |-> IF q = p THEN v ELSE f[q]]

(***************************************************************************)
(* Statuses.  UrlLibHttpClient.post turns a 5xx answer and a timeout, once *)
(* its own tries are used up, into status 599; a 4xx answer it returns as  *)
(* it is, and any other exception the callers report as network_error.     *)
(***************************************************************************)
Retryable == {"429", "500", "502", "503", "504", "timeout", "invalid_json", "schema_invalid"}

Unusable == {"429", "invalid_json", "schema_invalid", "4xx", "network_error",
             "missing_api_key", "lock_timeout"}

\* What post returns for a server error or timeout on its last try.
Exhausted == "599"

\* _RETRYABLE_STATUS and a model left in provider_cfg.models.
CanTryNextModel(p, status) == status \in Retryable /\ req.model < Models[p]

(***************************************************************************)
(* Actions of the client.                                                  *)
(***************************************************************************)
StartRequest(order) ==
  /\ req.phase = "idle"
  /\ req' = [NoRequest EXCEPT !.phase = "choosing", !.order = order]
  /\ UNCHANGED <<failures, sinceFail, healed>>

\* The caller takes the completion, or catches AIProviderError.
Release == req' = NoRequest

\* How a bug would skip: passing over a provider opens its circuit anew.
SkipRefreshing ==
  /\ req.phase = "choosing"
  /\ req.order # <<>>
  /\ CircuitOpen(Head(req.order))
  /\ req' = [req EXCEPT !.order = Tail(@)]
  /\ failures' = With(failures, Head(req.order), 0)
  /\ UNCHANGED <<sinceFail, healed>>

\* A provider that is disabled, not implemented or circuit-broken is passed over.
SkipProvider ==
  /\ req.phase = "choosing"
  /\ req.order # <<>>
  /\ LET p == Head(req.order)
     IN  p \notin Enabled \/ p \notin Supported \/ CircuitOpen(p)
  /\ req' = [req EXCEPT !.order = Tail(@)]
  /\ UNCHANGED <<failures, sinceFail, healed>>

\* _try_provider begins; an expired circuit is deleted first.
CallProvider ==
  /\ req.phase = "choosing"
  /\ req.order # <<>>
  /\ LET p == Head(req.order)
     IN  /\ p \in Enabled \cap Supported
         /\ ~CircuitOpen(p)
         /\ failures' = Without(failures, p)
  /\ req' = [req EXCEPT !.phase = "calling", !.model = 1, !.tries = 0]
  /\ UNCHANGED <<sinceFail, healed>>

\* The completion parses and is schema-valid.
ValidReply ==
  /\ req.phase = "calling"
  /\ req' = [req EXCEPT !.phase = "answered", !.by = Head(req.order)]
  /\ UNCHANGED <<failures, sinceFail, healed>>

\* How a bug would handle it: only a permanent failure opens the circuit.
ModelFailsQuietly(status) ==
  LET p == Head(req.order)
  IN  IF CanTryNextModel(p, status)
        THEN /\ req' = [req EXCEPT !.model = @ + 1, !.tries = 0]
             /\ UNCHANGED <<failures, sinceFail>>
        ELSE /\ req' = [req EXCEPT !.phase = "choosing", !.order = Tail(@)]
             /\ failures' = IF status \in Retryable THEN failures ELSE With(failures, p, 0)
             /\ sinceFail' = [sinceFail EXCEPT ![p] = 0]

\* A call of the current model fails with `status`: the next model, or the
\* provider's circuit opens and the next provider is chosen.
ModelFails(status) ==
  LET p == Head(req.order)
  IN  IF CanTryNextModel(p, status)
        THEN /\ req' = [req EXCEPT !.model = @ + 1, !.tries = 0]
             /\ UNCHANGED <<failures, sinceFail>>
        ELSE /\ ~(healed /\ p \in Reliable)
             /\ req' = [req EXCEPT !.phase = "choosing", !.order = Tail(@),
                                   !.model = 1, !.tries = 0]
             /\ failures' = With(failures, p, 0)
             /\ sinceFail' = [sinceFail EXCEPT ![p] = 0]

UnusableReply ==
  /\ req.phase = "calling"
  /\ \E status \in Unusable : ModelFails(status)
  /\ UNCHANGED healed

\* A server error or a timeout that the HTTP client tries again.
HttpRetry ==
  /\ req.phase = "calling"
  /\ req.tries < HttpRetries
  /\ req' = [req EXCEPT !.tries = @ + 1]
  /\ UNCHANGED <<failures, sinceFail, healed>>

\* A server error or a timeout on the HTTP client's last try.
HttpExhausted ==
  /\ req.phase = "calling"
  /\ req.tries = HttpRetries
  /\ ModelFails(Exhausted)
  /\ UNCHANGED healed

\* No provider is left: AIProviderError.
ChainExhausted ==
  /\ req.phase = "choosing"
  /\ req.order = <<>>
  /\ req' = [req EXCEPT !.phase = "failed"]
  /\ UNCHANGED <<failures, sinceFail, healed>>

ClientStep ==
  \/ SkipProvider
  \/ CallProvider
  \/ ValidReply
  \/ UnusableReply
  \/ HttpRetry
  \/ HttpExhausted
  \/ ChainExhausted

(***************************************************************************)
(* The outside: time passes, and the reliable providers recover.           *)
(***************************************************************************)
Older(age) == IF age < ResetAge THEN age + 1 ELSE age

Tick ==
  /\ \E p \in Provider : sinceFail[p] < ResetAge
  /\ failures' = [p \in DOMAIN failures |-> Older(failures[p])]
  /\ sinceFail' = [p \in Provider |-> Older(sinceFail[p])]
  /\ UNCHANGED <<req, healed>>

Heal ==
  /\ ~healed
  /\ healed' = TRUE
  /\ UNCHANGED <<failures, req, sinceFail>>

ClientInit ==
  /\ failures = [p \in {} |-> 0]
  /\ req = NoRequest
  /\ sinceFail = [p \in Provider |-> ResetAge]
  /\ healed = FALSE

ClientTypeOK ==
  /\ failures \in UNION {[S -> 0 .. ResetAge] : S \in SUBSET Provider}
  /\ req \in Request
  /\ sinceFail \in [Provider -> 0 .. ResetAge]
  /\ healed \in BOOLEAN
==============================================================================
