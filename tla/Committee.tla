------------------------------ MODULE Committee ------------------------------
(***************************************************************************)
(* AdversarialCommittee.deliberate (app/ai/committee.py) over the client of *)
(* LLMClient and the arithmetic of Consensus.                              *)
(*                                                                         *)
(* A deliberation locks one provider of the chain and asks the four        *)
(* members in turn; a member that gets no answer fails the whole cycle,    *)
(* which starts over with the next provider.  When the chain is used up    *)
(* every member votes once more with no provider locked (stage             *)
(* "unlocked"), and a member that again gets no answer abstains.           *)
(*                                                                         *)
(* run-forever deliberates again and again on one client, so the circuits  *)
(* survive from one deliberation to the next.                              *)
(***************************************************************************)
EXTENDS LLMClient, Consensus

CONSTANTS
  Preferred,  \* "groq", the preferred provider of every AI member
  Ballots,    \* what an LLM may answer, as ballots
  Desks,      \* what the desk reports may add up to: [bullish, bearish, some]
  Contexts    \* contexts, each as the members whose prompt it makes too long

ASSUME CommitteeAssumption ==
  /\ AIProviders = Provider
  /\ Deterministic \notin Provider
  /\ Fallback \notin Provider
  /\ Preferred \in Provider \cup {NoProvider}
  /\ Ballots \subseteq Ballot
  /\ Desks \subseteq [bullish : Nat, bearish : Nat, some : BOOLEAN]
  /\ Contexts \subseteq SUBSET AIMember
  /\ Contexts # {}
  /\ Enabled \cap Supported # {}

VARIABLES
  stage,    \* "concluded", "locked" or "unlocked"
  chain,    \* provider_chain of this deliberation
  at,       \* index in it of the locked provider
  desk,     \* the anchor's ballot: the desk reports are fixed for a deliberation
  tooLong,  \* the members whose compressed prompt exceeds the token limit
  votes,    \* cycle_votes, or votes in the last round
  report    \* the last report

committeeVars == <<stage, chain, at, desk, tooLong, votes, report>>
vars == <<failures, req, sinceFail, healed, stage, chain, at, desk, tooLong, votes, report>>

Vote == [direction : Direction, confidence : Percent,
         provider : Provider \cup {Deterministic, Fallback}]

NoReport == [provider |-> "none", recommendation |-> "WAIT", confidence |-> 0,
             level |-> "fragmented", adjustment |-> 0]

Neutral == [direction |-> "WAIT", confidence |-> 30]

Init ==
  /\ ClientInit
  /\ stage = "concluded"
  /\ chain = <<>>
  /\ at = 1
  /\ desk = Neutral
  /\ tooLong = {}
  /\ votes = <<>>
  /\ report = NoReport

\* The member whose turn it is.
Turn == Len(votes) + 1

\* force_provider of the member's call.
LockedProvider == IF stage = "locked" THEN chain[at] ELSE NoProvider

-----------------------------------------------------------------------------
\* deliberate is called: `deep` is the research desk's escalation.
Deliberate(deep) ==
  /\ stage = "concluded"
  /\ chain' = ProviderChain(deep)
  /\ at' = 1
  /\ stage' = IF chain' = <<>> THEN "unlocked" ELSE "locked"
  /\ \E d \in Desks : desk' = DeskVote(d.bullish, d.bearish, d.some)
  /\ tooLong' \in Contexts
  /\ votes' = <<>>
  /\ UNCHANGED <<report, failures, req, sinceFail, healed>>

\* DeterministicMember.vote.
AnchorVotes ==
  /\ stage # "concluded"
  /\ Turn = Anchor
  /\ votes' = Append(votes, Cast(desk, Deterministic))
  /\ UNCHANGED <<stage, chain, at, desk, tooLong, report, failures, req, sinceFail, healed>>

\* _LLMVotingMember.vote calls complete.  Deep reasoning is asked of the
\* locked cycles only, where the forced provider overrules it.
AskMember ==
  /\ stage # "concluded"
  /\ Turn \in AIMember \ tooLong
  /\ StartRequest(RequestOrder(LockedProvider, FALSE, Preferred))
  /\ UNCHANGED committeeVars

\* The completion is there.
MemberVotes ==
  /\ req.phase = "answered"
  /\ \E b \in Ballots : votes' = Append(votes, Cast(b, req.by))
  /\ Release
  /\ UNCHANGED <<stage, chain, at, desk, tooLong, report, failures, sinceFail, healed>>

\* The member's vote is _unavailable_vote: AIProviderError, or its prompt is
\* too long even compressed and nobody is asked.
NoAnswer == req.phase = "failed" \/ (req.phase = "idle" /\ Turn \in tooLong)

\* How a bug would go on: back to the first provider after the last.
CycleWraps ==
  /\ stage = "locked"
  /\ NoAnswer
  /\ votes' = <<>>
  /\ at' = 1 + (at % Len(chain))
  /\ Release
  /\ UNCHANGED <<stage, chain, desk, tooLong, report, failures, sinceFail, healed>>

\* An abstention while a provider is locked: the cycle has failed.
CycleFails ==
  /\ stage = "locked"
  /\ NoAnswer
  /\ votes' = <<>>
  /\ IF at < Len(chain)
       THEN at' = at + 1 /\ stage' = "locked"
       ELSE at' = at /\ stage' = "unlocked"
  /\ Release
  /\ UNCHANGED <<chain, desk, tooLong, report, failures, sinceFail, healed>>

\* An abstention in the last round counts as the member's vote.
MemberAbstains ==
  /\ stage = "unlocked"
  /\ NoAnswer
  /\ votes' = Append(votes, UnavailableVote(desk))
  /\ Release
  /\ UNCHANGED <<stage, chain, at, desk, tooLong, report, failures, sinceFail, healed>>

\* Four votes: the consensus and its report.
Conclude ==
  /\ stage # "concluded"
  /\ Turn \notin Member
  /\ report' = Report(votes)
  /\ stage' = "concluded"
  /\ UNCHANGED <<chain, at, desk, tooLong, votes, failures, req, sinceFail, healed>>

CommitteeStep ==
  \/ AnchorVotes
  \/ AskMember
  \/ MemberVotes
  \/ CycleFails
  \/ MemberAbstains
  \/ Conclude
  \/ ClientStep /\ UNCHANGED committeeVars

Outside == (Tick \/ Heal) /\ UNCHANGED committeeVars

Next ==
  \/ \E deep \in BOOLEAN : Deliberate(deep)
  \/ CommitteeStep
  \/ Outside

\* A call always returns (every one has a timeout), run-forever deliberates
\* again after an interval, and time passes.  Nothing makes a provider heal.
Fairness ==
  /\ WF_vars(\E deep \in BOOLEAN : Deliberate(deep))
  /\ WF_vars(CommitteeStep)
  /\ WF_vars(Tick /\ UNCHANGED committeeVars)

Spec == Init /\ [][Next]_vars
FairSpec == Spec /\ Fairness

-----------------------------------------------------------------------------
TypeOK ==
  /\ ClientTypeOK
  /\ stage \in {"concluded", "locked", "unlocked"}
  /\ chain \in Seq(Provider)
  /\ at \in Nat \ {0}
  /\ desk \in Ballot
  /\ tooLong \subseteq AIMember
  /\ votes \in Seq(Vote) /\ Len(votes) <= 4
  /\ report.confidence \in Percent

\* While a provider is locked no vote comes from another one, whatever
\* circuits open and expire meanwhile, and none is an abstention: a cycle
\* that is accepted is one provider's, whole.  (README, "Provider routing".)
CycleLocked ==
  stage = "locked" =>
    \A m \in 2 .. Len(votes) : votes[m].provider = chain[at]

\* No provider is called within ResetAge ticks of its last failure, by any
\* member of this or a later deliberation, locked or not.
CircuitRespected ==
  [][req.phase = "choosing" /\ req'.phase = "calling"
       => sinceFail[Head(req.order)] = ResetAge]_vars

\* Unless no member could ask at all, a report without any AI vote means every
\* provider that could be asked has failed and is circuit-broken still, or
\* only just past it: the committee never gives up on a provider untried.
FallbackOnlyAfterExhaustion ==
  [][report' # report /\ report'.provider = "deterministic_fallback" /\ tooLong # AIMember
       => \A p \in {Configured[i] : i \in DOMAIN Configured} \cap Enabled \cap Supported :
            p \in DOMAIN failures]_vars

\* Every deliberation ends, whatever the providers do.
DeliberationEnds == stage # "concluded" ~> stage = "concluded"

\* Once a provider answers for good, the committee is back to AI reports for
\* good: no circuit, order of providers, failing neighbour or member whose
\* prompt is too long keeps it out, as long as some member can ask.
AIRecovers ==
  <>[](healed /\ tooLong # AIMember) => <>[](report.provider # "deterministic_fallback")
==============================================================================
