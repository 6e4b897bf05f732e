----------------------------- MODULE Authority -----------------------------
(***************************************************************************)
(* The dual-key delivery decision (pipeline/qc/ai_authority.py): a pure    *)
(* reducer that joins the deterministic status of the QC report with the   *)
(* observations of the interpretive models under a versioned policy.       *)
(*                                                                         *)
(* An observation is a record                                              *)
(*   [stage, risk, state, source, confidence, severity, intent,            *)
(*    evidence, transcribed, transition]                                   *)
(* whose evidence and transcribed fields are sets of evidence ids and      *)
(* whose source is the provider and model that answered.  A list of        *)
(* observations is a set: the reducer only asks whether some observation   *)
(* with a quality exists and how many distinct sources and evidence ids    *)
(* the accepted ones name.  Confidence is in hundredths.                   *)
(***************************************************************************)
EXTENDS Integers, FiniteSets, Delivery

CONSTANTS
  Risk,      \* the risks of the policy
  Rule,      \* Rule[r]: the policy's rule for risk r
  NoSource   \* an observation that names no source

\* What a rule of the policy file says once the defaults are filled in.
RuleType ==
  [authority : {"enforce", "hold"}, confidence : 0..100, evidence : Nat,
   sources : Nat, severity : {"reject", "any"},
   intent : {"confirmed_defect", "any"}, transcriptions : Nat,
   transition : BOOLEAN]

\* In the policy only an enforceable risk asks for two sources; a risk that
\* can only hold a delivery is satisfied with one.
ASSUME PolicyAssumption ==
  /\ Rule \in [Risk -> RuleType]
  /\ \A r \in Risk : Rule[r].sources >= (IF Rule[r].authority = "enforce" THEN 2 ELSE 1)

-----------------------------------------------------------------------------
(* What the observations amount to.                                        *)

\* Concerns the reducer looks at: about a risk of the policy, with evidence.
Concerns(obs) ==
  {o \in obs : o.state = "concern" /\ o.risk \in Risk /\ o.evidence # {}}

FromSynthesis(o) == o.stage = "synthesis"

\* Severity and intent are asked for by enforceable rules only.
Eligible(o) ==
  LET rule == Rule[o.risk]
      enforced == rule.authority = "enforce"
  IN /\ o.source # NoSource
     /\ o.confidence >= rule.confidence
     /\ enforced /\ rule.severity # "any" => o.severity = rule.severity
     /\ enforced /\ rule.intent # "any" => o.intent = rule.intent
     /\ Cardinality(o.transcribed) >= rule.transcriptions
     /\ rule.transition => o.transition

Accepted(obs, r) ==
  {o \in Concerns(obs) : o.risk = r /\ ~FromSynthesis(o) /\ Eligible(o)}

SourcesOf(obs, r) == {o.source : o \in Accepted(obs, r)}

SynthesisAgrees(obs, r) ==
  \E o \in Concerns(obs) : o.risk = r /\ FromSynthesis(o) /\ Eligible(o)

Flagged(obs) == {o.risk : o \in Concerns(obs)}

\* A concern with the authority its rule grants.
Qualified(obs, r) ==
  /\ Cardinality(SourcesOf(obs, r)) >= Rule[r].sources
  /\ Cardinality(UNION {o.evidence : o \in Accepted(obs, r)}) >= Rule[r].evidence
  /\ SynthesisAgrees(obs, r)

-----------------------------------------------------------------------------
(* The decision.                                                           *)

\* Required risks the synthesis did not report, or reported as not looked at.
\* (The synthesis holds one observation per risk.)
Unobserved(obs, required) ==
  {r \in required \cap Risk :
     \A o \in obs : FromSynthesis(o) /\ o.risk = r => o.state = "not_checked"}

\* Mutant: what the lanes found is decided on when the synthesis failed.
ProposedAnyway(state, obs, required, risks) ==
  LET flagged == Flagged(obs)
  IN IF \E r \in flagged : Qualified(obs, r) /\ Rule[r].authority = "enforce"
     THEN "REJECT"
     ELSE IF flagged # {} \/ Unobserved(obs, risks) # {} THEN "HOLD"
     ELSE "READY"

Proposed(state, obs, required, risks) ==
  LET flagged == Flagged(obs)
  IN IF required /\ state # "complete" THEN "HOLD"
     ELSE IF \E r \in flagged : Qualified(obs, r) /\ Rule[r].authority = "enforce"
          THEN "REJECT"
     ELSE IF flagged # {} \/ Unobserved(obs, risks) # {} THEN "HOLD"
     ELSE "READY"

Decide(status, state, obs, mode, required, risks) ==
  Join(Gate(status), Proposed(state, obs, required, risks), mode)
=============================================================================
