---------------------------- MODULE Interpretive ----------------------------
(***************************************************************************)
(* The explicit interpretive run (run_explicit_interpretive of             *)
(* pipeline/worker.py): a planner, the storing of the evidence, up to      *)
(* three analysis lanes called from a pool of threads, a synthesis over    *)
(* what they found, and the delivery decision.                             *)
(*                                                                         *)
(* Each stage asks its model, retries an error worth retrying, goes on to  *)
(* the fallback model, and asks once more for an answer it cannot use.     *)
(* What an answer holds is abstracted to the observations                  *)
(* sanitize_observations keeps of it; {} is an answer with none.           *)
(***************************************************************************)
EXTENDS Authority

CONSTANTS
  Model,       \* model identities
  NoModel,     \* a stage or a fallback that is not configured
  Foreign,     \* a fallback of a provider the worker cannot call
  Reported,    \* Reported[m]: the names the provider may answer with for m
  Config,      \* the deployments and reports to consider (ConfigType)
  Evidence,    \* ids of frames and windows
  Answer,      \* Answer[s]: the sets of observations an answer to s can hold
  MaxAttempts  \* bound of AI_INTERPRETIVE_STAGE_MAX_ATTEMPTS

Lane == {"visual", "audio", "jury"}
Stage == Lane \cup {"planner", "synthesis"}

\* callable: the provider is gmicloud and its key is set.  attempts and threads
\* are AI_INTERPRETIVE_STAGE_MAX_ATTEMPTS and _MAX_CONCURRENCY.
ConfigType ==
  [callable : BOOLEAN, attempts : 1..MaxAttempts, threads : 1..3,
   primary : [Stage -> Model \cup {NoModel}],
   fallback : Model \cup {NoModel, Foreign}, mode : Mode,
   status : Status \cup {"none"}]

\* What sanitize_observations keeps of one item of an answer; the run adds who
\* answered which stage.
ObservationType(stages, sources) ==
  [stage : stages, risk : Risk \cup {"unclassified"},
   state : {"concern", "no_concern", "not_checked"}, source : sources,
   confidence : 0..100, severity : STRING, intent : STRING,
   evidence : SUBSET Evidence, transcribed : SUBSET Evidence, transition : BOOLEAN]

ASSUME InterpretiveAssumption ==
  /\ Answer \in [Stage -> SUBSET SUBSET ObservationType({"none"}, {NoSource})]
  /\ Reported \in [Model -> SUBSET Model]
  /\ Config \subseteq ConfigType
  /\ \A c \in Config : \A s \in Stage \ {"jury"} : c.primary[s] # NoModel
  /\ NoModel \notin Model /\ Foreign \notin Model /\ NoSource \notin Model
  /\ MaxAttempts \in Nat \ {0}

VARIABLES
  config,
  phase,     \* the step of run_explicit_interpretive
  media,     \* the kinds of evidence that were stored
  call,      \* call[s]: the stage's attempts and what it kept (CallType)
  decision,  \* the disposition, once decided
  received   \* answers the provider gave (observed only)

vars == <<config, phase, media, call, decision, received>>

Phase == {"planning", "evidence", "lanes", "synthesis", "deciding", "done", "raised"}
Outcome == {"pending", "complete", "fallback", "not_checked", "not_configured"}

Observation == ObservationType(Stage, Model)

\* candidate 1 is the stage's model and 2 the fallback; tried[c] counts the
\* attempts on candidate c and answers the calls that are billed.
CallType ==
  [state : {"idle", "queued", "calling", "repairing", "ended"}, candidate : 1..2,
   tried : [1..2 -> 0..MaxAttempts], answers : 0..2,
   used : Model \cup {NoSource}, kept : SUBSET Observation, outcome : Outcome]

TypeOK ==
  /\ config \in Config
  /\ phase \in Phase
  /\ media \subseteq {"visual", "audio"}
  /\ call \in [Stage -> CallType]
  /\ decision \in Disposition \cup {"none"}
  /\ received \in Nat

Idle ==
  [state |-> "idle", candidate |-> 1, tried |-> [c \in 1..2 |-> 0], answers |-> 0,
   used |-> NoSource, kept |-> {}, outcome |-> "pending"]

Init ==
  /\ config \in Config
  /\ phase = "planning" /\ media = {} /\ decision = "none" /\ received = 0
  /\ call = [s \in Stage |-> IF s = "planner" THEN [Idle EXCEPT !.state = "queued"] ELSE Idle]

Ended(s) == call[s].state = "ended"
Active == {s \in Stage : call[s].state \in {"calling", "repairing"}}

-----------------------------------------------------------------------------
(* One stage: _run_interpretive_model_stage, and                           *)
(* _run_interpretive_planner_stage, which has no fallback model.           *)

HasFallback(s) == s # "planner" /\ config.fallback \notin {NoModel, Foreign}
Candidate(s, c) == IF c = 1 THEN config.primary[s] ELSE config.fallback
Asking(s) == Candidate(s, call[s].candidate)
Attempted(s, c) == [call[s].tried EXCEPT ![c] = call[s].tried[c] + 1]

\* The synthesis has to report every risk of the policy, which sanitize_review_plan
\* and fallback_review_plan both put in the plan.
Structured(s, kept) ==
  /\ kept # {}
  /\ s = "synthesis" => Risk \subseteq {o.risk : o \in kept}

\* A plan that never came is replaced by the deterministic one.
Failed(s) == IF s = "planner" THEN "fallback" ELSE "not_checked"

End(r, s) ==
  [r EXCEPT !.state = "ended",
            !.outcome = IF Structured(s, r.kept) THEN "complete" ELSE Failed(s)]

\* Without a provider the stage makes no attempt.
Start(s) ==
  /\ call[s].state = "queued"
  /\ s \in Lane => Cardinality(Active) < config.threads
  /\ call' = [call EXCEPT ![s] =
       IF config.callable THEN [call[s] EXCEPT !.state = "calling", !.tried = Attempted(s, 1)]
       ELSE [call[s] EXCEPT !.state = "ended",
                            !.outcome = IF s = "planner" THEN "fallback" ELSE "not_configured"]]
  /\ UNCHANGED <<config, phase, media, decision, received>>

\* The attempts on the model that answered, under either of its roles.
SameModel(s) == {c \in 1..2 : call[s].tried[c] > 0 /\ Candidate(s, c) = Asking(s)}
MayRepair(s) == \A c \in SameModel(s) : call[s].tried[c] < config.attempts

\* Mutant: a stage vouches for itself, whatever model answered it.
TookAsStage(s, m, answer) ==
  [call[s] EXCEPT !.answers = call[s].answers + 1, !.used = m,
                  !.kept = {[c EXCEPT !.stage = s, !.source = s] : c \in answer}]

\* What the run keeps of an answer: the name the provider gave is its source.
Took(s, m, answer) ==
  [call[s] EXCEPT !.answers = call[s].answers + 1, !.used = m,
                  !.kept = {[c EXCEPT !.stage = s, !.source = m] : c \in answer}]

\* An answer that is not usable is asked for again, once, on the same model.
Answers(s) ==
  /\ call[s].state = "calling"
  /\ \E m \in Reported[Asking(s)], answer \in Answer[s] :
       LET r == Took(s, m, answer)
       IN call' = [call EXCEPT ![s] =
            IF ~Structured(s, r.kept) /\ MayRepair(s)
            THEN [r EXCEPT !.state = "repairing", !.tried = Attempted(s, call[s].candidate)]
            ELSE End(r, s)]
  /\ received' = received + 1
  /\ UNCHANGED <<config, phase, media, decision>>

\* An error worth retrying is retried on the same model; any other error, and
\* the last attempt's, goes on to the fallback.
Raises(s) ==
  /\ call[s].state = "calling"
  /\ LET c == call[s].candidate
     IN \/ /\ call[s].tried[c] < config.attempts
           /\ call' = [call EXCEPT ![s] = [call[s] EXCEPT !.tried = Attempted(s, c)]]
        \/ /\ c = 1 /\ HasFallback(s)
           /\ call' = [call EXCEPT ![s] =
                [call[s] EXCEPT !.candidate = 2, !.tried = Attempted(s, 2)]]
        \/ /\ c = 2 \/ ~HasFallback(s)
           /\ call' = [call EXCEPT ![s] = End(call[s], s)]
  /\ UNCHANGED <<config, phase, media, decision, received>>

\* Mutant: the call that asked again is not billed.
RepairedFree(s) ==
  /\ call[s].state = "repairing"
  /\ \E m \in Reported[Asking(s)], answer \in Answer[s] :
       call' = [call EXCEPT ![s] = End([Took(s, m, answer) EXCEPT !.answers = 1], s)]
  /\ received' = received + 1
  /\ UNCHANGED <<config, phase, media, decision>>

\* The second answer replaces what was kept of the first.
Repaired(s) ==
  /\ call[s].state = "repairing"
  /\ \E m \in Reported[Asking(s)], answer \in Answer[s] :
       call' = [call EXCEPT ![s] = End(Took(s, m, answer), s)]
  /\ received' = received + 1
  /\ UNCHANGED <<config, phase, media, decision>>

\* With no second answer the first one stays, unusable as it was.
RepairRaises(s) ==
  /\ call[s].state = "repairing"
  /\ call' = [call EXCEPT ![s] = [call[s] EXCEPT !.state = "ended", !.outcome = Failed(s)]]
  /\ UNCHANGED <<config, phase, media, decision, received>>

-----------------------------------------------------------------------------
(* The run.                                                                *)

Planned ==
  /\ phase = "planning" /\ Ended("planner")
  /\ phase' = "evidence"
  /\ UNCHANGED <<config, media, call, decision, received>>

\* A lane without evidence is not run, nor is a jury without a model.
LaneReady(s, stored) ==
  IF s = "jury" THEN config.primary["jury"] # NoModel /\ stored # {} ELSE s \in stored

\* Mutant: a lane with nothing to look at waits to be called.
LaneAwaits(s, stored) == Idle

LaneSkipped(s, stored) ==
  [Idle EXCEPT !.state = "ended",
               !.outcome = IF s = "jury" /\ config.primary["jury"] = NoModel
                           THEN "not_configured" ELSE "not_checked"]

\* What could be extracted and stored decides which lanes are called.
StoreEvidence ==
  /\ phase = "evidence"
  /\ media' \in SUBSET {"visual", "audio"}
  /\ call' = [s \in Stage |->
       IF s \notin Lane THEN call[s]
       ELSE IF LaneReady(s, media') THEN [Idle EXCEPT !.state = "queued"]
       ELSE LaneSkipped(s, media')]
  /\ phase' = "lanes"
  /\ UNCHANGED <<config, decision, received>>

\* An upload that fails ends the run with an exception.
EvidenceRaises ==
  /\ phase = "evidence"
  /\ phase' = "raised"
  /\ UNCHANGED <<config, media, call, decision, received>>

Specialists == UNION {call[s].kept : s \in Lane}

\* The pool is left when every lane returned; with nothing found there is
\* nothing to synthesize.
LanesEnd ==
  /\ phase = "lanes" /\ \A s \in Lane : Ended(s)
  /\ call' = [call EXCEPT !["synthesis"] =
       IF Specialists # {} THEN [Idle EXCEPT !.state = "queued"]
       ELSE [Idle EXCEPT !.state = "ended", !.outcome = "not_checked"]]
  /\ phase' = "synthesis"
  /\ UNCHANGED <<config, media, decision, received>>

SynthesisEnds ==
  /\ phase = "synthesis" /\ Ended("synthesis")
  /\ phase' = "deciding"
  /\ UNCHANGED <<config, media, call, decision, received>>

\* What the reducer is given.
RunState == IF call["synthesis"].outcome = "complete" THEN "complete" ELSE "not_checked"

\* Mutant: the reducer is given what the document shows, the synthesis when
\* there is one.
ShownObservations ==
  IF call["synthesis"].kept # {} THEN call["synthesis"].kept ELSE Specialists

StageObservations == Specialists \cup call["synthesis"].kept
Proposal == Proposed(RunState, StageObservations, TRUE, Risk)

MakeDecision ==
  /\ phase = "deciding"
  /\ decision' = Decide(config.status, RunState, StageObservations, config.mode, TRUE, Risk)
  /\ phase' = "done"
  /\ UNCHANGED <<config, media, call, received>>

Call(s) == Start(s) \/ Answers(s) \/ Raises(s) \/ Repaired(s) \/ RepairRaises(s)
Run == Planned \/ StoreEvidence \/ EvidenceRaises \/ LanesEnd \/ SynthesisEnds \/ MakeDecision

Next == Run \/ \E s \in Stage : Call(s)

Spec == Init /\ [][Next]_vars

\* A call has a timeout and the run's thread goes on until it returns.
FairSpec == Spec /\ WF_vars(Run) /\ \A s \in Stage : WF_vars(Call(s))

-----------------------------------------------------------------------------
(* What the run records (build_genblaze_run and the spend accounting).     *)

StepStatus(s) ==
  CASE call[s].outcome \in {"complete", "fallback"} -> "SUCCEEDED"
    [] call[s].outcome \in {"not_checked", "not_configured"} -> "CANCELLED"
    [] OTHER -> "FAILED"

\* How often a stage may ask its model (role 1) and the fallback (role 2),
\* the asking again for an unusable answer included.
Allowed(s, role) == IF role = 1 \/ HasFallback(s) THEN config.attempts ELSE 0

ModelCalls ==
  call["planner"].answers + call["visual"].answers + call["audio"].answers
    + call["jury"].answers + call["synthesis"].answers

-----------------------------------------------------------------------------
(* Properties.                                                             *)

\* The models reject a delivery only when two of them, under different names
\* and in different lanes, raised the risk with evidence in the store, and the
\* synthesis, which counts for neither, raised it too: a fallback that answered
\* for both lanes is one source (_qualified_findings).
TwoModelsReject ==
  phase = "done" /\ Proposal = "REJECT" =>
    \E s, t \in Lane : \E o \in call[s].kept, p \in call[t].kept, q \in call["synthesis"].kept :
      /\ call[s].used # call[t].used
      /\ o.risk = p.risk /\ o.risk = q.risk
      /\ \A c \in {o, p, q} : c.state = "concern" /\ c.evidence # {}

\* What holds a delivery back stays: with the models enforcing, it is READY
\* only when the synthesis looked at every risk and no lane, and no answer of
\* the synthesis that was kept, raised a risk of the policy citing evidence
\* (decide).
CitedConcernKeepsBack ==
  phase = "done" /\ config.mode # "shadow" /\ decision = "READY" =>
    /\ \A r \in Risk : \E o \in call["synthesis"].kept : o.risk = r /\ o.state # "not_checked"
    /\ \A s \in Stage \ {"planner"} : \A o \in call[s].kept :
         o.state = "concern" /\ o.risk \in Risk => o.evidence = {}

\* Every answer of the provider is billed once, whatever the run made of it.  A
\* stage calls each of its candidates, its own model and then the fallback, at
\* most AI_INTERPRETIVE_STAGE_MAX_ATTEMPTS times, retries and the asking again
\* together; a model that is both may be called that often in each role
\* (_run_interpretive_model_stage, _combined_response_usage).
SpendIsExact ==
  /\ received = ModelCalls
  /\ \A s \in Stage : \A role \in 1..2 : call[s].tried[role] <= Allowed(s, role)
  /\ \A s \in Stage : Ended(s) /\ StepStatus(s) = "SUCCEEDED" =>
       call[s].answers > 0 \/ (s = "planner" /\ call[s].outcome = "fallback")

\* A run ends with a decision, or with the exception of a failed upload, and
\* leaves no call behind (ThreadPoolExecutor and as_completed).
EveryRunEnds ==
  (phase = "planning") ~> (phase \in {"done", "raised"} /\ Active = {})

Returned ==
  IF phase = "done"
  THEN {[complete |-> RunState = "complete", disposition |-> decision]} ELSE {}

Step ==
  INSTANCE InterpretiveStep WITH
    asked <- [status |-> config.status, mode |-> config.mode],
    stored <- media # {}, returned <- Returned, raised <- phase = "raised"

\* The run is the one step Worker takes it for.  However its stages fail, retry
\* and overlap, it ends once, its decision joins the gate of the report it was
\* given, and a run whose synthesis is not complete proposes HOLD (decide, and
\* what run_pipeline assumes of run_explicit_interpretive).
StepKept == Step!Spec

\* "Missing risk coverage, malformed output, or provider failure produces
\* HOLD/not_checked, never READY": with the models enforcing, a READY delivery
\* had every lane it stored evidence for answered.
ProviderFailureNeverReady ==
  phase = "done" /\ config.mode # "shadow" /\ decision = "READY" =>
    \A s \in media : call[s].outcome = "complete"
=============================================================================
