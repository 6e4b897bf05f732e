-------------------------------- MODULE Rules -------------------------------
(***************************************************************************)
(* The pure rules of the pipeline, put to the question one at a time: a    *)
(* behaviour applies one rule to one input, and the invariants say what    *)
(* has to be true of every answer.  The rules compose as the worker        *)
(* composes them: a planner's reply becomes a plan and the plan a choice   *)
(* of evidence; the replies of a lane become checks and the checks a       *)
(* coverage table; three models' answers become observations and a         *)
(* disposition; the options of a request body go through the gateway's     *)
(* policy and its gate to the worker.                                      *)
(***************************************************************************)
EXTENDS Review, Lanes, Synthetic, Sampling, ServicePolicy

CONSTANTS
  PlanInput,    \* [media, reply, packets, frames, audio]
  ReportInput,  \* [media, instruments, replies, critic]
  JudgeInput,   \* [visual, jury, synthesis]: sequences of items
  Catalog,      \* the evidence the models were given
  AssetInput,   \* [asset, replies]
  FrameInput,   \* [duration, cuts, anomalies, stretch, floor, budget, requests, media, missing]
  RawBodies     \* the service entries a request body may carry

\* A planner asks for what the schema of its reply has, anywhere; the packets of
\* the instruments' findings ask for stills and sound of the program.
Request ==
  [type : {"frame", "frame_sequence", "audio"}, at : Int, span : Int, risks : SUBSET (Risk \cup STRING)]
ASSUME PlanAssumption ==
  \A input \in PlanInput :
    /\ input.media.duration \in Nat /\ input.frames \in Nat /\ input.audio \in Nat
    /\ input.reply \in Seq(Request)
    /\ input.packets \in Seq(Request)
    /\ \A i \in DOMAIN input.packets : /\ input.packets[i].type # "frame_sequence"
                                      /\ input.packets[i].at \in 0..input.media.duration

\* The instruments' checks carry names of their own, and a lane knows a reply to
\* each of its calls.
SupportNames == UNION {Registry[r].support : r \in Registered}
LaneCalls ==
  {"independent", "informed", "critic", "escalation", "caption", "text", "language", "mouth",
   "channels", "transcript"}
ASSUME ReportAssumption ==
  \A input \in ReportInput :
    /\ \A c \in input.instruments : c.source = "deterministic" /\ c.name \notin SupportNames
    /\ LaneCalls \subseteq DOMAIN input.replies

\* An answer has items with every field filled in, whatever the model wrote
\* there, and an unknown risk is none of the policy's.
AnswerItem ==
  [risk : Risk \cup STRING, state : STRING, severity : STRING, intent : STRING, confidence : Nat,
   evidence : SUBSET STRING, location : STRING, says : SUBSET STRING,
   read : SUBSET [id : STRING, text : STRING]]
ASSUME JudgeAssumption ==
  /\ "unclassified" \notin Risk
  /\ \A input \in JudgeInput :
       \A items \in {input.visual, input.jury, input.synthesis} : items \in Seq(AnswerItem)

\* A reply of the shape asked for lists its snapshots and its readings.
IsList(s) == s \in Seq({s[i] : i \in DOMAIN s})
ASSUME AssetAssumption ==
  \A input \in AssetInput :
    /\ {"asset", "replies"} \subseteq DOMAIN input
    /\ {"plan", "artifacts", "coarse", "fine", "text", "juror", "adherence"}
         \subseteq DOMAIN input.replies
    /\ \A reply \in {input.replies.coarse, input.replies.fine} \ Unusable :
         /\ IsList(reply)
         /\ \A i \in DOMAIN reply : {"at", "anomalies"} \subseteq DOMAIN reply[i] /\ reply[i].at \in Int
    /\ input.replies.text \notin Unusable => IsList(input.replies.text)

\* A program lasts, the scan reports places in it, and a request that was asked
\* for has a type, a place and a span, whatever the model wrote there.
ASSUME FrameAssumption ==
  \A input \in FrameInput :
    /\ input.duration \in Nat \ {0} /\ input.budget \in Nat \ {0}
    /\ input.stretch \in Nat \ {0} /\ input.floor \in Nat
    /\ input.cuts \in SUBSET Nat /\ IsFiniteSet(input.cuts)
    /\ IsFiniteSet(input.anomalies)
    /\ \A a \in input.anomalies : a[1] \in Nat /\ a[2] \in Nat
    /\ IsList(input.requests)
    /\ \A i \in DOMAIN input.requests :
         /\ {"type", "at", "span"} \subseteq DOMAIN input.requests[i]
         /\ input.requests[i].at \in Int /\ input.requests[i].span \in Int

\* An entry of a body that is not a boolean is junk, whatever it is.
ASSUME BodiesAssumption == RawBodies \subseteq [Service -> Setting \cup {"junk"}]

\* A body beside the deployment's switches; oversized, the object is above
\* MAX_QC_BYTES, and isObject says whether `options` is an object at all.
OptionsInput ==
  [deploy : Deployment, isObject : BOOLEAN, raw : RawBodies, oversized : BOOLEAN]

VARIABLES rule, given
vars == <<rule, given>>

Init == rule = "none" /\ given = <<>>

Apply(name, inputs) == rule = "none" /\ rule' = name /\ given' \in inputs

PlanEvidence == Apply("evidence", PlanInput)
ReportCoverage == Apply("report", ReportInput)
JudgeAnswers == Apply("judgement", JudgeInput)
InspectSynthetic == Apply("synthetic", AssetInput)
SampleFrames == Apply("frames", FrameInput)
ResolveOptions == Apply("options", OptionsInput)

Next ==
  \/ PlanEvidence \/ ReportCoverage \/ JudgeAnswers \/ InspectSynthetic \/ SampleFrames
  \/ ResolveOptions

Spec == Init /\ [][Next]_vars

-----------------------------------------------------------------------------
(* Evidence.                                                               *)

\* The plan the run goes by: the planner's, or the deterministic one.
PlanFor(input) ==
  LET proposed == SanitizePlan(input.reply, input.media, input.frames, input.audio)
  IN IF proposed = NoPlan THEN FallbackPlan(input.media) ELSE proposed

EvidenceFor(input) ==
  BuildEvidencePlan(input.media, input.packets, PlanFor(input), input.frames, input.audio)

\* Whatever a planner asks for and whatever the instruments flag, a program
\* with pictures is looked at in sequence at least once when the policy has a
\* temporal risk, within the budgets and within the program
\* (build_evidence_plan).
ContinuityIsSampled ==
  rule = "evidence" =>
    LET evidence == EvidenceFor(given)
        pictures == {i \in DOMAIN evidence : IsVisual(evidence[i])}
        duration == given.media.duration
    IN /\ Cardinality(pictures) <= given.frames
       /\ Len(evidence) - Cardinality(pictures) <= given.audio
       /\ \A i \in DOMAIN evidence : evidence[i].at \in 0..duration
       /\ given.media.video /\ duration > 0 /\ given.frames > 0 /\ Temporal \in Risk =>
            /\ \E i \in pictures : evidence[i].type = "frame_sequence"
            /\ Temporal \in StageRisks("visual", PlanFor(given), {"frame_sequence"})

-----------------------------------------------------------------------------
(* Coverage.                                                               *)

ResultFor(input) == AiQc(input.media, input.replies, input.critic)

CoverageFor(input) ==
  CoverageAfter(input.media, input.instruments, ResultFor(input),
                AiState(TRUE, TRUE, TRUE, ResultFor(input)))

Measured(input, r) == Instruments(r, input.instruments)

\* No reply of any model overrules an instrument: what an instrument complains
\* of stays open, what a complete instrument cleared stays clear, and what a
\* model cannot judge is neither cleared nor confirmed without a failed
\* instrument (build_coverage).
InstrumentsOutrankModels ==
  rule = "report" =>
    LET coverage == CoverageFor(given)
        reached == {r \in Registered : coverage[r] # "NOT_APPLICABLE"}
        Beyond(r) == Registry[r].scope \in {"certification", "intent"} \/ Registry[r].unreliable
        FailedAt(r) == \E c \in Measured(given, r) : c.status = "fail"
    IN /\ \A r \in reached : Complaints(Measured(given, r)) # {} =>
                               coverage[r] \in {"SUSPECTED", "CONFIRMED"}
       /\ \A r \in reached : Registry[r].scope = "full" /\ AllPass(Measured(given, r)) =>
                               coverage[r] = "CLEAR"
       /\ \A r \in reached : Beyond(r) => /\ coverage[r] # "CLEAR"
                                          /\ coverage[r] = "CONFIRMED" => FailedAt(r)

\* A reply nobody could read, or a call that raised.
Silent(input) ==
  /\ \A k \in DOMAIN input.replies \ {"caption"} : ~Readable(input.replies[k])
  /\ input.replies.caption = Raised \/ ~input.replies.caption.spoken

\* When the provider answers nothing, nothing passes on its account: the lane
\* adds no passing check, and a risk is clear only where a complete instrument
\* says so (run_ai_qc, build_coverage).
SilenceClearsNothing ==
  rule = "report" /\ Silent(given) =>
    /\ \A c \in ResultFor(given).checks : c.status # "pass"
    /\ \A r \in Registered : CoverageFor(given)[r] = "CLEAR" =>
         Registry[r].scope = "full" /\ AllPass(Measured(given, r))

-----------------------------------------------------------------------------
(* Judgement.                                                              *)

\* What the three stages' answers become; the lanes answer as two sources.
ObservationsFor(input) ==
  LET From(stage, items, source) ==
        {[o EXCEPT !.source = source] : o \in Sanitize(items, stage, Catalog)}
  IN From("visual", input.visual, "first") \cup From("jury", input.jury, "second")
     \cup From("synthesis", input.synthesis, "first")

\* An item as it came: a defect the answer stands by, on evidence that can
\* carry it.
StandsBy(item, r) ==
  /\ item.risk = r /\ item.state = "concern"
  /\ item.confidence >= Rule[r].confidence
  /\ Rule[r].severity = "reject" => item.severity = "reject"
  /\ Rule[r].intent = "confirmed_defect" => "ambiguous" \notin item.says
  /\ LET cited == item.evidence \cap DOMAIN Catalog
     IN /\ cited # {}
        /\ r = Temporal => \E e \in cited : Catalog[e].type # "frame"
        /\ r \in CaptionRisks => \E e \in cited : Catalog[e].type = "audio_window"

Within12(items) == {items[i] : i \in 1..Least(Len(items), 12)}

\* With a passing report and the models in authority, a delivery is rejected
\* only over a risk that both lanes and the synthesis stand by, on evidence
\* they were given and that can carry it: no single answer, whatever it
\* contains, rejects (sanitize_observations, decide).
OnlySupportedRejects ==
  rule = "judgement" /\ Decide("pass", "complete", ObservationsFor(given), "enforce", TRUE, Risk)
                          = "REJECT" =>
    \E r \in Risk :
      /\ Rule[r].authority = "enforce"
      /\ \A items \in {given.visual, given.jury, given.synthesis} :
           \E item \in Within12(items) : StandsBy(item, r)

-----------------------------------------------------------------------------
(* The synthetic lane.                                                     *)

SyntheticRun(input) == RunSyntheticQc(input.asset, input.replies)

\* The legible readings of a track, when nothing of it was illegible.
Legible(readings, track) ==
  LET texts == {Track(readings, track)[i].text : i \in DOMAIN Track(readings, track)}
  IN IF Blank \in texts THEN {} ELSE texts

\* What a run shows, beside the run with no juror.
SuspicionKept(run, alone) ==
  IF run.raised
  THEN /\ \E k \in DOMAIN given.replies : given.replies[k] = Malformed
       /\ run.coverage = <<>> /\ run.checks = {}
  ELSE /\ run.findings = alone.findings /\ run.coverage = alone.coverage
       /\ DOMAIN run.coverage = GeneratedRisk
       /\ \A f \in run.findings : run.coverage[f.risk] = "SUSPECTED"
       /\ \A t \in {run.readings[i].track : i \in DOMAIN run.readings} :
            Cardinality(Legible(run.readings, t)) > 1 =>
              \E f \in run.findings : f.risk = "rendered_text" /\ f.what = t
       /\ \A c \in run.checks : c.status = "pass" => c.name = "ai_prompt_adherence"

\* What was suspected stays suspected, if the lane comes to its end: a juror adds
\* and removes no finding, every finding's risk is SUSPECTED and every risk
\* accounted for, a text whose readings are all legible and that was read in
\* two ways is found to have changed, in whatever order the reply lists them,
\* and only a good adherence score passes.  Only a reply of the wrong shape,
\* the juror's included, loses the lane; then it loses all of it, and nothing
\* is assessed or passes on its account (run_synthetic_qc, run_pipeline).
SuspicionSurvives ==
  rule = "synthetic" /\ given.asset.video =>
    SuspicionKept(SyntheticRun(given),
                  SyntheticRun([given EXCEPT !.replies = [@ EXCEPT !.juror = NoJuror]]))

-----------------------------------------------------------------------------
(* Sampling.                                                               *)

\* How many frames the blind sweep takes of a program, and which.
SweepBudget(input) ==
  ScaledFrameCount(input.duration, input.stretch, input.floor, input.budget)
Sweep(input) == InitialFrames(input.duration, input.cuts, input.anomalies, SweepBudget(input))

\* What the sweep means to look at in any case: its anchors and what was flagged.
MustSee(input) ==
  Anchors(input.duration, High(2, SweepBudget(input) \div 3))
    \cup {Middle(a) : a \in input.anomalies}

\* Wherever a lane samples, whatever the scan and the model ask for, the samples
\* are apart, in order, inside the program and within that lane's budget; a
\* request of the model that does not fit is cut to what is left, and what it
\* is answered with lies in its stretch and inside the program
\* (_initial_agentic_evidence, normalize_requests, _execute_evidence_requests,
\* _generated_evidence, _fine_generated_evidence, candidate_times).
SamplesStayInside ==
  rule = "frames" =>
    LET d == given.duration
        Spaced(times, gap, most) ==
          /\ Len(times) <= most
          /\ \A i \in DOMAIN times : times[i] \in 0..(d - 1)
          /\ \A i \in 1..(Len(times) - 1) : times[i + 1] - times[i] >= gap
        windows == InitialWindows(d, SetToSeq(given.anomalies), 3, 120)
        requests == NormalizeRequests(given.requests, d, 6)
        met == ExecuteRequests(requests, given.media, d, given.missing)
    IN /\ Spaced(Sweep(given), 8, given.budget)
       /\ Spaced(windows, Low(120, d) \div 2, 5)
       /\ Spaced(GeneratedTimes(d, given.cuts, given.budget + 1), 2, given.budget + 1)
       /\ Spaced(FineTimes(d, {Middle(a) : a \in given.anomalies}, given.budget), 1, given.budget)
       /\ Spaced(CandidateTimes(d, given.cuts, 6), 8, 6)
       /\ Len(requests) <= 6
       /\ \A i \in DOMAIN requests :
            requests[i].at + requests[i].span <= d \/ (requests[i].span = 5 /\ requests[i].at > d - 5)
       /\ \A i \in DOMAIN requests : \A t \in met[i].taken :
            t \in requests[i].at..(requests[i].at + requests[i].span) /\ t < d

\* "keep the budget: always retain anchors + anomalies, sample shots to fit"
\* (worker.py:812): when what has to be looked at fits in the budget, each of it
\* has a frame, up to the two gaps of the two thinnings.  The code cuts the
\* timeline from its end instead.
AnchorsRetained ==
  rule = "frames" =>
    LET frames == Sweep(given)
    IN Cardinality(MustSee(given)) <= SweepBudget(given) =>
         \A t \in MustSee(given) : \E i \in DOMAIN frames : t - frames[i] \in 0..14

-----------------------------------------------------------------------------
(* Options: one value on its way from the body of POST /uploads/complete   *)
(* to the worker, read by three pieces of code in two languages.           *)

Requested(input) == SanitizeOptions(input.isObject, input.raw)

\* transfers.options_json, and the services the sender is told are disabled.
Stored(input) == ApplyServicePolicy(input.deploy, Requested(input), input.oversized)
Told(input) == Disabled(input.deploy, Requested(input), input.oversized)

\* With the row in place /events/b2 queues a job or publishes pipeline_skipped,
\* and the worker resolves the flags of the job it was posted.
Queued(input) == AnyServiceOn(Stored(input))
Ran(input) == IF Queued(input) THEN WorkerRuns(Stored(input)) ELSE {}

\* What the deployment does not offer for this transfer.
Withheld(input) ==
  {k \in Service :
     \/ input.oversized
     \/ k = "qc_ai" /\ ~input.deploy.allowAi
     \/ k = "qc_synthetic" /\ ~input.deploy.allowSynthetic
     \/ k = "ai_interpretive" /\ ~input.deploy.allowInterpretive}

\* A service the deployment switched off is never executed by the worker, not
\* even when the sender sent no options (where NULL means everything): the policy
\* materialises the explicit false (limits.ts).
WithheldNeverRuns == rule = "options" => Ran(given) \cap Withheld(given) = {}

\* The gateway's dispatch gate (routes.ts anyServiceOn) and the worker's own
\* defaults (worker.py SERVICE_FLAGS) read the same stored value the same way: a
\* job is queued exactly when the worker would have something to run.
GateAgreesWithWorker ==
  rule = "options" => (Queued(given) <=> WorkerRuns(Stored(given)) # {})

\* The services_disabled event is honest: it names exactly the services that
\* would have run on the sender's selections and will not run now (limits.ts).
ToldExactlyTheLoss ==
  rule = "options" => Told(given) = WorkerRuns(Requested(given)) \ WorkerRuns(Stored(given))

\* The policy only takes away: nothing runs that the sender did not select
\* (limits.ts, worker.py SERVICE_FLAGS).
NothingAdded == rule = "options" => Ran(given) \subseteq WorkerRuns(Requested(given))
=============================================================================
