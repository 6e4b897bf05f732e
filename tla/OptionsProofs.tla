---------------------------- MODULE OptionsProofs ----------------------------
(***************************************************************************)
(* Proofs about the options of a transfer, for every request body and      *)
(* every deployment: the gateway's policy and gate and the worker's own    *)
(* reading agree on what is stored.                                        *)
(***************************************************************************)
EXTENDS Rules, TLAPS

\* The rule is put to one of its inputs.
Resolved == rule = "options" => given \in OptionsInput

LEMMA AlwaysResolved == Spec => []Resolved
<1>1. Init => Resolved
  BY DEF Init, Resolved
<1>2. Resolved /\ [Next]_vars => Resolved'
  BY DEF Resolved, Next, vars, Apply, PlanEvidence, ReportCoverage, JudgeAnswers,
         InspectSynthetic, SampleFrames, ResolveOptions
<1> QED BY <1>1, <1>2, PTL DEF Spec

-----------------------------------------------------------------------------
LEMMA SanitizeType ==
  ASSUME NEW b \in BOOLEAN, NEW entries \in RawBodies
  PROVE  SanitizeOptions(b, entries) \in Options
BY BodiesAssumption DEF SanitizeOptions, Options, NoOptions, Setting

\* NULL options carry no entry.
LEMMA NullIsBare ==
  ASSUME NEW b \in BOOLEAN, NEW entries,
         NEW o, o = SanitizeOptions(b, entries), ~o.given
  PROVE  \A k \in Service : o.svc[k] = "missing"
BY DEF SanitizeOptions, NoOptions

\* The gateway's gate and the worker's defaults agree on one options value.
LEMMA GateIsWorkerReading ==
  ASSUME NEW o \in Options, ~o.given => \A k \in Service : o.svc[k] = "missing"
  PROVE  AnyServiceOn(o) <=> WorkerRuns(o) # {}
<1>1. \A k \in DefaultOn : k \in Service /\ k \notin OptIn
  BY DEF DefaultOn, OptIn, Service
<1>2. "qc_av" \in DefaultOn
  BY DEF DefaultOn
<1> QED BY <1>1, <1>2 DEF AnyServiceOn, WorkerRuns, Service

\* The policy takes away exactly the services it reports.
LEMMA PolicyTakesWhatItReports ==
  ASSUME NEW d \in Deployment, NEW o \in Options, NEW big \in BOOLEAN,
         ~o.given => \A k \in Service : o.svc[k] = "missing"
  PROVE  /\ WorkerRuns(ApplyServicePolicy(d, o, big)) = WorkerRuns(o) \ Forced(d, o, big)
         /\ Disabled(d, o, big) = WorkerRuns(o) \intersect Forced(d, o, big)
<1>1. \A k \in Service :
        ApplyServicePolicy(d, o, big).svc[k] =
          IF k \in Forced(d, o, big) THEN "false" ELSE o.svc[k]
  BY DEF ApplyServicePolicy
<1>2. Forced(d, o, big) \subseteq Service
  BY DEF Forced
<1> QED BY <1>1, <1>2 DEF WorkerRuns, Disabled

-----------------------------------------------------------------------------
\* The three readings of one stored value, in terms of what was asked.
LEMMA Readings ==
  ASSUME NEW input \in OptionsInput
  PROVE  LET taken == Forced(input.deploy, Requested(input), input.oversized) IN
         /\ WorkerRuns(Stored(input)) = WorkerRuns(Requested(input)) \ taken
         /\ Told(input) = WorkerRuns(Requested(input)) \cap taken
         /\ Queued(input) <=> WorkerRuns(Stored(input)) # {}
         /\ Withheld(input) \subseteq taken
<1> DEFINE d == input.deploy
           o == Requested(input)
           big == input.oversized
<1>1. /\ d \in Deployment /\ big \in BOOLEAN /\ input.isObject \in BOOLEAN
      /\ input.raw \in RawBodies
  BY DEF OptionsInput
<1>2. o \in Options
  BY <1>1, SanitizeType DEF Requested
<1>3. ~o.given => \A k \in Service : o.svc[k] = "missing"
  BY <1>1, NullIsBare DEF Requested
<1>4. /\ Stored(input) \in Options
      /\ ~Stored(input).given => \A k \in Service : Stored(input).svc[k] = "missing"
  BY <1>2, <1>3 DEF Stored, Options, ApplyServicePolicy, Setting
<1>5. Queued(input) <=> WorkerRuns(Stored(input)) # {}
  BY <1>4, GateIsWorkerReading DEF Queued
<1>6. /\ WorkerRuns(Stored(input)) = WorkerRuns(o) \ Forced(d, o, big)
      /\ Told(input) = WorkerRuns(o) \cap Forced(d, o, big)
  BY <1>1, <1>2, <1>3, PolicyTakesWhatItReports DEF Stored, Told
<1>7. Withheld(input) \subseteq Forced(d, o, big)
  BY DEF Withheld, Forced
<1> QED BY <1>5, <1>6, <1>7

\* A service the deployment switched off is never run, whatever the body says.
THEOREM WithheldStaysOff == Spec => []WithheldNeverRuns
<1>1. Resolved => WithheldNeverRuns
  BY Readings DEF Resolved, WithheldNeverRuns, Ran
<1> QED BY <1>1, AlwaysResolved, PTL

\* The dispatch gate and the worker read every stored value alike.
THEOREM GateAndWorkerAgree == Spec => []GateAgreesWithWorker
<1>1. Resolved => GateAgreesWithWorker
  BY Readings DEF Resolved, GateAgreesWithWorker
<1> QED BY <1>1, AlwaysResolved, PTL

\* The services_disabled event names exactly what the policy took away.
THEOREM EventIsHonest == Spec => []ToldExactlyTheLoss
<1>1. Resolved => ToldExactlyTheLoss
  BY Readings DEF Resolved, ToldExactlyTheLoss
<1> QED BY <1>1, AlwaysResolved, PTL

\* The policy adds nothing to what was selected.
THEOREM PolicyOnlyTakesAway == Spec => []NothingAdded
<1>1. Resolved => NothingAdded
  BY Readings DEF Resolved, NothingAdded, Ran
<1> QED BY <1>1, AlwaysResolved, PTL
=============================================================================
