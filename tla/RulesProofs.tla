----------------------------- MODULE RulesProofs -----------------------------
(***************************************************************************)
(* Proofs about Rules: what is true of the answer of a rule for every      *)
(* input, whatever a model replied.                                        *)
(***************************************************************************)
EXTENDS Rules, FiniteSetTheorems, WellFoundedInduction, TLAPS

-----------------------------------------------------------------------------
(* A behaviour applies one rule to one of its inputs.                      *)

Applied ==
  /\ rule = "evidence" => given \in PlanInput
  /\ rule = "report" => given \in ReportInput
  /\ rule = "judgement" => given \in JudgeInput
  /\ rule = "synthetic" => given \in AssetInput
  /\ rule = "frames" => given \in FrameInput

LEMMA AlwaysApplied == Spec => []Applied
<1>1. Init => Applied
  BY DEF Init, Applied
<1>2. Applied /\ [Next]_vars => Applied'
  BY DEF Applied, Next, vars, Apply, PlanEvidence, ReportCoverage, JudgeAnswers,
         InspectSynthetic, SampleFrames, ResolveOptions
<1> QED BY <1>1, <1>2, PTL DEF Spec

-----------------------------------------------------------------------------
(* Coverage.                                                               *)

HybridNames == {"hybrid_lip_sync", "hybrid_channel_semantics"}

\* What a model can neither clear nor confirm.
BeyondModels(r) == Registry[r].scope \in {"certification", "intent"} \/ Registry[r].unreliable

\* What of the registry the arguments rest on.
LEMMA RegistryFacts ==
  ASSUME NEW r \in Registered
  PROVE  /\ Registry[r].scope = "full" =>
              /\ Registry[r].checks \cap HybridNames = {}
              /\ Registry[r].support = {}
              /\ ~BeyondModels(r)
         /\ BeyondModels(r) => Registry[r].support = {}
         /\ Registry[r].support \subseteq SupportNames
BY DEF Registered, Registry, Entry, Supported, Unreliable, BeyondModels, HybridNames,
       SupportNames

\* A lane reports no failure, and what of its checks counts as measured comes
\* from a hybrid.
LEMMA LaneChecks ==
  ASSUME NEW media, NEW replies, NEW critic, NEW c \in AiQc(media, replies, critic).checks
  PROVE  /\ c.status # "fail"
         /\ c.source \in {"agentic_ai", "ai_support", "hybrid"}
         /\ c.source = "hybrid" => c.name \in HybridNames
<1> DEFINE agentic == AgenticInspection(replies, critic, media.traits)
<1> USE DEF HybridNames
<1>1. ~(InspectionLost(replies, critic) \/ (Speaks(media) /\ replies.caption = Raised))
  BY DEF AiQc, Lost
<1>2. \/ \E d \in ChecksFromFindings(agentic) : c = Censorship(d)
      \/ c \in EscalationCheck(media, replies.escalation)
      \/ c \in CaptionCheck(media, replies.caption)
      \/ c \in ComplianceChecks(replies.text)
      \/ c \in LanguageCheck(media, replies.language)
      \/ c \in HybridLipSync(media, replies.mouth)
      \/ c \in HybridChannels(media, replies.channels)
  BY <1>1 DEF AiQc
<1>3. ASSUME NEW d \in ChecksFromFindings(agentic), c = Censorship(d)
      PROVE  c.status # "fail" /\ c.source = "agentic_ai"
  BY <1>3 DEF ChecksFromFindings, Censorship
<1>4. CASE c \in EscalationCheck(media, replies.escalation)
  BY <1>4 DEF EscalationCheck, SupportCheck
<1>5. CASE c \in CaptionCheck(media, replies.caption)
  BY <1>5 DEF CaptionCheck, SupportCheck
<1>6. CASE c \in ComplianceChecks(replies.text)
  BY <1>6 DEF ComplianceChecks, SupportCheck
<1>7. CASE c \in LanguageCheck(media, replies.language)
  BY <1>7 DEF LanguageCheck, SupportCheck
<1>8. CASE c \in HybridLipSync(media, replies.mouth)
  BY <1>8 DEF HybridLipSync, AlignedCheck, HybridCheck
<1>9. CASE c \in HybridChannels(media, replies.channels)
  BY <1>9 DEF HybridChannels, ComparedCheck, HybridCheck
<1> QED BY <1>2, <1>3, <1>4, <1>5, <1>6, <1>7, <1>8, <1>9

\* What a model says about a risk beyond it is weakened.
LEMMA JudgedBeyond ==
  ASSUME NEW r, BeyondModels(r), NEW proposed
  PROVE  Judged(r, proposed) \notin {"CLEAR", "CONFIRMED"}
BY DEF Judged, BeyondModels

LEMMA UndeterminedIsOpen ==
  ASSUME NEW r, NEW state
  PROVE  Undetermined(r, state) \notin {"CLEAR", "CONFIRMED"}
BY DEF Undetermined

\* The instruments decide in the table whatever the models contribute, for any
\* replies and any measurements (build_coverage).
THEOREM InstrumentsAlwaysOutrank == Spec => []InstrumentsOutrankModels
<1>1. InstrumentsOutrankModels
  <2> DEFINE lane == ResultFor(given).checks
             checks == given.instruments \cup lane
             said == IF ResultFor(given).lost THEN <<>>
                     ELSE ModelDispositions(ResultFor(given).agentic)
             state == AiState(TRUE, TRUE, TRUE, ResultFor(given))
             coverage == CoverageFor(given)
  <2>1. ASSUME NEW r \in Registered, coverage[r] # "NOT_APPLICABLE"
        PROVE  coverage[r] = CoverageOf(r, checks, said, state)
    BY <2>1 DEF CoverageFor, CoverageAfter, BuildCoverage
  <2>2. ASSUME NEW c \in lane
        PROVE  /\ c.status # "fail"
               /\ c.source \in {"agentic_ai", "ai_support", "hybrid"}
               /\ c.source = "hybrid" => c.name \in HybridNames
    BY <2>2, LaneChecks DEF ResultFor
  <2> HIDE DEF lane, said, state, coverage
  <2>3. ASSUME NEW r \in Registered, coverage[r] # "NOT_APPLICABLE",
               Complaints(Measured(given, r)) # {}
        PROVE  coverage[r] \in {"SUSPECTED", "CONFIRMED"}
    <3>1. Complaints(Instruments(r, checks)) # {}
      BY <2>3 DEF Measured, Complaints, Instruments
    <3> QED BY <2>1, <2>3, <3>1 DEF CoverageOf
  <2>4. ASSUME NEW r \in Registered, coverage[r] # "NOT_APPLICABLE",
               Registry[r].scope = "full", AllPass(Measured(given, r))
        PROVE  coverage[r] = "CLEAR"
    <3>1. Instruments(r, checks) = Measured(given, r)
      BY <2>2, <2>4, RegistryFacts DEF Measured, Instruments
    <3>2. Complaints(Instruments(r, checks)) = {} /\ AllPass(Instruments(r, checks))
      BY <2>4, <3>1 DEF AllPass, Complaints
    <3> QED BY <2>1, <2>4, <3>2 DEF CoverageOf
  <2>5. ASSUME NEW r \in Registered, coverage[r] # "NOT_APPLICABLE", BeyondModels(r)
        PROVE  /\ coverage[r] # "CLEAR"
               /\ coverage[r] = "CONFIRMED" =>
                    \E c \in Measured(given, r) : c.status = "fail"
    <3>1. Registry[r].scope # "full" /\ Support(r, checks) = {}
      BY <2>5, RegistryFacts DEF Support
    <3>2. Complaints(Support(r, checks)) = {} /\ ~AllPass(Support(r, checks))
      BY <3>1 DEF Complaints, AllPass
    <3>3. CASE Complaints(Instruments(r, checks)) = {}
      <4>1. coverage[r] = IF r \in DOMAIN said THEN Judged(r, said[r]) ELSE Undetermined(r, state)
        BY <2>1, <2>5, <3>1, <3>2, <3>3 DEF CoverageOf
      <4> QED BY <2>5, <4>1, JudgedBeyond, UndeterminedIsOpen
    <3>4. CASE Complaints(Instruments(r, checks)) # {}
      <4>1. coverage[r] =
              IF /\ Registry[r].scope # "certification"
                 /\ \E c \in Complaints(Instruments(r, checks)) : c.status = "fail"
              THEN "CONFIRMED" ELSE "SUSPECTED"
        BY <2>1, <2>5, <3>4 DEF CoverageOf
      <4>2. ASSUME NEW c \in Complaints(Instruments(r, checks)), c.status = "fail"
            PROVE  c \in Measured(given, r)
        BY <2>2, <4>2 DEF Complaints, Instruments, Measured
      <4> QED BY <4>1, <4>2
    <3> QED BY <3>3, <3>4
  <2> QED BY <2>3, <2>4, <2>5 DEF InstrumentsOutrankModels, BeyondModels, coverage
<1> QED BY <1>1, PTL

\* The calls of the lane that are guarded were not understood.
Unheard(replies) == \A k \in LaneCalls \ {"caption"} : replies[k] \in {Raised, Unread}

\* A lane that understood nothing has no pass to go by.
LEMMA UnheardSaysNothing ==
  ASSUME NEW media, NEW replies, NEW critic, Unheard(replies),
         ~AiQc(media, replies, critic).lost
  PROVE  LET agentic == AiQc(media, replies, critic).agentic
         IN /\ agentic = AgenticInspection(replies, critic, media.traits)
            /\ FinalPass(agentic) = Unparseable
            /\ DOMAIN ModelDispositions(agentic) = {}
            /\ ChecksFromFindings(agentic) = {}
<1> DEFINE agentic == AgenticInspection(replies, critic, media.traits)
<1>1. /\ ~InspectionLost(replies, critic)
      /\ AiQc(media, replies, critic).agentic = agentic
  BY DEF AiQc, Lost
<1>2. replies.independent = Unread /\ replies.informed = Unread
      /\ (critic => replies.critic = Unread)
  BY <1>1 DEF InspectionLost, Unheard, LaneCalls
<1>3. /\ agentic.independent = Unparseable /\ agentic.informed = Unparseable
      /\ agentic.critic \in {Unparseable, Skipped}
  BY <1>2 DEF AgenticInspection, PassOf
<1>4. FinalPass(agentic) = Unparseable
  BY <1>3 DEF FinalPass, Unparseable, Skipped
<1>5. DOMAIN Unparseable.dispositions = {} /\ Unparseable.findings = {}
  BY DEF Unparseable
<1> HIDE DEF agentic
<1>6. DOMAIN ModelDispositions(agentic) = {}
  BY <1>4, <1>5 DEF ModelDispositions
<1>7. ChecksFromFindings(agentic) = {}
  BY <1>4, <1>5, <1>6 DEF ChecksFromFindings, ReportableFindings
<1> QED BY <1>1, <1>4, <1>6, <1>7 DEF agentic

\* Nor does any of its checks pass.
LEMMA UnheardPassesNothing ==
  ASSUME NEW media, NEW replies, NEW critic, Unheard(replies),
         replies.caption = Raised \/ ~replies.caption.spoken,
         NEW c \in AiQc(media, replies, critic).checks
  PROVE  c.status # "pass"
<1>1. /\ ~AiQc(media, replies, critic).lost
      /\ ~(Speaks(media) /\ replies.caption = Raised)
  BY DEF AiQc, Lost
<1>2. ChecksFromFindings(AgenticInspection(replies, critic, media.traits)) = {}
  BY <1>1, UnheardSaysNothing
<1>3. \/ c \in EscalationCheck(media, replies.escalation)
      \/ media.cues /\ c \in CaptionCheck(media, replies.caption)
      \/ c \in ComplianceChecks(replies.text)
      \/ c \in LanguageCheck(media, replies.language)
      \/ c \in HybridLipSync(media, replies.mouth)
      \/ c \in HybridChannels(media, replies.channels)
  BY <1>1, <1>2 DEF AiQc, Lost
<1>4. /\ replies.escalation \in {Raised, Unread} /\ replies.text \in {Raised, Unread}
      /\ replies.language \in {Raised, Unread} /\ replies.mouth \in {Raised, Unread}
      /\ replies.channels \in {Raised, Unread}
  BY DEF Unheard, LaneCalls
<1>5. CASE c \in EscalationCheck(media, replies.escalation)
  BY <1>4, <1>5 DEF EscalationCheck, SupportCheck
<1>6. CASE media.cues /\ c \in CaptionCheck(media, replies.caption)
  BY <1>1, <1>6 DEF CaptionCheck, SupportCheck, Speaks
<1>7. CASE c \in ComplianceChecks(replies.text)
  BY <1>4, <1>7 DEF ComplianceChecks, SupportCheck
<1>8. CASE c \in LanguageCheck(media, replies.language)
  BY <1>4, <1>8 DEF LanguageCheck, SupportCheck
<1>9. CASE c \in HybridLipSync(media, replies.mouth)
  BY <1>4, <1>9 DEF HybridLipSync, AlignedCheck, HybridCheck
<1>10. CASE c \in HybridChannels(media, replies.channels)
  BY <1>4, <1>10 DEF HybridChannels, ComparedCheck, HybridCheck
<1> QED BY <1>3, <1>5, <1>6, <1>7, <1>8, <1>9, <1>10

\* What a full instrument measures is not touched by the lane.
LEMMA MeasuredAlone ==
  ASSUME NEW input, NEW r \in Registered, Registry[r].scope = "full"
  PROVE  Instruments(r, input.instruments \cup ResultFor(input).checks) = Measured(input, r)
BY RegistryFacts, LaneChecks DEF Instruments, Measured, ResultFor

\* A provider that answers nothing clears nothing, whatever was measured and
\* however its calls failed (run_ai_qc, build_coverage).
THEOREM SilenceNeverClears == Spec => []SilenceClearsNothing
<1>1. Applied => SilenceClearsNothing
  <2> SUFFICES ASSUME Applied, rule = "report", Silent(given)
               PROVE  /\ \A c \in ResultFor(given).checks : c.status # "pass"
                      /\ \A r \in Registered : CoverageFor(given)[r] = "CLEAR" =>
                           Registry[r].scope = "full" /\ AllPass(Measured(given, r))
    BY DEF SilenceClearsNothing
  <2>1. given \in ReportInput
    BY DEF Applied
  <2>2. Unheard(given.replies)
    BY <2>1, ReportAssumption DEF Silent, Readable, Unheard
  <2>3. ASSUME NEW c \in ResultFor(given).checks PROVE c.status # "pass"
    BY <2>2, <2>3, UnheardPassesNothing DEF ResultFor, Silent
  <2>4. ASSUME NEW r \in Registered, CoverageFor(given)[r] = "CLEAR"
        PROVE  Registry[r].scope = "full" /\ AllPass(Measured(given, r))
    <3> DEFINE lane == ResultFor(given).checks
               checks == given.instruments \cup lane
               said == IF ResultFor(given).lost THEN <<>>
                       ELSE ModelDispositions(ResultFor(given).agentic)
               state == AiState(TRUE, TRUE, TRUE, ResultFor(given))
    <3>1. CoverageOf(r, checks, said, state) = "CLEAR"
      BY <2>4 DEF CoverageFor, CoverageAfter, BuildCoverage
    <3>2. DOMAIN said = {}
      BY <2>2, UnheardSaysNothing DEF ResultFor
    <3>3. ~AllPass(Support(r, checks))
      <4> SUFFICES ASSUME NEW c \in checks, c.name \in Registry[r].support, c.status = "pass"
                   PROVE  FALSE
        BY DEF AllPass, Support
      <4>1. c \in given.instruments
        BY <2>3
      <4>2. c.name \in SupportNames
        BY RegistryFacts
      <4> QED BY <2>1, <4>1, <4>2, ReportAssumption
    <3>4. Undetermined(r, state) # "CLEAR"
      BY UndeterminedIsOpen
    <3>5. Registry[r].scope = "full" => Instruments(r, checks) = Measured(given, r)
      BY MeasuredAlone
    <3> HIDE DEF checks, said, state
    <3>6. Registry[r].scope = "full" /\ AllPass(Instruments(r, checks))
      BY <3>1, <3>2, <3>3, <3>4 DEF CoverageOf
    <3> QED BY <3>5, <3>6
  <2> QED BY <2>3, <2>4
<1> QED BY <1>1, AlwaysApplied, PTL

-----------------------------------------------------------------------------
(* Judgement.                                                              *)

\* A set counted at two or more has two elements, finite or not.
LEMMA TwoElements ==
  ASSUME NEW S, NEW n \in Nat, n >= 2, Cardinality(S) >= n
  PROVE  \E a, b \in S : a # b
<1>1. S # {}
  <2>1. Cardinality({}) = 0
    BY FS_EmptySet
  <2> QED BY <2>1
<1>2. PICK a \in S : TRUE
  BY <1>1
<1>3. S # {a}
  <2>1. Cardinality({a}) = 1
    BY FS_Singleton
  <2> QED BY <2>1
<1> QED BY <1>2, <1>3

\* An item as the catalog is about to be looked at.
Admitted(item) ==
  [item EXCEPT !.risk = Known(@), !.evidence = @ \cap DOMAIN Catalog,
               !.read = {t \in @ : t.id \in DOMAIN Catalog}]

\* What an item becomes, under the name of the source that answered.
Voiced(item, stage, source) ==
  [AsObservation(SanitizedItem(item, Catalog), stage) EXCEPT !.source = source]

\* A concern that counts under an enforceable rule is one its item stands by.
LEMMA EligibleStands ==
  ASSUME NEW item \in AnswerItem, NEW stage, NEW source, NEW r \in Risk,
         Rule[r].authority = "enforce",
         NEW o, o = Voiced(item, stage, source),
         o.state = "concern", o.risk = r, o.evidence # {}, Eligible(o)
  PROVE  o.stage = stage /\ o.source = source /\ StandsBy(item, r)
<1> DEFINE base == Admitted(item)
           d == Disarmed(base)
<1>1. /\ base.risk = Known(item.risk) /\ base.state = item.state
      /\ base.severity = item.severity /\ base.intent = item.intent
      /\ base.confidence = item.confidence /\ base.says = item.says
      /\ base.evidence = item.evidence \cap DOMAIN Catalog
  BY DEF Admitted, AnswerItem
<1>2. /\ "state" \in DOMAIN d /\ d.risk = base.risk /\ d.evidence = base.evidence
      /\ \/ d = base /\ ~(base.state = "concern" /\ "ambiguous" \in base.says)
         \/ d.state = "not_checked"
         \/ /\ d.state = base.state /\ d.confidence = base.confidence
            /\ d.intent = "ambiguous" /\ d.severity # "reject"
  BY DEF Admitted, AnswerItem, Disarmed
<1>3. SanitizedItem(item, Catalog) =
        IF OnlyStills(d, Catalog) \/ EdgeOfSample(d, Catalog) \/ NoCaptionHeard(d, Catalog)
        THEN [d EXCEPT !.state = "not_checked", !.severity = "info", !.confidence = 0,
                       !.intent = IF EdgeOfSample(d, Catalog) THEN @ ELSE "unknown"]
        ELSE d
  BY DEF SanitizedItem, Admitted
<1> HIDE DEF base, d
<1>4. /\ o.stage = stage /\ o.source = source
      /\ o.state = SanitizedItem(item, Catalog).state
      /\ o.risk = SanitizedItem(item, Catalog).risk
      /\ o.confidence = SanitizedItem(item, Catalog).confidence
      /\ o.severity = SanitizedItem(item, Catalog).severity
      /\ o.intent = SanitizedItem(item, Catalog).intent
      /\ o.evidence = SanitizedItem(item, Catalog).evidence
  BY DEF Voiced, AsObservation
\* The catalog does not take the concern back.
<1>5. /\ SanitizedItem(item, Catalog) = d
      /\ ~OnlyStills(d, Catalog) /\ ~NoCaptionHeard(d, Catalog)
  BY <1>2, <1>3, <1>4
<1>6. d.state = "concern" /\ d.risk = r /\ d.evidence # {}
  BY <1>4, <1>5
<1>7. item.risk = r
  BY <1>1, <1>2, <1>6, JudgeAssumption DEF Known
<1>8. /\ item.state = "concern" /\ d.confidence = item.confidence
      /\ d.severity = "reject" => item.severity = "reject"
      /\ d.intent = "confirmed_defect" => "ambiguous" \notin item.says
  BY <1>1, <1>2, <1>6
<1>9. /\ d.confidence >= Rule[r].confidence
      /\ Rule[r].severity = "reject" => d.severity = "reject"
      /\ Rule[r].intent = "confirmed_defect" => d.intent = "confirmed_defect"
  BY <1>4, <1>5, <1>6 DEF Eligible
<1>10. LET cited == item.evidence \cap DOMAIN Catalog
       IN /\ cited # {}
          /\ r = Temporal => \E e \in cited : Catalog[e].type # "frame"
          /\ r \in CaptionRisks => \E e \in cited : Catalog[e].type = "audio_window"
  BY <1>1, <1>2, <1>5, <1>6 DEF OnlyStills, NoCaptionHeard
<1> QED BY <1>4, <1>6, <1>7, <1>8, <1>9, <1>10 DEF StandsBy

\* An observation made of an answer is made of one of its first twelve items.
LEMMA ObservedItem ==
  ASSUME NEW items \in Seq(AnswerItem), NEW stage, NEW o \in Sanitize(items, stage, Catalog)
  PROVE  \E item \in Within12(items) :
           item \in AnswerItem /\ o = AsObservation(SanitizedItem(item, Catalog), stage)
<1> DEFINE read == Prefix(items, 12)
<1>1. PICK i \in DOMAIN read : o = AsObservation(SanitizedItem(read[i], Catalog), stage)
  BY DEF Sanitize
<1>2. Len(items) \in Nat
  OBVIOUS
<1>3. DOMAIN read = 1..Least(Len(items), 12) /\ read[i] = items[i] /\ items[i] \in AnswerItem
  BY <1>1, <1>2 DEF Prefix, Least
<1> QED BY <1>1, <1>3 DEF Within12

\* The observations of the three answers, apart.
LEMMA AnsweredBy ==
  ASSUME NEW input \in JudgeInput, NEW o \in ObservationsFor(input), NEW r \in Risk,
         Rule[r].authority = "enforce",
         o.state = "concern", o.risk = r, o.evidence # {}, Eligible(o)
  PROVE  \/ /\ o.stage = "visual" /\ o.source = "first"
            /\ \E item \in Within12(input.visual) : StandsBy(item, r)
         \/ /\ o.stage = "jury" /\ o.source = "second"
            /\ \E item \in Within12(input.jury) : StandsBy(item, r)
         \/ /\ o.stage = "synthesis" /\ o.source = "first"
            /\ \E item \in Within12(input.synthesis) : StandsBy(item, r)
<1>1. ASSUME NEW items \in Seq(AnswerItem), NEW stage, NEW source,
             NEW w \in Sanitize(items, stage, Catalog), o = [w EXCEPT !.source = source]
      PROVE  /\ o.stage = stage /\ o.source = source
             /\ \E item \in Within12(items) : StandsBy(item, r)
  <2>1. PICK item \in Within12(items) :
          item \in AnswerItem /\ w = AsObservation(SanitizedItem(item, Catalog), stage)
    BY <1>1, ObservedItem
  <2>2. item \in AnswerItem /\ o = Voiced(item, stage, source)
    BY <1>1, <2>1 DEF Voiced
  <2>3. o.stage = stage /\ o.source = source /\ StandsBy(item, r)
    BY <2>2, EligibleStands
  <2> QED BY <2>3
<1>2. /\ input.visual \in Seq(AnswerItem) /\ input.jury \in Seq(AnswerItem)
      /\ input.synthesis \in Seq(AnswerItem)
  BY JudgeAssumption
<1>3. \/ \E w \in Sanitize(input.visual, "visual", Catalog) : o = [w EXCEPT !.source = "first"]
      \/ \E w \in Sanitize(input.jury, "jury", Catalog) : o = [w EXCEPT !.source = "second"]
      \/ \E w \in Sanitize(input.synthesis, "synthesis", Catalog) :
           o = [w EXCEPT !.source = "first"]
  BY DEF ObservationsFor
<1> QED BY <1>1, <1>2, <1>3

\* No single answer rejects a delivery, whatever it contains and whatever the
\* evidence it was given (sanitize_observations, decide).
THEOREM RejectsOnlySupported == Spec => []OnlySupportedRejects
<1>1. Applied => OnlySupportedRejects
  <2> SUFFICES ASSUME Applied, rule = "judgement",
                      Decide("pass", "complete", ObservationsFor(given), "enforce", TRUE, Risk)
                        = "REJECT"
               PROVE  \E r \in Risk :
                        /\ Rule[r].authority = "enforce"
                        /\ \A items \in {given.visual, given.jury, given.synthesis} :
                             \E item \in Within12(items) : StandsBy(item, r)
    BY DEF OnlySupportedRejects
  <2> DEFINE obs == ObservationsFor(given)
  <2>1. given \in JudgeInput
    BY DEF Applied
  <2>2. Proposed("complete", obs, TRUE, Risk) = "REJECT"
    BY DEF Decide, Gate, Join, NormalizeMode, Mode, Stricter, Strictness, Proposed
  <2> HIDE DEF obs
  <2>3. PICK r \in Flagged(obs) : Qualified(obs, r) /\ Rule[r].authority = "enforce"
    BY <2>2 DEF Proposed
  <2>4. r \in Risk
    BY DEF Flagged, Concerns
  <2>5. Rule[r].sources \in Nat /\ Rule[r].sources >= 2
    BY <2>3, <2>4, PolicyAssumption DEF RuleType
  <2>6. PICK a, b \in SourcesOf(obs, r) : a # b
    BY <2>3, <2>5, TwoElements DEF Qualified
  <2>7. ASSUME NEW o \in obs, o.state = "concern", o.risk = r, o.evidence # {}, Eligible(o)
        PROVE  \/ /\ o.stage = "visual" /\ o.source = "first"
                  /\ \E item \in Within12(given.visual) : StandsBy(item, r)
               \/ /\ o.stage = "jury" /\ o.source = "second"
                  /\ \E item \in Within12(given.jury) : StandsBy(item, r)
               \/ /\ o.stage = "synthesis" /\ o.source = "first"
                  /\ \E item \in Within12(given.synthesis) : StandsBy(item, r)
    BY <2>1, <2>3, <2>4, <2>7, AnsweredBy DEF obs
  <2>8. /\ \E item \in Within12(given.visual) : StandsBy(item, r)
        /\ \E item \in Within12(given.jury) : StandsBy(item, r)
    BY <2>6, <2>7 DEF SourcesOf, Accepted, Concerns, FromSynthesis
  <2>9. \E item \in Within12(given.synthesis) : StandsBy(item, r)
    BY <2>3, <2>7 DEF Qualified, SynthesisAgrees, Concerns, FromSynthesis
  <2> QED BY <2>3, <2>4, <2>8, <2>9
<1> QED BY <1>1, AlwaysApplied, PTL

-----------------------------------------------------------------------------
(* Order.                                                                  *)

LEMMA LeastNumber ==
  ASSUME NEW T \in SUBSET Nat, T # {}
  PROVE  \E m \in T : \A k \in T : m <= k
<1>1. PICK m \in T : \A k \in T : ~(<<k, m>> \in OpToRel(<, Nat))
  BY NatLessThanWellFounded, WFMin
<1>2. ASSUME NEW k \in T PROVE m <= k
  <2>1. k \in Nat /\ m \in Nat
    BY <1>1
  <2>2. OpToRel(<, Nat) = {ss \in Nat \X Nat : ss[1] < ss[2]}
    BY DEF OpToRel
  <2>3. ~(k < m)
    BY <1>1, <2>1, <2>2
  <2> QED BY <2>1, <2>3
<1> QED BY <1>2

\* Places in an order, all different, are all taken.
LEMMA RanksTaken ==
  ASSUME NEW D, IsFiniteSet(D), NEW rank \in [D -> 0..(Cardinality(D) - 1)],
         \A x, y \in D : rank[x] = rank[y] => x = y,
         NEW k \in 0..(Cardinality(D) - 1)
  PROVE  \E x \in D : rank[x] = k
<1> DEFINE n == Cardinality(D)
           R == 0..(n - 1)
<1>1. n \in Nat
  BY FS_CardinalityType
<1> HIDE DEF n
<1>2. IsFiniteSet(R) /\ Cardinality(R) = n
  BY <1>1, FS_Interval
<1>3. rank \in Injection(D, R)
  BY DEF Injection, IsInjective, n
<1> HIDE DEF R
<1>4. Cardinality(D) = Cardinality(R)
  BY <1>2 DEF n
<1>5. rank \in Surjection(D, R)
  BY <1>2, <1>3, <1>4, FS_Injection
<1> QED BY <1>5 DEF Surjection, R, n

\* A part counts for less than a larger one.
LEMMA PartCounts ==
  ASSUME NEW S, IsFiniteSet(S), NEW T \in SUBSET S, NEW x \in S, x \notin T
  PROVE  Cardinality(T) \in Nat /\ Cardinality(S) \in Nat /\ Cardinality(T) < Cardinality(S)
<1>1. IsFiniteSet(T) /\ Cardinality(T) <= Cardinality(S) /\ Cardinality(T) # Cardinality(S)
  BY FS_Subset
<1>2. Cardinality(T) \in Nat /\ Cardinality(S) \in Nat
  BY <1>1, FS_CardinalityType
<1> QED BY <1>1, <1>2

\* The times in order are the times, each later than the one before.
LEMMA OrderedTimes ==
  ASSUME NEW S \in SUBSET Int, IsFiniteSet(S)
  PROVE  /\ Cardinality(S) \in Nat
         /\ Ordered(S) \in [1..Cardinality(S) -> S]
         /\ \A i, j \in 1..Cardinality(S) : i < j => Ordered(S)[i] < Ordered(S)[j]
         /\ \A t \in S : \E i \in 1..Cardinality(S) : Ordered(S)[i] = t
<1> DEFINE n == Cardinality(S)
           Below(t) == {u \in S : u < t}
           rank == [t \in S |-> Cardinality(Below(t))]
           s == Ordered(S)
<1>1. n \in Nat /\ \A t \in S : t \in Int
  BY FS_CardinalityType
<1>2. ASSUME NEW t \in S
      PROVE  Cardinality(Below(t)) \in Nat /\ Cardinality(Below(t)) < n
  BY PartCounts
<1>3. ASSUME NEW t \in S, NEW u \in S, t < u
      PROVE  Cardinality(Below(t)) < Cardinality(Below(u))
  <2>1. t \in Below(u) /\ t \notin Below(t)
    BY <1>1, <1>3
  <2> HIDE DEF rank, s
  <2>3. ASSUME NEW v \in Below(t) PROVE v \in Below(u)
    BY <1>1, <1>3, <2>3
  <2>2. IsFiniteSet(Below(u))
    BY FS_Subset
  <2> QED BY <2>1, <2>2, <2>3, PartCounts
<1> HIDE DEF n, Below
<1>4. rank \in [S -> 0..(n - 1)]
  BY <1>1, <1>2
<1>5. \A t, u \in S : rank[t] = rank[u] => t = u
  <2> SUFFICES ASSUME NEW t \in S, NEW u \in S, rank[t] = rank[u], t # u PROVE FALSE
    OBVIOUS
  <2>1. t < u \/ u < t
    OBVIOUS
  <2> QED BY <1>2, <1>3, <2>1
<1>6. ASSUME NEW i \in 1..n PROVE s[i] \in S /\ Cardinality(Below(s[i])) = i - 1
  <2>1. s[i] = CHOOSE t \in S : Cardinality(Below(t)) = i - 1
    BY <1>6 DEF Ordered, Below, n
  <2>2. i - 1 \in 0..(n - 1)
    BY <1>1
  <2> HIDE DEF rank, s
  <2>3. \E t \in S : rank[t] = i - 1
    BY <1>4, <1>5, <2>2, RanksTaken DEF n
  <2>4. \E t \in S : Cardinality(Below(t)) = i - 1
    BY <2>3 DEF rank
  <2> QED BY <2>1, <2>4
<1>7. s \in [1..n -> S]
  <2>1. s = [i \in 1..n |-> s[i]]
    BY DEF Ordered, n
  <2> QED BY <1>6, <2>1
<1>8. ASSUME NEW i \in 1..n, NEW j \in 1..n, i < j PROVE s[i] < s[j]
  <2>1. s[i] \in S /\ s[j] \in S /\ Cardinality(Below(s[i])) = i - 1
        /\ Cardinality(Below(s[j])) = j - 1 /\ s[i] \in Int /\ s[j] \in Int
    BY <1>1, <1>6
  <2> HIDE DEF s
  <2>2. s[i] # s[j]
    BY <1>8, <2>1
  <2>3. s[j] < s[i] => j - 1 < i - 1
    BY <1>3, <2>1
  <2> QED BY <1>1, <1>8, <2>1, <2>2, <2>3
<1>9. ASSUME NEW t \in S PROVE \E i \in 1..n : s[i] = t
  <2> DEFINE i == rank[t] + 1
  <2>1. i \in 1..n /\ Cardinality(Below(t)) = i - 1
    BY <1>1, <1>4
  <2> HIDE DEF i
  <2>2. s[i] \in S /\ Cardinality(Below(s[i])) = i - 1
    BY <1>6, <2>1
  <2>3. s[i] = t
    BY <1>5, <2>1, <2>2
  <2> QED BY <2>1, <2>3
<1> QED BY <1>1, <1>7, <1>8, <1>9 DEF n

\* What is chosen of a sequence is what stands at the positions, in their order.
LEMMA AmongElements ==
  ASSUME NEW S, NEW s \in Seq(S), NEW I \in SUBSET DOMAIN s
  PROVE  /\ IsFiniteSet(I) /\ Cardinality(I) \in Nat
         /\ Among(s, I) \in Seq(S) /\ Len(Among(s, I)) = Cardinality(I)
         /\ Ordered(I) \in [1..Cardinality(I) -> I]
         /\ \A k \in 1..Cardinality(I) : Among(s, I)[k] = s[Ordered(I)[k]]
         /\ \A i \in I : \E k \in 1..Cardinality(I) : Ordered(I)[k] = i /\ Among(s, I)[k] = s[i]
<1>1. IsFiniteSet(I) /\ I \in SUBSET Int /\ I \in SUBSET (1..Len(s))
  <2>1. IsFiniteSet(1..Len(s))
    BY FS_Interval
  <2> QED BY <2>1, FS_Subset
<1> DEFINE n == Cardinality(I)
           o == Ordered(I)
<1>2. /\ n \in Nat /\ o \in [1..n -> I]
      /\ \A i \in I : \E k \in 1..n : o[k] = i
  BY <1>1, OrderedTimes
<1>3. Among(s, I) = [k \in 1..n |-> s[o[k]]]
  BY <1>2 DEF Among
<1> HIDE DEF n, o
<1>4. \A k \in 1..n : s[o[k]] \in S
  BY <1>1, <1>2
<1>5. Among(s, I) \in Seq(S) /\ Len(Among(s, I)) = n
  BY <1>2, <1>3, <1>4
<1>6. \A k \in 1..n : Among(s, I)[k] = s[o[k]]
  BY <1>3
<1> QED BY <1>1, <1>2, <1>5, <1>6 DEF n, o

\* Arranging neither adds nor loses an element.
LEMMA ArrangedElements ==
  ASSUME NEW S, NEW s \in Seq(S), NEW key \in [DOMAIN s -> Int]
  PROVE  /\ Arranged(s, key) \in Seq(S) /\ Len(Arranged(s, key)) = Len(s)
         /\ \A n \in DOMAIN s : \E i \in DOMAIN s : Arranged(s, key)[n] = s[i]
         /\ \A i \in DOMAIN s : \E n \in DOMAIN s : Arranged(s, key)[n] = s[i]
<1> DEFINE D == DOMAIN s
           Before(j, i) == key[j] < key[i] \/ (key[j] = key[i] /\ j < i)
           Earlier(i) == {j \in D : Before(j, i)}
           rank == [i \in D |-> Cardinality(Earlier(i))]
           m == Len(s)
           a == Arranged(s, key)
<1>1. /\ m \in Nat /\ D = 1..m /\ IsFiniteSet(D) /\ Cardinality(D) = m
      /\ \A i \in D : i \in Int /\ key[i] \in Int
  <2>1. m \in Nat /\ D = 1..m
    OBVIOUS
  <2>2. IsFiniteSet(1..m) /\ Cardinality(1..m) = m
    <3> HIDE DEF m
    <3> QED BY <2>1, FS_Interval
  <2> QED BY <2>1, <2>2
<1>2. \A i, j \in D : i # j => Before(i, j) \/ Before(j, i)
  BY <1>1
<1>3. \A i \in D : ~Before(i, i)
  BY <1>1
<1>4. \A i, j, k \in D : Before(i, j) /\ Before(j, k) => Before(i, k)
  BY <1>1
<1> HIDE DEF D, m, Before
<1>5. ASSUME NEW i \in D
      PROVE  Cardinality(Earlier(i)) \in Nat /\ Cardinality(Earlier(i)) < m
  <2>1. Earlier(i) \in SUBSET D /\ i \notin Earlier(i)
    BY <1>3
  <2> HIDE DEF Earlier
  <2> QED BY <1>1, <2>1, PartCounts
<1>6. ASSUME NEW i \in D, NEW j \in D, Before(i, j)
      PROVE  Cardinality(Earlier(i)) < Cardinality(Earlier(j))
  <2>1. Earlier(i) \in SUBSET Earlier(j) /\ i \in Earlier(j) /\ i \notin Earlier(i)
    BY <1>3, <1>4, <1>6
  <2>2. IsFiniteSet(Earlier(j))
    BY <1>1, FS_Subset
  <2> HIDE DEF Earlier
  <2> QED BY <2>1, <2>2, PartCounts
<1> HIDE DEF Earlier
<1>7. rank \in [D -> 0..(Cardinality(D) - 1)]
  BY <1>1, <1>5
<1>8. \A i, j \in D : rank[i] = rank[j] => i = j
  BY <1>2, <1>5, <1>6
<1>9. a = [n \in D |-> s[CHOOSE i \in D : Cardinality(Earlier(i)) = n - 1]]
  BY DEF Arranged, D, Earlier, Before
<1> HIDE DEF rank, a
<1>10. ASSUME NEW n \in D
       PROVE  \E i \in D : a[n] = s[i] /\ Cardinality(Earlier(i)) = n - 1
  <2> DEFINE i == CHOOSE i \in D : Cardinality(Earlier(i)) = n - 1
  <2>1. n - 1 \in 0..(Cardinality(D) - 1)
    BY <1>1
  <2> HIDE DEF i
  <2>2. \E j \in D : rank[j] = n - 1
    <3> DEFINE k == n - 1
    <3>1. k \in 0..(Cardinality(D) - 1) /\ IsFiniteSet(D)
      BY <1>1, <2>1
    <3> HIDE DEF k
    <3>2. \E j \in D : rank[j] = k
      BY ONLY <1>7, <1>8, <3>1, RanksTaken
    <3> QED BY <3>2 DEF k
  <2> USE DEF i
  <2>3. i \in D /\ Cardinality(Earlier(i)) = n - 1
    BY <2>2 DEF rank
  <2> QED BY <1>9, <2>3
<1>11. ASSUME NEW i \in D PROVE \E n \in D : a[n] = s[i]
  <2> DEFINE n == rank[i] + 1
  <2>1. n \in D /\ rank[i] = n - 1
    BY <1>1, <1>7
  <2> HIDE DEF n
  <2>2. PICK j \in D : a[n] = s[j] /\ Cardinality(Earlier(j)) = n - 1
    BY <1>10, <2>1
  <2>3. j = i
    BY <1>8, <2>1, <2>2 DEF rank
  <2> QED BY <2>1, <2>2, <2>3
<1>12. \A i \in D : s[i] \in S
  BY DEF D
<1>13. a \in [1..m -> S]
  BY <1>1, <1>9, <1>10, <1>12
<1>14. a \in Seq(S) /\ Len(a) = m
  BY <1>1, <1>13
<1> QED BY <1>10, <1>11, <1>14 DEF a, D, m

-----------------------------------------------------------------------------
(* The synthetic lane.                                                     *)

LEMMA MoreThanOne ==
  ASSUME NEW S, Cardinality(S) > 1
  PROVE  \E a, b \in S : a # b
<1>1. S # {}
  <2>1. Cardinality({}) = 0
    BY FS_EmptySet
  <2> QED BY <2>1
<1>2. PICK a \in S : TRUE
  BY <1>1
<1>3. S # {a}
  <2>1. Cardinality({a}) = 1
    BY FS_Singleton
  <2> QED BY <2>1
<1> QED BY <1>2, <1>3

\* Whatever the planner left out or made up, a plan speaks of registered risks.
LEMMA PlanIsRegistered ==
  ASSUME NEW reply, NEW a \in DOMAIN NormalizePlan(reply)
  PROVE  NormalizePlan(reply)[a] \in GeneratedRisk
<1> DEFINE kept == IF reply \in Unusable THEN <<>>
                   ELSE [x \in {y \in DOMAIN reply : reply[y] \in GeneratedRisk} |-> reply[x]]
           baseline == GeneratedRisk \ {kept[x] : x \in DOMAIN kept}
<1>1. NormalizePlan(reply) =
        [x \in DOMAIN kept \cup baseline |-> IF x \in DOMAIN kept THEN kept[x] ELSE x]
  BY DEF NormalizePlan
<1>2. \A x \in DOMAIN kept : kept[x] \in GeneratedRisk
  <2>1. CASE reply \in Unusable
    BY <2>1
  <2>2. CASE reply \notin Unusable
    BY <2>2
  <2> QED BY <2>1, <2>2
<1> HIDE DEF kept
<1> QED BY <1>1, <1>2

\* Nor does a ledger speak of others.
LEMMA LedgerIsRegistered ==
  ASSUME NEW reply, NEW evidence,
         reply \notin Unusable =>
           /\ IsList(reply)
           /\ \A i \in DOMAIN reply : {"at", "anomalies"} \subseteq DOMAIN reply[i] /\ reply[i].at \in Int,
         NEW i \in DOMAIN NormalizeLedger(reply, evidence)
  PROVE  NormalizeLedger(reply, evidence)[i].anomalies \subseteq GeneratedRisk
<1> DEFINE S == {reply[j] : j \in DOMAIN reply}
           I == {j \in DOMAIN reply : reply[j].at \in evidence}
           supplied == Among(reply, I)
           kept == [j \in DOMAIN supplied |->
                      [supplied[j] EXCEPT !.anomalies = @ \cap GeneratedRisk]]
           key == [j \in DOMAIN kept |-> kept[j].at]
<1>1. reply \notin Unusable
  BY DEF NormalizeLedger
<1>2. reply \in Seq(S) /\ I \in SUBSET DOMAIN reply
  BY <1>1 DEF IsList
<1>3. /\ NormalizeLedger(reply, evidence) = Arranged(kept, key)
  BY <1>1 DEF NormalizeLedger
<1>4. \A x \in S : {"at", "anomalies"} \subseteq DOMAIN x /\ x.at \in Int
  BY <1>1
<1> HIDE DEF S, I
<1>5. supplied \in Seq(S)
  BY <1>2, AmongElements
<1> HIDE DEF supplied
<1>6. \A j \in DOMAIN supplied : supplied[j] \in S
  BY <1>5
<1>7. \A j \in DOMAIN kept : kept[j].anomalies \subseteq GeneratedRisk /\ kept[j].at \in Int
  BY <1>4, <1>6
<1>8. key \in [DOMAIN kept -> Int]
  BY <1>7
<1> DEFINE K == {kept[j] : j \in DOMAIN kept}
<1>9. kept \in Seq(K)
  BY <1>5
<1> HIDE DEF kept, key, K
<1>10. \E j \in DOMAIN kept : Arranged(kept, key)[i] = kept[j]
  <2>1. Arranged(kept, key) \in Seq(K) /\ Len(Arranged(kept, key)) = Len(kept)
    BY <1>8, <1>9, ArrangedElements
  <2>2. i \in DOMAIN kept
    BY <1>3, <1>9, <2>1
  <2> QED BY <1>8, <1>9, <2>2, ArrangedElements
<1> QED BY <1>3, <1>7, <1>10

\* The readings of a list are a list, of those readings.
LEMMA ReadingsAreList ==
  ASSUME NEW reply, NEW crops, reply \notin Unusable => IsList(reply)
  PROVE  IsList(NormalizeText(reply, crops))
<1>1. CASE reply \in Unusable
  BY <1>1 DEF NormalizeText, IsList
<1>2. CASE reply \notin Unusable
  <2> DEFINE S == {reply[i] : i \in DOMAIN reply}
             I == {i \in DOMAIN reply : reply[i].crop \in crops}
  <2>1. reply \in Seq(S) /\ I \in SUBSET DOMAIN reply /\ NormalizeText(reply, crops) = Among(reply, I)
    BY <1>2 DEF IsList, NormalizeText
  <2> HIDE DEF S, I
  <2>2. Among(reply, I) \in Seq(S)
    BY <2>1, AmongElements
  <2> QED BY <2>1, <2>2 DEF IsList
<1> QED BY <1>1, <1>2

\* A text read in two ways changed between two neighbours, wherever the readings
\* that disagree stand in the reply.
LEMMA ChangeIsFound ==
  ASSUME NEW readings, IsList(readings), NEW t \in {readings[i].track : i \in DOMAIN readings},
         Cardinality(Legible(readings, t)) > 1
  PROVE  \E f \in CompareText(readings) : f.risk = "rendered_text" /\ f.what = t
<1> DEFINE items == Track(readings, t)
           texts == {items[i].text : i \in DOMAIN items}
           n == Len(items)
<1>1. items \in Seq({readings[i] : i \in DOMAIN readings})
  BY AmongElements DEF IsList, Track
<1>2. Cardinality({}) = 0
  BY FS_EmptySet
<1>3. Blank \notin texts /\ Cardinality(texts) > 1
  BY <1>2 DEF Legible
<1>4. n \in Nat /\ DOMAIN items = 1..n
  BY <1>1
<1>5. PICK a \in texts, b \in texts : a # b
  <2> HIDE DEF texts
  <2> QED BY <1>3, MoreThanOne
<1> DEFINE first == items[1].text
           T == {k \in 1..n : items[k].text # first}
<1>6. T # {} /\ T \in SUBSET Nat
  BY <1>4, <1>5
<1>7. PICK m \in T : \A k \in T : m <= k
  BY <1>6, LeastNumber
<1> HIDE DEF items
<1>8. m \in 1..n /\ m # 1 /\ m - 1 \in 1..n /\ items[m].text # first
  BY <1>4, <1>7
<1>9. items[m - 1].text = first
  BY <1>4, <1>7, <1>8
<1> DEFINE j == m - 1
<1>10. j \in 1..(n - 1) /\ j + 1 = m
  BY <1>4, <1>8
<1> HIDE DEF j
<1>11. Differ(items[j].text, items[j + 1].text)
  <2>1. items[j].text \in texts /\ items[j + 1].text \in texts
    BY <1>4, <1>8, <1>10
  <2>2. items[j].text # items[j + 1].text
    BY <1>8, <1>9, <1>10 DEF j
  <2> HIDE DEF texts
  <2> QED BY <1>3, <2>1, <2>2 DEF Differ
<1> DEFINE f == Finding("rendered_text", t, <<items[j].crop, items[j + 1].crop>>)
<1>12. f \in CompareText(readings)
  <2>1. f \in {Finding("rendered_text", t, <<items[i].crop, items[i + 1].crop>>) :
                 i \in {k \in 1..(Len(items) - 1) : Differ(items[k].text, items[k + 1].text)}}
    BY <1>10, <1>11
  <2> QED BY <2>1 DEF CompareText, items
<1>13. f.risk = "rendered_text" /\ f.what = t
  BY DEF Finding
<1> QED BY <1>12, <1>13

\* A comparison of snapshots finds registered risks.
LEMMA ComparedIsRegistered ==
  ASSUME NEW ledger, NEW plan,
         \A i \in DOMAIN ledger : ledger[i].anomalies \subseteq GeneratedRisk,
         \A a \in DOMAIN plan : plan[a] \in GeneratedRisk,
         NEW f \in CompareLedger(ledger, plan)
  PROVE  f.risk \in GeneratedRisk
<1>1. CASE \E i \in DOMAIN ledger : f \in Observed(ledger[i], plan)
  BY <1>1 DEF Observed, Finding
<1>2. CASE \E i \in 1..(Len(ledger) - 1) : f \in Continuity(ledger[i], ledger[i + 1])
  BY <1>2 DEF Continuity, Finding, GeneratedRisk
<1>3. \/ \E i \in DOMAIN ledger : f \in Observed(ledger[i], plan)
      \/ \E i \in 1..(Len(ledger) - 1) : f \in Continuity(ledger[i], ledger[i + 1])
  BY DEF CompareLedger
<1> QED BY <1>1, <1>2, <1>3

\* What the lane answers for an asset with pictures: its findings, whatever the
\* juror said, and what they leave of the table.
LEMMA Inspected ==
  ASSUME NEW input \in AssetInput
  PROVE  LET run == Synthesize(input.asset, input.replies)
         IN /\ \A f \in run.findings : f.risk \in GeneratedRisk
            /\ run.coverage \in [GeneratedRisk -> {"SUSPECTED", "ASSESSED", "REVIEW_REQUIRED"}]
            /\ \A f \in run.findings : run.coverage[f.risk] = "SUSPECTED"
            /\ IsList(run.readings)
            /\ CompareText(run.readings) \subseteq run.findings
            /\ \A c \in run.checks : c.status = "pass" => c.name = "ai_prompt_adherence"
<1> DEFINE asset == input.asset
           replies == input.replies
           plan == NormalizePlan(replies.plan)
           coarseReply == IF asset.coarse = {} THEN Failed ELSE replies.coarse
           coarse == NormalizeLedger(coarseReply, asset.coarse)
           first == CompareLedger(coarse, plan)
           dense == UNION {asset.fine[t] : t \in CandidateTimecodes(first)}
           fineReply == IF dense = {} THEN Failed ELSE replies.fine
           fine == NormalizeLedger(fineReply, dense)
           second == CompareLedger(fine, plan)
           crops == IF asset.typography THEN TextCrops(<<coarse, fine>>) ELSE {}
           textReply == IF crops = {} THEN Failed ELSE replies.text
           readings == NormalizeText(textReply, crops)
           verdicts == ReplayVerdicts(CompareText(readings), replies.juror, crops)
           low == {Finding("prompt_elements", "adherence", <<>>) :
                     n \in {x \in Adherence(asset, replies) : x < 70}}
           findings == Artifacts(asset, replies) \cup first \cup second \cup DOMAIN verdicts
                       \cup low
           run == Synthesize(asset, replies)
<1>1. /\ run.findings = findings /\ run.readings = readings
      /\ run.coverage = GeneratedCoverage(plan, {coarse, fine}, findings)
  BY DEF Synthesize
<1>2. \A c \in run.checks : c.status = "pass" => c.name = "ai_prompt_adherence"
  <2> DEFINE Warns(cond) == IF cond THEN "warn" ELSE "info"
             moved == Warns(\E f \in first \cup second : f.risk # "rendered_text")
             text == Warns(DOMAIN verdicts # {})
             artifact == Warns(Artifacts(asset, replies) # {})
             score == IF Adherence(asset, replies) = {} THEN "info"
                      ELSE IF low = {} THEN "pass" ELSE "warn"
  <2>1. run.checks =
          {Row("ai_generated_qc_plan", "info"), Row("ai_generated_risk_coverage", "info"),
           Row("ai_temporal_coherence", moved), Row("ai_rendered_text_integrity", text)}
          \cup (IF asset.stills THEN {Row("ai_synthetic_artifacts", artifact)} ELSE {})
          \cup (IF asset.manifest /\ (~asset.prompt \/ asset.stills)
                THEN {Row("ai_prompt_adherence", score)} ELSE {})
    BY DEF Synthesize
  <2>2. moved # "pass" /\ text # "pass" /\ artifact # "pass"
    OBVIOUS
  <2> HIDE DEF run, moved, text, artifact, score
  <2> QED BY <2>1, <2>2 DEF Row
<1>3. DOMAIN verdicts = CompareText(readings)
  BY DEF ReplayVerdicts
<1>4. \A a \in DOMAIN plan : plan[a] \in GeneratedRisk
  BY PlanIsRegistered
<1>5. \A reply \in {coarseReply, fineReply} :
        reply \notin Unusable =>
          /\ IsList(reply)
          /\ \A i \in DOMAIN reply : {"at", "anomalies"} \subseteq DOMAIN reply[i] /\ reply[i].at \in Int
  BY AssetAssumption DEF Unusable
<1>6. textReply \notin Unusable => IsList(textReply)
  BY AssetAssumption DEF Unusable
<1> HIDE DEF coarseReply, fineReply, textReply, plan, crops, verdicts, dense
<1>7. \A i \in DOMAIN coarse : coarse[i].anomalies \subseteq GeneratedRisk
  BY <1>5, LedgerIsRegistered
<1>8. \A i \in DOMAIN fine : fine[i].anomalies \subseteq GeneratedRisk
  BY <1>5, LedgerIsRegistered
<1>9. IsList(readings)
  BY <1>6, ReadingsAreList
<1> HIDE DEF coarse, fine, readings
<1>10. \A f \in first \cup second : f.risk \in GeneratedRisk
  BY <1>4, <1>7, <1>8, ComparedIsRegistered
<1>11. \A f \in Artifacts(asset, replies) \cup low : f.risk \in GeneratedRisk
  BY DEF Artifacts, ArtifactRisk, Finding, GeneratedRisk
<1>12. \A f \in CompareText(readings) : f.risk \in GeneratedRisk
  BY DEF CompareText, Finding, GeneratedRisk
<1>13. \A f \in findings : f.risk \in GeneratedRisk
  BY <1>3, <1>10, <1>11, <1>12
<1>14. CompareText(readings) \subseteq findings
  BY <1>3
<1> HIDE DEF findings, run
<1>15. /\ run.coverage \in [GeneratedRisk -> {"SUSPECTED", "ASSESSED", "REVIEW_REQUIRED"}]
       /\ \A f \in findings : run.coverage[f.risk] = "SUSPECTED"
  BY <1>1, <1>13 DEF GeneratedCoverage
<1> QED BY <1>1, <1>2, <1>9, <1>13, <1>14, <1>15 DEF run

\* The lane's findings and table do not depend on the juror, and without one the
\* lane comes to its end where it did with one.
LEMMA JurorAddsNothing ==
  ASSUME NEW asset, NEW replies, NEW others,
         others.plan = replies.plan, others.artifacts = replies.artifacts,
         others.coarse = replies.coarse, others.fine = replies.fine,
         others.text = replies.text, others.adherence = replies.adherence,
         others.juror # Malformed
  PROVE  /\ Synthesize(asset, replies).findings = Synthesize(asset, others).findings
         /\ Synthesize(asset, replies).coverage = Synthesize(asset, others).coverage
         /\ ~Synthesize(asset, replies).raised => ~Synthesize(asset, others).raised
<1> DEFINE plan(r) == NormalizePlan(r.plan)
           coarse(r) == NormalizeLedger(IF asset.coarse = {} THEN Failed ELSE r.coarse,
                                        asset.coarse)
           first(r) == CompareLedger(coarse(r), plan(r))
           dense(r) == UNION {asset.fine[t] : t \in CandidateTimecodes(first(r))}
           fine(r) == NormalizeLedger(IF dense(r) = {} THEN Failed ELSE r.fine, dense(r))
           second(r) == CompareLedger(fine(r), plan(r))
           crops(r) == IF asset.typography THEN TextCrops(<<coarse(r), fine(r)>>) ELSE {}
           readings(r) == NormalizeText(IF crops(r) = {} THEN Failed ELSE r.text, crops(r))
           verdicts(r) == ReplayVerdicts(CompareText(readings(r)), r.juror, crops(r))
           low(r) == {Finding("prompt_elements", "adherence", <<>>) :
                        n \in {x \in Adherence(asset, r) : x < 70}}
           findings(r) == Artifacts(asset, r) \cup first(r) \cup second(r)
                          \cup DOMAIN verdicts(r) \cup low(r)
           asked(r) == {"plan"} \cup (IF asset.stills THEN {"artifacts"} ELSE {})
                       \cup (IF asset.coarse # {} THEN {"coarse"} ELSE {})
                       \cup (IF dense(r) # {} THEN {"fine"} ELSE {})
                       \cup (IF crops(r) # {} THEN {"text"} ELSE {})
                       \cup (IF DOMAIN verdicts(r) # {} THEN {"juror"} ELSE {})
                       \cup (IF Scored(asset) THEN {"adherence"} ELSE {})
<1>1. /\ Synthesize(asset, replies).findings = findings(replies)
      /\ Synthesize(asset, replies).coverage
           = GeneratedCoverage(plan(replies), {coarse(replies), fine(replies)}, findings(replies))
  BY DEF Synthesize
<1>2. /\ Synthesize(asset, others).findings = findings(others)
      /\ Synthesize(asset, others).coverage
           = GeneratedCoverage(plan(others), {coarse(others), fine(others)}, findings(others))
  BY DEF Synthesize
<1>11. /\ Synthesize(asset, replies).raised = Misshapen(replies, asked(replies))
       /\ Synthesize(asset, others).raised = Misshapen(others, asked(others))
  BY DEF Synthesize
<1>3. /\ Artifacts(asset, replies) = Artifacts(asset, others) /\ low(replies) = low(others)
      /\ plan(replies) = plan(others) /\ coarse(replies) = coarse(others)
  BY DEF Artifacts, Adherence
<1> HIDE DEF plan, coarse, low
<1>4. first(replies) = first(others)
  BY <1>3
<1> HIDE DEF first
<1>5. dense(replies) = dense(others)
  BY <1>4
<1> HIDE DEF dense
<1>6. fine(replies) = fine(others)
  BY <1>5
<1> HIDE DEF fine
<1>7. second(replies) = second(others) /\ crops(replies) = crops(others)
  BY <1>3, <1>6
<1> HIDE DEF second, crops
<1>8. readings(replies) = readings(others)
  BY <1>7
<1> HIDE DEF readings
<1>9. \A r : DOMAIN verdicts(r) = CompareText(readings(r))
  BY DEF ReplayVerdicts
<1> HIDE DEF verdicts
<1>10. findings(replies) = findings(others)
  BY <1>3, <1>4, <1>7, <1>8, <1>9
<1>12. asked(replies) = asked(others)
  BY <1>5, <1>7, <1>8, <1>9
<1>13. ASSUME NEW k \in asked(others), others[k] = Malformed PROVE replies[k] = Malformed
  BY <1>13
<1> HIDE DEF asked, findings
<1>14. Misshapen(others, asked(others)) => Misshapen(replies, asked(replies))
  BY <1>12, <1>13 DEF Misshapen
<1>15. ~Synthesize(asset, replies).raised => ~Synthesize(asset, others).raised
  BY <1>11, <1>14
<1> QED BY <1>1, <1>2, <1>3, <1>6, <1>10, <1>15

\* A lane that is lost was lost to a reply of the wrong shape.
LEMMA LostToShape ==
  ASSUME NEW input \in AssetInput, Synthesize(input.asset, input.replies).raised
  PROVE  \E k \in DOMAIN input.replies : input.replies[k] = Malformed
<1>1. \E asked \in SUBSET {"plan", "artifacts", "coarse", "fine", "text", "juror", "adherence"} :
        Misshapen(input.replies, asked)
  BY DEF Synthesize
<1> QED BY <1>1, AssetAssumption DEF Misshapen

\* What was suspected of a generated asset stays suspected, whatever its calls
\* replied and whatever the juror said, unless one of the replies has the wrong
\* shape; then nothing is assessed and nothing passes (run_synthetic_qc,
\* run_pipeline).
THEOREM SuspicionAlwaysSurvives == Spec => []SuspicionSurvives
<1>1. Applied => SuspicionSurvives
  <2> SUFFICES ASSUME Applied, rule = "synthetic", given.asset.video PROVE SuspicionSurvives
    BY DEF SuspicionSurvives
  <2> DEFINE quiet == [given EXCEPT !.replies = [@ EXCEPT !.juror = NoJuror]]
             whole == Synthesize(given.asset, given.replies)
             run == SyntheticRun(given)
  <2>1. given \in AssetInput
    BY DEF Applied
  <2>2. run = IF whole.raised THEN [NoReport EXCEPT !.raised = TRUE] ELSE whole
    BY DEF SyntheticRun, RunSyntheticQc, Caught
  <2>3. quiet.asset = given.asset
        /\ quiet.replies = [given.replies EXCEPT !.juror = NoJuror]
    BY <2>1, AssetAssumption
  <2>4. SyntheticRun(quiet) = IF Synthesize(given.asset, quiet.replies).raised
                              THEN [NoReport EXCEPT !.raised = TRUE]
                              ELSE Synthesize(given.asset, quiet.replies)
    BY <2>3 DEF SyntheticRun, RunSyntheticQc, Caught
  <2>5. /\ quiet.replies.plan = given.replies.plan
        /\ quiet.replies.artifacts = given.replies.artifacts
        /\ quiet.replies.coarse = given.replies.coarse
        /\ quiet.replies.fine = given.replies.fine
        /\ quiet.replies.text = given.replies.text
        /\ quiet.replies.adherence = given.replies.adherence
        /\ quiet.replies.juror = NoJuror
    BY <2>1, <2>3, AssetAssumption
  <2>6. NoJuror # Malformed
    BY ReplyAssumption
  <2> HIDE DEF quiet, run, whole
  <2>7. SuspicionKept(run, SyntheticRun(quiet))
    <3>1. CASE whole.raised
      <4>1. \E k \in DOMAIN given.replies : given.replies[k] = Malformed
        BY <2>1, <3>1, LostToShape DEF whole
      <4>2. run.raised /\ run.coverage = <<>> /\ run.checks = {}
        BY <2>2, <3>1 DEF NoReport
      <4> QED BY <4>1, <4>2 DEF SuspicionKept
    <3>2. CASE ~whole.raised
      <4>1. run = whole
        BY <2>2, <3>2
      <4>2. SyntheticRun(quiet) = Synthesize(given.asset, quiet.replies)
        BY <2>4, <2>5, <2>6, <3>2, JurorAddsNothing DEF whole
      <4>3. run.findings = SyntheticRun(quiet).findings /\ run.coverage = SyntheticRun(quiet).coverage
        BY <2>5, <2>6, <4>1, <4>2, JurorAddsNothing DEF whole
      <4>4. /\ DOMAIN run.coverage = GeneratedRisk
            /\ \A f \in run.findings : run.coverage[f.risk] = "SUSPECTED"
            /\ IsList(run.readings) /\ CompareText(run.readings) \subseteq run.findings
            /\ \A c \in run.checks : c.status = "pass" => c.name = "ai_prompt_adherence"
        BY <2>1, <4>1, Inspected DEF whole
      <4>5. \A t \in {run.readings[i].track : i \in DOMAIN run.readings} :
              Cardinality(Legible(run.readings, t)) > 1 =>
                \E f \in run.findings : f.risk = "rendered_text" /\ f.what = t
        BY <4>4, ChangeIsFound
      <4>6. ~run.raised
        BY <3>2, <4>1
      <4> QED BY <4>3, <4>4, <4>5, <4>6 DEF SuspicionKept
    <3> QED BY <3>1, <3>2
  <2> QED BY <2>7 DEF SuspicionSurvives, quiet, run
<1> QED BY <1>1, AlwaysApplied, PTL

-----------------------------------------------------------------------------
(* Sampling.                                                               *)

\* One more time, if it is far enough from the last one kept.
Keep(before, t, gap) ==
  IF before = <<>> \/ t - Last(before) >= gap THEN Append(before, t) ELSE before

\* The times kept of the first n.
KeptOf(f, s, gap, n) == [k \in 0..n |-> IF k = 0 THEN <<>> ELSE Keep(f[k - 1], s[k], gap)]

\* The thinning is well defined.
LEMMA KeptExists ==
  ASSUME NEW s, NEW gap, NEW n \in Nat
  PROVE  \E f : f = KeptOf(f, s, gap, n)
<1> DEFINE T == {k \in Nat : ~\E f : f = KeptOf(f, s, gap, k)}
<1> SUFFICES ASSUME T # {} PROVE FALSE
  OBVIOUS
<1>1. PICK m \in T : \A k \in T : m <= k
  <2>1. T \in SUBSET Nat
    OBVIOUS
  <2> HIDE DEF T
  <2> QED BY <2>1, LeastNumber
<1>2. m \in Nat /\ ~\E f : f = KeptOf(f, s, gap, m)
  BY <1>1
<1>3. CASE m = 0
  <2> DEFINE f == [k \in 0..0 |-> <<>>]
  <2>1. f = KeptOf(f, s, gap, 0)
    BY DEF KeptOf
  <2> HIDE DEF f
  <2> QED BY <1>2, <1>3, <2>1
<1>4. CASE m # 0
  <2>1. m - 1 \in Nat /\ m - 1 \notin T
    BY <1>1, <1>2, <1>4
  <2>2. PICK f : f = KeptOf(f, s, gap, m - 1)
    BY <2>1
  <2>3. \A k \in 0..(m - 1) : f[k] = IF k = 0 THEN <<>> ELSE Keep(f[k - 1], s[k], gap)
    BY <2>2 DEF KeptOf
  <2> DEFINE g == [k \in 0..m |-> IF k = m THEN Keep(f[m - 1], s[m], gap) ELSE f[k]]
  <2>4. ASSUME NEW k \in 0..m
        PROVE  g[k] = IF k = 0 THEN <<>> ELSE Keep(g[k - 1], s[k], gap)
    <3>1. CASE k = 0
      BY <1>2, <1>4, <2>3, <3>1
    <3>2. CASE k # 0 /\ k # m
      <4>1. k \in 0..(m - 1) /\ k - 1 \in 0..(m - 1) /\ k - 1 # m
        BY <1>2, <3>2
      <4>2. g[k] = f[k] /\ g[k - 1] = f[k - 1]
        BY <1>2, <3>2, <4>1
      <4> QED BY <2>3, <3>2, <4>1, <4>2
    <3>3. CASE k = m
      <4>1. m - 1 \in 0..m /\ m - 1 # m
        BY <1>2, <1>4
      <4>2. g[m - 1] = f[m - 1]
        BY <4>1
      <4> QED BY <1>4, <3>3, <4>2
    <3> QED BY <3>1, <3>2, <3>3
  <2>5. g = KeptOf(g, s, gap, m)
    <3>1. g = [k \in 0..m |-> g[k]]
      OBVIOUS
    <3> HIDE DEF g
    <3> QED BY <2>4, <3>1 DEF KeptOf
  <2> HIDE DEF g
  <2> QED BY <1>2, <2>5
<1> QED BY <1>3, <1>4

LEMMA ThinnedStepwise ==
  ASSUME NEW s, Len(s) \in Nat, NEW gap
  PROVE  \E f : /\ f[0] = <<>>
                /\ \A n \in 1..Len(s) : f[n] = Keep(f[n - 1], s[n], gap)
                /\ Thinned(s, gap) = f[Len(s)]
<1> DEFINE f == CHOOSE g : g = KeptOf(g, s, gap, Len(s))
<1>1. Thinned(s, gap) = f[Len(s)]
  BY DEF Thinned, KeptOf, Keep
<1>2. f = KeptOf(f, s, gap, Len(s))
  BY KeptExists
<1> HIDE DEF f
<1>3. f[0] = <<>> /\ \A n \in 1..Len(s) : f[n] = Keep(f[n - 1], s[n], gap)
  BY <1>2 DEF KeptOf
<1> QED BY <1>1, <1>3

\* Times that follow one another.
Rising(s) == \A i, j \in 1..Len(s) : i < j => s[i] < s[j]

\* What k holds of the first n times.
Kept(s, gap, n, k) ==
  /\ k \in Seq(Int) /\ Len(k) <= n /\ (n > 0 => Len(k) > 0)
  /\ \A i \in 1..Len(k) : \E j \in 1..n : k[i] = s[j]
  /\ \A i, j \in 1..Len(k) : i < j => k[i] < k[j] /\ k[j] - k[i] >= gap
  /\ \A j \in 1..n : \E i \in 1..Len(k) : k[i] <= s[j] /\ (k[i] = s[j] \/ s[j] - k[i] < gap)

LEMMA KeepKeeps ==
  ASSUME NEW s \in Seq(Int), Rising(s), NEW gap \in Nat, NEW n \in 1..Len(s), NEW b,
         Kept(s, gap, n - 1, b)
  PROVE  Kept(s, gap, n, Keep(b, s[n], gap))
<1> DEFINE t == s[n]
           m == Len(b)
           p == n - 1
<1>1. p \in Nat /\ n = p + 1 /\ n \in Nat /\ Len(s) \in Nat /\ n <= Len(s)
  OBVIOUS
<1>2. \A j \in 1..n : s[j] \in Int
  BY <1>1
<1>3. t \in Int /\ \A j \in 1..p : j \in 1..n /\ s[j] \in Int /\ s[j] < t
  BY <1>1, <1>2 DEF Rising
<1> HIDE DEF p
<1>4. Kept(s, gap, p, b)
  BY DEF p
<1>5. b \in Seq(Int) /\ m <= p /\ (p > 0 => m > 0)
  BY <1>4 DEF Kept
<1>6. m \in Nat /\ \A i \in 1..m : b[i] \in Int
  BY <1>5
<1>7. \A i \in 1..m : \E j \in 1..p : b[i] = s[j]
  BY <1>4 DEF Kept
<1>8. \A i, j \in 1..m : i < j => b[i] < b[j] /\ b[j] - b[i] >= gap
  BY <1>4 DEF Kept
<1>9. \A j \in 1..p : \E i \in 1..m : b[i] <= s[j] /\ (b[i] = s[j] \/ s[j] - b[i] < gap)
  BY <1>4 DEF Kept
<1>10. \A i \in 1..m : b[i] < t
  BY <1>3, <1>7
<1>11. b = <<>> => m = 0
  OBVIOUS
<1>12. b # <<>> => m > 0 /\ m \in 1..m /\ Last(b) = b[m]
  BY <1>5, <1>6 DEF Last
<1>13. \A j \in 1..n : j \in 1..p \/ j = n
  BY <1>1
<1>14. CASE b = <<>> \/ t - Last(b) >= gap
  <2> DEFINE k == Append(b, t)
  <2>1. Keep(b, t, gap) = k
    BY <1>14 DEF Keep
  <2>2. k \in Seq(Int) /\ Len(k) = m + 1
    BY <1>3, <1>5
  <2>3. k[m + 1] = t /\ \A i \in 1..m : k[i] = b[i]
    BY <1>3, <1>5
  <2> HIDE DEF k
  <2>4. \A i \in 1..m : t - b[i] >= gap
    <3> SUFFICES ASSUME NEW i \in 1..m PROVE t - b[i] >= gap
      OBVIOUS
    <3>1. b # <<>> /\ Last(b) = b[m] /\ m \in 1..m
      BY <1>6, <1>11, <1>12
    <3>2. t - b[m] >= gap
      BY <1>14, <3>1
    <3> HIDE DEF t, m
    <3>3. b[i] <= b[m]
      <4>1. CASE i = m
        BY <1>6, <4>1
      <4>2. CASE i # m
        BY <1>6, <1>8, <3>1, <4>2
      <4> QED BY <4>1, <4>2
    <3> QED BY <1>3, <1>6, <3>1, <3>2, <3>3
  <2> HIDE DEF t, m
  <2>5. \A i \in 1..(m + 1) : i \in 1..m \/ i = m + 1
    BY <1>6
  <2>6. ASSUME NEW i \in 1..Len(k) PROVE \E j \in 1..n : k[i] = s[j]
    <3>1. CASE i = m + 1
      BY <1>1, <2>3, <3>1 DEF t
    <3>2. CASE i \in 1..m
      <4>1. PICK j \in 1..p : b[i] = s[j]
        BY <1>7, <3>2
      <4>2. j \in 1..n
        BY <1>1
      <4> QED BY <2>3, <3>2, <4>1, <4>2
    <3> QED BY <2>2, <2>5, <3>1, <3>2
  <2>7. ASSUME NEW i \in 1..Len(k), NEW j \in 1..Len(k), i < j
        PROVE  k[i] < k[j] /\ k[j] - k[i] >= gap
    <3>1. i \in 1..m
      BY <1>6, <2>2, <2>7
    <3>2. CASE j = m + 1
      BY <1>10, <2>3, <2>4, <3>1, <3>2
    <3>3. CASE j \in 1..m
      BY <1>8, <2>3, <2>7, <3>1, <3>3
    <3> QED BY <2>2, <2>5, <3>2, <3>3
  <2>8. ASSUME NEW j \in 1..n
        PROVE  \E i \in 1..Len(k) : k[i] <= s[j] /\ (k[i] = s[j] \/ s[j] - k[i] < gap)
    <3>1. CASE j = n
      <4>1. m + 1 \in 1..Len(k) /\ k[m + 1] = s[j]
        BY <1>6, <2>2, <2>3, <3>1 DEF t
      <4> QED BY <1>2, <4>1
    <3>2. CASE j \in 1..p
      <4>1. PICK i \in 1..m : b[i] <= s[j] /\ (b[i] = s[j] \/ s[j] - b[i] < gap)
        BY <1>9, <3>2
      <4>2. i \in 1..Len(k) /\ k[i] = b[i]
        BY <1>6, <2>2, <2>3
      <4> QED BY <4>1, <4>2
    <3> QED BY <1>13, <3>1, <3>2
  <2>9. Len(k) <= n /\ Len(k) > 0
    BY <1>1, <1>5, <1>6, <2>2
  <2>10. Kept(s, gap, n, k)
    BY <2>2, <2>6, <2>7, <2>8, <2>9 DEF Kept
  <2> QED BY <2>1, <2>10 DEF t
<1>15. CASE b # <<>> /\ ~(t - Last(b) >= gap)
  <2>1. Keep(b, t, gap) = b
    BY <1>15 DEF Keep
  <2>2. m \in 1..m /\ m > 0 /\ b[m] < t /\ ~(t - b[m] >= gap) /\ b[m] \in Int
    BY <1>6, <1>10, <1>12, <1>15
  <2> HIDE DEF m
  <2>3. \A i \in 1..m : \E j \in 1..n : b[i] = s[j]
    BY <1>3, <1>7
  <2>4. ASSUME NEW j \in 1..n
        PROVE  \E i \in 1..m : b[i] <= s[j] /\ (b[i] = s[j] \/ s[j] - b[i] < gap)
    <3>1. CASE j = n
      <4>1. b[m] <= s[j] /\ s[j] - b[m] < gap
        BY <1>3, <2>2, <3>1
      <4> QED BY <2>2, <4>1
    <3>2. CASE j \in 1..p
      BY <1>9, <3>2
    <3> QED BY <1>13, <3>1, <3>2
  <2>5. m <= n /\ (n > 0 => m > 0)
    BY <1>1, <1>5, <1>6, <2>2
  <2>6. Kept(s, gap, n, b)
    BY <1>5, <1>8, <2>3, <2>4, <2>5 DEF Kept, m
  <2> QED BY <2>1, <2>6 DEF t
<1> QED BY <1>14, <1>15 DEF t

\* What is left of times in order is in order, apart, and never far before any of
\* them.
LEMMA ThinnedTimes ==
  ASSUME NEW s \in Seq(Int), Rising(s), NEW gap \in Nat
  PROVE  Kept(s, gap, Len(s), Thinned(s, gap))
<1>1. Len(s) \in Nat
  OBVIOUS
<1>2. PICK f : /\ f[0] = <<>>
               /\ \A n \in 1..Len(s) : f[n] = Keep(f[n - 1], s[n], gap)
               /\ Thinned(s, gap) = f[Len(s)]
  BY <1>1, ThinnedStepwise
<1> DEFINE T == {n \in Nat : n <= Len(s) /\ ~Kept(s, gap, n, f[n])}
<1>3. T = {}
  <2> SUFFICES ASSUME T # {} PROVE FALSE
    OBVIOUS
  <2>1. PICK m \in T : \A k \in T : m <= k
    <3>1. T \in SUBSET Nat
      OBVIOUS
    <3> HIDE DEF T
    <3> QED BY <3>1, LeastNumber
  <2>2. m \in Nat /\ m <= Len(s) /\ ~Kept(s, gap, m, f[m])
    BY <2>1
  <2>3. m # 0
    <3>1. Kept(s, gap, 0, <<>>)
      BY DEF Kept
    <3> QED BY <1>2, <2>2, <3>1
  <2>4. m \in 1..Len(s) /\ m - 1 \in Nat /\ m - 1 <= Len(s) /\ ~(m <= m - 1)
    BY <1>1, <2>2, <2>3
  <2>5. Kept(s, gap, m - 1, f[m - 1])
    BY <2>1, <2>4
  <2>6. Kept(s, gap, m, Keep(f[m - 1], s[m], gap))
    BY <2>4, <2>5, KeepKeeps
  <2> QED BY <1>2, <2>2, <2>4, <2>6
<1> QED BY <1>1, <1>2, <1>3


\* The values of a function on a finite set.
LEMMA ImageFinite ==
  ASSUME NEW S, IsFiniteSet(S), NEW f
  PROVE  /\ IsFiniteSet({f[x] : x \in S})
         /\ Cardinality(S) \in Nat /\ Cardinality({f[x] : x \in S}) \in Nat
         /\ Cardinality({f[x] : x \in S}) <= Cardinality(S)
<1> DEFINE T == {f[x] : x \in S}
           g == [x \in S |-> f[x]]
<1>1. g \in Surjection(S, T)
  BY DEF Surjection
<1> HIDE DEF g, T
<1>2. IsFiniteSet(T) /\ Cardinality(T) <= Cardinality(S)
  BY <1>1, FS_Surjection
<1>3. Cardinality(S) \in Nat /\ Cardinality(T) \in Nat
  BY <1>2, FS_CardinalityType
<1> QED BY <1>2, <1>3 DEF T

\* Times inside the program, in order and apart.
Apart(s, d, gap) ==
  /\ s \in Seq(Int)
  /\ \A i \in 1..Len(s) : s[i] \in 0..(d - 1)
  /\ \A i, j \in 1..Len(s) : i < j => s[i] < s[j] /\ s[j] - s[i] >= gap

\* None of the times of S is lost by more than a gap.
Near(s, S, gap) == \A t \in S : \E i \in 1..Len(s) : t - s[i] \in 0..(gap - 1)

\* Times on either side of the program are pulled to its edge.
LEMMA WithinProgram ==
  ASSUME NEW t \in Int, NEW d \in Nat \ {0}
  PROVE  /\ Within(t, 0, High(d - 1, 0)) \in 0..(d - 1)
         /\ t \in 0..(d - 1) => Within(t, 0, High(d - 1, 0)) = t
BY DEF Within, High, Low

LEMMA DedupedTimes ==
  ASSUME NEW S \in SUBSET Int, IsFiniteSet(S), NEW d \in Nat \ {0}, NEW gap \in Nat
  PROVE  /\ Apart(DedupeTimes(S, d, gap), d, gap)
         /\ gap > 0 => Near(DedupeTimes(S, d, gap), S \cap (0..(d - 1)), gap)
         /\ Len(DedupeTimes(S, d, gap)) <= Cardinality(S)
         /\ S # {} => Len(DedupeTimes(S, d, gap)) > 0
<1> DEFINE f == [t \in S |-> Within(t, 0, High(d - 1, 0))]
           C == {Within(t, 0, High(d - 1, 0)) : t \in S}
           s == Ordered(C)
           r == Thinned(s, gap)
<1>1. r = DedupeTimes(S, d, gap)
  BY DEF DedupeTimes
<1>2. \A t \in S : t \in Int /\ Within(t, 0, High(d - 1, 0)) \in 0..(d - 1)
  BY WithinProgram
<1>3. C = {f[t] : t \in S} /\ C \in SUBSET Int /\ \A c \in C : c \in 0..(d - 1)
  BY <1>2
<1>4. \A t \in S \cap (0..(d - 1)) : t \in C /\ t \in Int
  BY <1>2, WithinProgram
<1>5. S # {} => C # {}
  OBVIOUS
<1> HIDE DEF C, f
<1>6. IsFiniteSet(C) /\ Cardinality(C) \in Nat /\ Cardinality(C) <= Cardinality(S)
      /\ Cardinality(S) \in Nat
  BY <1>3, ImageFinite
<1>7. /\ s \in [1..Cardinality(C) -> C]
      /\ \A i, j \in 1..Cardinality(C) : i < j => s[i] < s[j]
      /\ \A t \in C : \E i \in 1..Cardinality(C) : s[i] = t
  BY <1>3, <1>6, OrderedTimes
<1> HIDE DEF s
<1>8. s \in Seq(Int) /\ Len(s) = Cardinality(C) /\ \A i \in 1..Len(s) : s[i] \in C
  <2> DEFINE n == Cardinality(C)
  <2>1. n \in Nat /\ s \in [1..n -> C]
    BY <1>6, <1>7
  <2> HIDE DEF n
  <2>2. s \in Seq(C) /\ Len(s) = n
    BY <2>1
  <2>3. s \in Seq(Int)
    BY <1>3, <2>2
  <2> QED BY <2>1, <2>2, <2>3 DEF n
<1>9. Rising(s)
  BY <1>7, <1>8 DEF Rising
<1>10. Kept(s, gap, Len(s), r)
  BY <1>8, <1>9, ThinnedTimes
<1> HIDE DEF r
<1>11. /\ r \in Seq(Int) /\ Len(r) <= Len(s) /\ (Len(s) > 0 => Len(r) > 0)
       /\ \A i \in 1..Len(r) : \E j \in 1..Len(s) : r[i] = s[j]
       /\ \A i, j \in 1..Len(r) : i < j => r[i] < r[j] /\ r[j] - r[i] >= gap
  BY <1>10 DEF Kept
<1>12. \A j \in 1..Len(s) :
         \E i \in 1..Len(r) : r[i] <= s[j] /\ (r[i] = s[j] \/ s[j] - r[i] < gap)
  BY <1>10 DEF Kept
<1>13. \A i \in 1..Len(r) : r[i] \in 0..(d - 1)
  BY <1>3, <1>8, <1>11
<1>14. Apart(r, d, gap)
  BY <1>11, <1>13 DEF Apart
<1>15. gap > 0 => Near(r, S \cap (0..(d - 1)), gap)
  <2> SUFFICES ASSUME gap > 0, NEW t \in S \cap (0..(d - 1))
               PROVE  \E i \in 1..Len(r) : t - r[i] \in 0..(gap - 1)
    BY DEF Near
  <2>1. PICK j \in 1..Len(s) : s[j] = t
    BY <1>4, <1>7, <1>8
  <2>2. PICK i \in 1..Len(r) : r[i] <= t /\ (r[i] = t \/ t - r[i] < gap)
    BY <1>12, <2>1
  <2>3. t \in Int /\ r[i] \in Int
    BY <1>13
  <2>4. t - r[i] \in 0..(gap - 1)
    BY <2>2, <2>3
  <2> QED BY <2>4
<1>16. Len(r) <= Cardinality(S) /\ (S # {} => Len(r) > 0)
  <2>1. C # {} => Len(s) > 0
    BY <1>6, <1>7, <1>8
  <2>2. Len(r) \in Nat /\ Len(s) \in Nat
    BY <1>8, <1>11
  <2> QED BY <1>5, <1>6, <1>8, <1>11, <2>1, <2>2
<1> QED BY <1>1, <1>14, <1>15, <1>16


Selected(s, at, n) == [i \in 1..n |-> s[at[i]]]

\* A selection that keeps the order keeps the times apart.
LEMMA SelectedApart ==
  ASSUME NEW d, NEW gap, NEW s, Apart(s, d, gap), NEW n \in Nat, NEW at \in [1..n -> 1..Len(s)],
         \A i, j \in 1..n : i < j => at[i] < at[j]
  PROVE  Apart(Selected(s, at, n), d, gap) /\ Len(Selected(s, at, n)) = n
<1> DEFINE r == Selected(s, at, n)
<1>1. /\ s \in Seq(Int)
      /\ \A i \in 1..Len(s) : s[i] \in 0..(d - 1) /\ s[i] \in Int
      /\ \A i, j \in 1..Len(s) : i < j => s[i] < s[j] /\ s[j] - s[i] >= gap
  BY DEF Apart
<1>2. r \in Seq(Int) /\ Len(r) = n
  BY <1>1 DEF Selected
<1>3. \A i \in 1..n : r[i] = s[at[i]] /\ at[i] \in 1..Len(s)
  BY DEF Selected
<1> HIDE DEF r
<1>4. Apart(r, d, gap)
  BY <1>1, <1>2, <1>3 DEF Apart
<1> QED BY <1>2, <1>4 DEF r

LEMMA FirstApart ==
  ASSUME NEW d, NEW gap, NEW s, Apart(s, d, gap), NEW n \in Nat
  PROVE  /\ Apart(First(s, n), d, gap)
         /\ Len(First(s, n)) = Low(n, Len(s))
         /\ \A i \in 1..Low(n, Len(s)) : First(s, n)[i] = s[i]
<1> DEFINE k == Low(n, Len(s))
           at == [i \in 1..k |-> i]
           r == First(s, n)
<1>1. s \in Seq(Int) /\ Len(s) \in Nat
  BY DEF Apart
<1>2. k \in Nat /\ k <= Len(s)
  BY <1>1 DEF Low
<1> HIDE DEF k
<1>3. r = SubSeq(s, 1, k)
  BY DEF First, k
<1>4. r = [i \in 1..k |-> s[i]]
  BY <1>1, <1>2, <1>3
<1> HIDE DEF r
<1>5. at \in [1..k -> 1..Len(s)] /\ \A i, j \in 1..k : i < j => at[i] < at[j]
  BY <1>1, <1>2
<1>6. r = Selected(s, at, k)
  BY <1>4 DEF Selected
<1> HIDE DEF at
<1>7. Apart(r, d, gap) /\ Len(r) = k
  BY <1>2, <1>5, <1>6, SelectedApart
<1> QED BY <1>4, <1>7 DEF k, r

\* The quotient, its whole part.
LEMMA WholePart ==
  ASSUME NEW a \in Nat, NEW m \in Nat \ {0}
  PROVE  a \div m \in Nat /\ m * (a \div m) <= a
OBVIOUS

LEMMA Multiples ==
  ASSUME NEW i \in Nat, NEW j \in Nat, NEW m \in Nat \ {0}, i < j
  PROVE  i * m \in Nat /\ i * m < j * m
<1>1. j = i + (j - i) /\ j - i \in Nat /\ j - i >= 1
  OBVIOUS
<1> DEFINE k == j - i
<1>2. j * m = i * m + k * m
  BY <1>1
<1> HIDE DEF k
<1>3. k * m >= m
  BY <1>1 DEF k
<1>4. i * m \in Nat
  OBVIOUS
<1> QED BY <1>1, <1>2, <1>3, <1>4

LEMMA StridedApart ==
  ASSUME NEW d, NEW gap, NEW s, Apart(s, d, gap), NEW step \in Nat \ {0}
  PROVE  Apart(Strided(s, step), d, gap)
<1> DEFINE n == (Len(s) + step - 1) \div step
           at == [i \in 1..n |-> (i - 1) * step + 1]
<1>1. s \in Seq(Int) /\ Len(s) \in Nat
  BY DEF Apart
<1>2. n \in Nat /\ step * n <= Len(s) + step - 1
  <2>1. Len(s) + step - 1 \in Nat
    BY <1>1
  <2> QED BY <2>1, WholePart
<1> HIDE DEF n
<1>3. ASSUME NEW i \in 1..n PROVE (i - 1) * step + 1 \in 1..Len(s)
  <2>1. i - 1 \in Nat /\ (i - 1) * step \in Nat
    BY <1>2
  <2>2. (i - 1) * step + step <= step * n
    <3>1. CASE i = n
      BY <1>2, <3>1
    <3>2. CASE i < n
      <4>1. i * step < n * step
        BY <1>2, <3>2, Multiples
      <4> QED BY <1>2, <4>1
    <3> QED BY <1>2, <3>1, <3>2
  <2> DEFINE q == (i - 1) * step
             p == step * n
  <2>3. p \in Int
    BY <1>2
  <2> HIDE DEF p, q
  <2> QED BY <1>1, <1>2, <2>1, <2>2, <2>3 DEF p, q
<1>4. at \in [1..n -> 1..Len(s)]
  BY <1>3
<1>5. ASSUME NEW i \in 1..n, NEW j \in 1..n, i < j PROVE at[i] < at[j]
  <2>1. i - 1 \in Nat /\ j - 1 \in Nat /\ i - 1 < j - 1
    BY <1>2, <1>5
  <2>2. (i - 1) * step \in Nat /\ (i - 1) * step < (j - 1) * step /\ (j - 1) * step \in Nat
    BY <2>1, Multiples
  <2> DEFINE q == (i - 1) * step
             p == (j - 1) * step
  <2>3. at[i] = q + 1 /\ at[j] = p + 1
    OBVIOUS
  <2> HIDE DEF at, p, q
  <2> QED BY <2>2, <2>3 DEF p, q
<1>6. Strided(s, step) = Selected(s, at, n)
  BY DEF Strided, Selected, n
<1> HIDE DEF at
<1> QED BY <1>2, <1>4, <1>5, <1>6, SelectedApart


LEMMA ListedTimes ==
  ASSUME NEW s \in Seq(Int)
  PROVE  /\ ToSet(s) \in SUBSET Int /\ IsFiniteSet(ToSet(s))
         /\ \A i \in 1..Len(s) : s[i] \in ToSet(s)
         /\ \A t \in ToSet(s) : \E i \in 1..Len(s) : s[i] = t
<1>1. ToSet(s) = {s[i] : i \in 1..Len(s)}
  BY DEF ToSet
<1>2. IsFiniteSet(1..Len(s))
  <2>1. Len(s) \in Nat
    OBVIOUS
  <2> QED BY <2>1, FS_Interval
<1>3. IsFiniteSet({s[i] : i \in 1..Len(s)})
  BY <1>2, ImageFinite
<1> QED BY <1>1, <1>3

\* Putting times in order that are apart changes nothing of it.
LEMMA OrderedApart ==
  ASSUME NEW d, NEW gap, NEW s, Apart(s, d, gap)
  PROVE  /\ Apart(Ordered(ToSet(s)), d, gap)
         /\ Len(Ordered(ToSet(s))) = Cardinality(ToSet(s))
         /\ Cardinality(ToSet(s)) \in Nat
<1> DEFINE S == ToSet(s)
           n == Cardinality(S)
           r == Ordered(S)
<1>1. /\ s \in Seq(Int)
      /\ \A i \in 1..Len(s) : s[i] \in 0..(d - 1) /\ s[i] \in Int
      /\ \A i, j \in 1..Len(s) : i < j => s[i] < s[j] /\ s[j] - s[i] >= gap
  BY DEF Apart
<1>2. /\ S \in SUBSET Int /\ IsFiniteSet(S)
      /\ \A i \in 1..Len(s) : s[i] \in S
      /\ \A t \in S : \E i \in 1..Len(s) : s[i] = t
  BY <1>1, ListedTimes
<1> HIDE DEF S
<1>3. /\ n \in Nat /\ r \in [1..n -> S]
      /\ \A i, j \in 1..n : i < j => r[i] < r[j]
      /\ \A t \in S : \E i \in 1..n : r[i] = t
  BY <1>2, OrderedTimes
<1> HIDE DEF n, r
<1>4. r \in Seq(Int) /\ Len(r) = n
  <2>1. r \in [1..n -> Int]
    BY <1>2, <1>3
  <2> QED BY <1>3, <2>1
<1>5. \A i \in 1..n : \E j \in 1..Len(s) : r[i] = s[j]
  BY <1>2, <1>3
<1>6. \A i \in 1..n : r[i] \in 0..(d - 1)
  BY <1>1, <1>5
<1>7. ASSUME NEW i \in 1..n, NEW j \in 1..n, i < j PROVE r[j] - r[i] >= gap
  <2>1. PICK a \in 1..Len(s) : r[i] = s[a]
    BY <1>5
  <2>2. PICK b \in 1..Len(s) : r[j] = s[b]
    BY <1>5
  <2>3. s[a] < s[b]
    BY <1>3, <1>7, <2>1, <2>2
  <2>4. s[a] \in Int /\ s[b] \in Int /\ a \in Int /\ b \in Int
    BY <1>1
  <2>5. a < b
    <3>1. CASE b < a
      BY <1>1, <2>3, <2>4, <3>1
    <3>2. CASE a = b
      BY <2>3, <2>4, <3>2
    <3> QED BY <2>4, <3>1, <3>2
  <2> QED BY <1>1, <2>1, <2>2, <2>5
<1>8. Apart(r, d, gap)
  BY <1>3, <1>4, <1>6, <1>7 DEF Apart
<1> QED BY <1>2, <1>3, <1>4, <1>8 DEF S, n, r

\* What the sweep has to look at first.
LEMMA AnchorTimes ==
  ASSUME NEW d \in Nat \ {0}, NEW n \in Nat, n >= 2
  PROVE  /\ Anchors(d, n) \in SUBSET Nat /\ IsFiniteSet(Anchors(d, n))
         /\ Anchors(d, n) # {}
<1> DEFINE edge == Low(5, d \div 4)
           f == [i \in 0..(n - 1) |-> edge + ((d - 2 * edge) * i) \div (n - 1)]
<1>1. edge \in Nat /\ d - 2 * edge \in Nat
  BY DEF Low
<1>2. n - 1 \in Nat \ {0} /\ n # 1
  OBVIOUS
<1> HIDE DEF edge
<1>3. Anchors(d, n) = {f[i] : i \in 0..(n - 1)}
  BY <1>2 DEF Anchors, edge
<1>4. ASSUME NEW i \in 0..(n - 1) PROVE f[i] \in Nat
  <2> DEFINE w == d - 2 * edge
             m == n - 1
  <2>1. w \in Nat /\ i \in Nat /\ m \in Nat \ {0}
    BY <1>1, <1>2
  <2>2. f[i] = edge + (w * i) \div m
    OBVIOUS
  <2> HIDE DEF w, m, f
  <2>3. w * i \in Nat
    BY <2>1
  <2>4. (w * i) \div m \in Nat
    BY <2>1, <2>3, WholePart
  <2> QED BY <1>1, <2>2, <2>4
<1> HIDE DEF f
<1>5. IsFiniteSet(0..(n - 1)) /\ 0 \in 0..(n - 1)
  <2>1. 0 \in Int /\ n - 1 \in Int
    OBVIOUS
  <2> QED BY <1>2, <2>1, FS_Interval
<1>6. IsFiniteSet({f[i] : i \in 0..(n - 1)})
  BY <1>5, ImageFinite
<1> QED BY <1>3, <1>4, <1>5, <1>6

LEMMA MiddleTimes ==
  ASSUME NEW A, IsFiniteSet(A), \A a \in A : a[1] \in Nat /\ a[2] \in Nat
  PROVE  {Middle(a) : a \in A} \in SUBSET Nat /\ IsFiniteSet({Middle(a) : a \in A})
<1> DEFINE f == [a \in A |-> Middle(a)]
<1>1. \A a \in A : f[a] = Middle(a) /\ Middle(a) \in Nat
  BY DEF Middle
<1> HIDE DEF f
<1>2. {Middle(a) : a \in A} = {f[a] : a \in A}
  BY <1>1
<1>3. IsFiniteSet({f[a] : a \in A})
  BY ImageFinite
<1> QED BY <1>1, <1>2, <1>3


LEMMA OrderedInside ==
  ASSUME NEW d \in Nat, NEW S \in SUBSET (0..(d - 1)), IsFiniteSet(S)
  PROVE  Apart(Ordered(S), d, 1) /\ Len(Ordered(S)) = Cardinality(S) /\ Cardinality(S) \in Nat
<1> DEFINE n == Cardinality(S)
           r == Ordered(S)
<1>1. S \in SUBSET Int /\ \A t \in S : t \in 0..(d - 1) /\ t \in Int
  OBVIOUS
<1>2. n \in Nat /\ r \in [1..n -> S] /\ \A i, j \in 1..n : i < j => r[i] < r[j]
  BY <1>1, OrderedTimes
<1> HIDE DEF n, r
<1>3. r \in [1..n -> Int]
  BY <1>1, <1>2
<1>4. r \in Seq(Int) /\ Len(r) = n
  BY <1>2, <1>3
<1>5. \A i \in 1..n : r[i] \in 0..(d - 1) /\ r[i] \in Int
  BY <1>1, <1>2
<1>6. \A i, j \in 1..n : i < j => r[j] - r[i] >= 1
  BY <1>2, <1>5
<1>7. Apart(r, d, 1)
  BY <1>2, <1>4, <1>5, <1>6 DEF Apart
<1> QED BY <1>2, <1>4, <1>7 DEF n, r

\* The frames kept when there are too many: what must be kept is within a gap of
\* a frame, or past the last one.
LEMMA PickedFrames ==
  ASSUME NEW d \in Nat \ {0}, NEW budget \in Nat \ {0},
         NEW a, Apart(a, d, 8), Len(a) > 0, NEW k, Apart(k, d, 8), Len(k) > 0,
         NEW frames, frames = Pick(ToSet(a), ToSet(k), budget, d)
  PROVE  /\ Apart(frames, d, 8) /\ Len(frames) \in 1..budget
         /\ \/ \A i \in 1..Len(a) : \E j \in 1..Len(frames) : frames[j] = a[i]
            \/ Near(frames, {t \in ToSet(k) : t <= frames[Len(frames)]}, 8)
<1> DEFINE A == ToSet(a)
           K == ToSet(k)
           extras == Ordered(A \ K)
           room == High(budget - Cardinality(K), 1)
           step == High(1, Len(extras) \div room)
           strided == Strided(extras, step)
           S == K \cup ToSet(strided)
           r == DedupeTimes(S, d, 8)
<1>1. Pick(A, K, budget, d) =
        IF Cardinality(A) <= budget THEN Ordered(A) ELSE First(r, budget)
  BY DEF Pick
<1>2. /\ a \in Seq(Int) /\ k \in Seq(Int)
      /\ \A i \in 1..Len(a) : a[i] \in 0..(d - 1)
      /\ \A i \in 1..Len(k) : k[i] \in 0..(d - 1)
  BY DEF Apart
<1>3. /\ A \in SUBSET (0..(d - 1)) /\ IsFiniteSet(A) /\ \A i \in 1..Len(a) : a[i] \in A
      /\ K \in SUBSET (0..(d - 1)) /\ IsFiniteSet(K) /\ \A i \in 1..Len(k) : k[i] \in K
  <2> HIDE DEF extras, room, step, strided, S, r
  <2>1. IsFiniteSet(A) /\ \A i \in 1..Len(a) : a[i] \in A
    BY <1>2, ListedTimes
  <2>2. IsFiniteSet(K) /\ \A i \in 1..Len(k) : k[i] \in K
    BY <1>2, ListedTimes
  <2>3. (\A t \in A : \E i \in 1..Len(a) : a[i] = t) /\ \A t \in K : \E i \in 1..Len(k) : k[i] = t
    BY <1>2, ListedTimes
  <2>4. A \in SUBSET (0..(d - 1)) /\ K \in SUBSET (0..(d - 1))
    BY <1>2, <2>3
  <2> QED BY <2>1, <2>2, <2>4
<1>4. /\ Apart(Ordered(A), d, 8) /\ Len(Ordered(A)) = Cardinality(A) /\ Cardinality(A) \in Nat
      /\ \A i \in 1..Len(a) : \E j \in 1..Cardinality(A) : Ordered(A)[j] = a[i]
  <2> HIDE DEF extras, room, step, strided, S, r, K
  <2> DEFINE gap == 8
  <2>1. Apart(a, d, gap)
    OBVIOUS
  <2> HIDE DEF gap
  <2>2. Apart(Ordered(A), d, gap)
    BY <2>1, OrderedApart
  <2>3. Len(Ordered(A)) = Cardinality(A) /\ Cardinality(A) \in Nat
    BY <2>1, OrderedApart
  <2>4. \A i \in 1..Len(a) : \E j \in 1..Cardinality(A) : Ordered(A)[j] = a[i]
    <3> HIDE DEF A
    <3>1. A \in SUBSET Int
      BY <1>3
    <3>2. \A t \in A : \E j \in 1..Cardinality(A) : Ordered(A)[j] = t
      BY <1>3, <3>1, OrderedTimes
    <3> QED BY <1>3, <3>2
  <2> QED BY <2>2, <2>3, <2>4 DEF gap
<1> HIDE DEF A, K
<1>5. CASE Cardinality(A) <= budget
  <2>1. frames = Ordered(A)
    BY <1>1, <1>5 DEF A, K
  <2>2. 1 \in 1..Len(a)
    <3>1. Len(a) \in Nat
      BY <1>2
    <3> QED BY <3>1
  <2>3. Cardinality(A) > 0
    BY <1>4, <2>2
  <2> QED BY <1>4, <1>5, <2>1, <2>3
<1>6. CASE ~(Cardinality(A) <= budget)
  <2>1. frames = First(r, budget)
    BY <1>1, <1>6 DEF A, K
  <2>2. A \ K \in SUBSET (0..(d - 1)) /\ IsFiniteSet(A \ K)
    BY <1>3, FS_Difference
  <2>3. Apart(extras, d, 1) /\ Len(extras) \in Nat
    BY <2>2, OrderedInside
  <2>4. Cardinality(K) \in Nat
    BY <1>3, FS_CardinalityType
  <2>5. room \in Nat \ {0}
    BY <2>4 DEF High
  <2> HIDE DEF extras, room
  <2>6. Len(extras) \div room \in Nat
    BY <2>3, <2>5, WholePart
  <2>7. step \in Nat \ {0}
    BY <2>6 DEF High
  <2> HIDE DEF step
  <2>8. Apart(strided, d, 1)
    BY <2>3, <2>7, StridedApart
  <2>9. strided \in Seq(Int)
    BY <2>8 DEF Apart
  <2> HIDE DEF strided
  <2>10. ToSet(strided) \in SUBSET Int /\ IsFiniteSet(ToSet(strided))
    BY <2>9, ListedTimes
  <2>11. S \in SUBSET Int /\ IsFiniteSet(S) /\ K \in SUBSET S
    <3>1. IsFiniteSet(K \cup ToSet(strided))
      BY <1>3, <2>10, FS_Union
    <3>2. K \in SUBSET Int
      BY <1>3
    <3>3. S \in SUBSET Int /\ K \in SUBSET S
      BY <2>10, <3>2
    <3> QED BY <3>1, <3>3
  <2>12. 1 \in 1..Len(k)
    <3>1. Len(k) \in Nat
      BY <1>2
    <3> QED BY <3>1
  <2>13. S # {}
    BY <1>3, <2>11, <2>12
  <2> HIDE DEF S
  <2>14. /\ Apart(r, d, 8) /\ Near(r, S \cap (0..(d - 1)), 8)
         /\ Len(r) > 0
    <3> DEFINE gap == 8
    <3>1. gap \in Nat /\ gap > 0
      OBVIOUS
    <3> HIDE DEF gap
    <3>2. Apart(DedupeTimes(S, d, gap), d, gap) /\ Len(DedupeTimes(S, d, gap)) > 0
      BY <2>11, <2>13, <3>1, DedupedTimes
    <3>3. Near(DedupeTimes(S, d, gap), S \cap (0..(d - 1)), gap)
      BY <2>11, <3>1, DedupedTimes
    <3> QED BY <3>2, <3>3 DEF gap
  <2>15. r \in Seq(Int) /\ Len(r) \in Nat
    BY <2>14 DEF Apart
  <2> HIDE DEF r
  <2> DEFINE n == Low(budget, Len(r))
  <2>16. n \in 1..budget /\ n <= Len(r) /\ (n = budget \/ n = Len(r))
    BY <2>14, <2>15 DEF Low
  <2>17. /\ Apart(frames, d, 8) /\ Len(frames) = n
         /\ \A i \in 1..n : frames[i] = r[i]
    <3>1. Apart(First(r, budget), d, 8)
      BY <2>14, FirstApart
    <3>2. Len(First(r, budget)) = n /\ \A i \in 1..n : First(r, budget)[i] = r[i]
      BY <2>14, FirstApart
    <3> QED BY <2>1, <3>1, <3>2
  <2> HIDE DEF n
  <2>18. /\ \A i \in 1..Len(r) : r[i] \in Int
         /\ \A i, j \in 1..Len(r) : i < j => r[i] < r[j]
    BY <2>14 DEF Apart
  <2>19. ASSUME NEW t \in K, t <= frames[Len(frames)]
         PROVE  \E i \in 1..Len(frames) : t - frames[i] \in 0..(8 - 1)
    <3>1. t \in Int /\ t \in S \cap (0..(d - 1))
      BY <1>3, <2>11
    <3>2. PICK i \in 1..Len(r) : t - r[i] \in 0..(8 - 1)
      BY <2>14, <3>1 DEF Near
    <3>3. n \in 1..n /\ n \in 1..Len(r) /\ frames[Len(frames)] = r[n]
      BY <2>15, <2>16, <2>17
    <3>4. r[i] <= t /\ r[i] \in Int /\ r[n] \in Int
      BY <2>18, <3>1, <3>2, <3>3
    <3>5. ~(n < i)
      BY <2>18, <2>19, <3>1, <3>3, <3>4
    <3>6. i \in 1..n
      BY <2>15, <2>16, <3>5
    <3> QED BY <2>17, <3>2, <3>6
  <2>20. Near(frames, {t \in K : t <= frames[Len(frames)]}, 8)
    BY <2>19 DEF Near
  <2> QED BY <2>16, <2>17, <2>20 DEF K
<1> QED BY <1>5, <1>6


LEMMA TwoGaps ==
  ASSUME NEW t \in Int, NEW u \in Int, NEW v \in Int, t - u \in 0..(8 - 1)
  PROVE  (u - v \in 0..(8 - 1) => t - v \in 0..14) /\ (~(u <= v) => t > v)
OBVIOUS

\* The frames of a sweep: every time it has to look at is within two gaps of a
\* frame or past the last one.
LEMMA SweptFrames ==
  ASSUME NEW d \in Nat \ {0}, NEW budget \in Nat \ {0},
         NEW cuts \in SUBSET Nat, IsFiniteSet(cuts),
         NEW anomalies, IsFiniteSet(anomalies), \A x \in anomalies : x[1] \in Nat /\ x[2] \in Nat,
         NEW frames, frames = InitialFrames(d, cuts, anomalies, budget),
         NEW t \in Anchors(d, High(2, budget \div 3)) \cup {Middle(x) : x \in anomalies}
  PROVE  /\ Apart(frames, d, 8) /\ Len(frames) \in 1..budget
         /\ (\E i \in 1..Len(frames) : t - frames[i] \in 0..14) \/ t > frames[Len(frames)]
<1> DEFINE anchors == Anchors(d, High(2, budget \div 3))
           smoke == {Middle(x) : x \in anomalies}
           shots == {Low(c + 3, d - 1) : c \in cuts}
           must == anchors \cup smoke
           every == anchors \cup smoke \cup shots
           gap == 8
           k == DedupeTimes(must, d, gap)
           a == DedupeTimes(every, d, gap)
<1>1. frames = Pick(ToSet(a), ToSet(k), budget, d)
  BY DEF InitialFrames
<1>2. anchors \in SUBSET Nat /\ IsFiniteSet(anchors) /\ anchors # {}
  <2>1. High(2, budget \div 3) \in Nat /\ High(2, budget \div 3) >= 2
    BY DEF High
  <2> QED BY <2>1, AnchorTimes
<1>3. smoke \in SUBSET Nat /\ IsFiniteSet(smoke)
  BY MiddleTimes
<1>4. shots \in SUBSET Int /\ IsFiniteSet(shots)
  <2> DEFINE f == [c \in cuts |-> Low(c + 3, d - 1)]
  <2>1. \A c \in cuts : f[c] = Low(c + 3, d - 1) /\ Low(c + 3, d - 1) \in Int
    BY DEF Low
  <2> HIDE DEF f
  <2>2. shots = {f[c] : c \in cuts}
    BY <2>1
  <2>3. IsFiniteSet({f[c] : c \in cuts})
    BY ImageFinite
  <2> QED BY <2>1, <2>2, <2>3
<1>5. gap \in Nat /\ gap > 0
  OBVIOUS
<1> HIDE DEF anchors, smoke, shots
<1>6. must \in SUBSET Nat /\ IsFiniteSet(must) /\ must # {}
  <2>1. IsFiniteSet(must)
    BY <1>2, <1>3, FS_Union
  <2> QED BY <1>2, <1>3, <2>1
<1>7. every \in SUBSET Int /\ IsFiniteSet(every) /\ every # {} /\ must \in SUBSET every
  <2>1. every = must \cup shots
    OBVIOUS
  <2> HIDE DEF must
  <2>2. IsFiniteSet(must \cup shots)
    BY <1>4, <1>6, FS_Union
  <2> HIDE DEF every
  <2>3. every \in SUBSET Int /\ every # {} /\ must \in SUBSET every
    BY <1>4, <1>6, <2>1
  <2> QED BY <2>1, <2>2, <2>3
<1>8. t \in must /\ t \in every /\ t \in Nat
  BY <1>6, <1>7 DEF anchors, smoke
<1> HIDE DEF must, every, gap
<1>9. Apart(k, d, gap) /\ Len(k) > 0 /\ Near(k, must \cap (0..(d - 1)), gap)
  <2>1. must \in SUBSET Int
    BY <1>6
  <2> QED BY <1>5, <1>6, <2>1, DedupedTimes
<1>10. Apart(a, d, gap) /\ Len(a) > 0 /\ Near(a, every \cap (0..(d - 1)), gap)
  BY <1>5, <1>7, DedupedTimes
<1> HIDE DEF a, k
<1>11. /\ Apart(frames, d, 8) /\ Len(frames) \in 1..budget
       /\ \/ \A i \in 1..Len(a) : \E j \in 1..Len(frames) : frames[j] = a[i]
          \/ Near(frames, {u \in ToSet(k) : u <= frames[Len(frames)]}, 8)
  <2>1. Apart(a, d, 8) /\ Apart(k, d, 8)
    BY <1>9, <1>10 DEF gap
  <2>2. Apart(frames, d, 8) /\ Len(frames) \in 1..budget
    BY <1>1, <1>9, <1>10, <2>1, PickedFrames
  <2>3. \/ \A i \in 1..Len(a) : \E j \in 1..Len(frames) : frames[j] = a[i]
        \/ Near(frames, {u \in ToSet(k) : u <= frames[Len(frames)]}, 8)
    BY <1>1, <1>9, <1>10, <2>1, PickedFrames
  <2> QED BY <2>2, <2>3
<1>12. \A i \in 1..Len(frames) : frames[i] \in 0..(d - 1)
  BY <1>11 DEF Apart
<1>13. CASE t > d - 1
  <2>1. Len(frames) \in 1..Len(frames)
    BY <1>11
  <2>2. frames[Len(frames)] \in 0..(d - 1)
    BY <1>12, <2>1
  <2> QED BY <1>8, <1>11, <1>13, <2>2
<1>14. CASE t \in 0..(d - 1)
  <2>1. PICK u \in ToSet(k) : u \in Int /\ t - u \in 0..(8 - 1)
    <3>1. PICK i \in 1..Len(k) : t - k[i] \in 0..(8 - 1)
      BY <1>8, <1>9, <1>14 DEF Near, gap
    <3>2. k \in Seq(Int) /\ k[i] \in Int
      BY <1>9 DEF Apart
    <3>3. k[i] \in ToSet(k)
      BY <3>2, ListedTimes
    <3> QED BY <3>1, <3>2, <3>3
  <2>2. PICK j \in 1..Len(a) : t - a[j] \in 0..(8 - 1)
    BY <1>8, <1>10, <1>14 DEF Near, gap
  <2>3. a[j] \in Int
    BY <1>10 DEF Apart
  <2>4. Len(frames) \in 1..Len(frames) /\ frames[Len(frames)] \in Int
    BY <1>11, <1>12
  <2>5. CASE \A x \in 1..Len(a) : \E y \in 1..Len(frames) : frames[y] = a[x]
    <3>1. PICK y \in 1..Len(frames) : frames[y] = a[j]
      BY <2>5
    <3>2. t - frames[y] \in 0..14
      BY <1>8, <2>2, <2>3, <3>1
    <3> QED BY <1>11, <3>2
  <2>6. CASE Near(frames, {x \in ToSet(k) : x <= frames[Len(frames)]}, 8)
    <3>1. CASE u <= frames[Len(frames)]
      <4>1. PICK y \in 1..Len(frames) : u - frames[y] \in 0..(8 - 1)
        BY <2>6, <3>1 DEF Near
      <4>2. t - frames[y] \in 0..14
        <5> DEFINE v == frames[y]
        <5>1. v \in Int /\ t \in Int /\ u \in Int /\ t - u \in 0..(8 - 1)
          BY <1>8, <1>12, <2>1
        <5>2. u - v \in 0..(8 - 1)
          BY <4>1
        <5> HIDE DEF v
        <5>3. t - v \in 0..14
          BY ONLY <5>1, <5>2, TwoGaps
        <5> QED BY <5>3 DEF v
      <4> QED BY <1>11, <4>2
    <3>2. CASE ~(u <= frames[Len(frames)])
      <4>1. t > frames[Len(frames)]
        BY <1>8, <2>1, <2>4, <3>2, TwoGaps
      <4> QED BY <1>11, <4>1
    <3> QED BY <3>1, <3>2
  <2> QED BY <1>11, <2>5, <2>6
<1> QED BY <1>8, <1>13, <1>14


\* A sweep has a frame to take, and no more than its budget.
LEMMA ScaledBudget ==
  ASSUME NEW d \in Nat \ {0}, NEW stretch \in Nat \ {0}, NEW floor \in Nat, NEW cap \in Nat \ {0}
  PROVE  ScaledFrameCount(d, stretch, floor, cap) \in 1..cap
<1> DEFINE n == Rounded(d, stretch)
<1>1. d \div stretch \in Nat
  BY WholePart
<1>2. n \in Nat
  BY <1>1 DEF Rounded
<1> HIDE DEF n
<1>3. ScaledFrameCount(d, stretch, floor, cap) = High(1, Low(High(floor, n + 1), cap))
  BY DEF ScaledFrameCount, n
<1> QED BY <1>2, <1>3 DEF High, Low

\* What the code leaves of the promise that the sweep retains its anchors and
\* anomalies: whatever is lost lies past its last frame.
LossIsAtTheEnd ==
  rule = "frames" =>
    LET frames == Sweep(given)
    IN \A t \in MustSee(given) :
         (\E i \in DOMAIN frames : t - frames[i] \in 0..14) \/ t > Last(frames)

\* What a sweep is made of: apart, in order, inside the program, within the budget
\* and with each time it has to look at, up to the last frame.
LEMMA SweepMade ==
  ASSUME NEW input \in FrameInput
  PROVE  /\ Apart(Sweep(input), input.duration, 8) /\ Len(Sweep(input)) \in 1..input.budget
         /\ \A t \in MustSee(input) :
              \/ \E i \in DOMAIN Sweep(input) : t - Sweep(input)[i] \in 0..14
              \/ t > Last(Sweep(input))
<1> DEFINE d == input.duration
           budget == SweepBudget(input)
           frames == Sweep(input)
           wanted == MustSee(input)
<1>1. /\ d \in Nat \ {0} /\ input.budget \in Nat \ {0}
      /\ input.cuts \in SUBSET Nat /\ IsFiniteSet(input.cuts) /\ IsFiniteSet(input.anomalies)
      /\ \A a \in input.anomalies : a[1] \in Nat /\ a[2] \in Nat
      /\ input.stretch \in Nat \ {0} /\ input.floor \in Nat
  BY FrameAssumption
<1>2. budget \in 1..input.budget
  BY <1>1, ScaledBudget DEF SweepBudget
<1>3. budget \in Nat \ {0} /\ budget <= input.budget
  BY <1>1, <1>2
<1>4. /\ frames = InitialFrames(d, input.cuts, input.anomalies, budget)
      /\ wanted = Anchors(d, High(2, budget \div 3)) \cup {Middle(a) : a \in input.anomalies}
  BY DEF Sweep, MustSee
<1> HIDE DEF d, budget, frames, wanted
<1>5. ASSUME NEW t \in wanted
      PROVE  /\ Apart(frames, d, 8) /\ Len(frames) \in 1..budget
             /\ (\E i \in 1..Len(frames) : t - frames[i] \in 0..14) \/ t > frames[Len(frames)]
  BY <1>1, <1>3, <1>4, SweptFrames
<1>6. \E t : t \in wanted
  <2>1. High(2, budget \div 3) \in Nat /\ High(2, budget \div 3) >= 2
    BY <1>3 DEF High
  <2> QED BY <1>1, <1>4, <2>1, AnchorTimes
<1>7. Apart(frames, d, 8) /\ Len(frames) \in 1..budget
  BY <1>5, <1>6
<1>8. frames \in Seq(Int) /\ DOMAIN frames = 1..Len(frames) /\ Last(frames) = frames[Len(frames)]
  BY <1>7 DEF Apart, Last
<1>9. \A t \in wanted : (\E i \in DOMAIN frames : t - frames[i] \in 0..14) \/ t > Last(frames)
  BY <1>5, <1>8
<1>10. Len(frames) \in 1..input.budget
  BY <1>1, <1>3, <1>7
<1> QED BY <1>7, <1>9, <1>10 DEF d, frames, wanted

\* Whatever the scan flags and however long the program is, what the blind sweep
\* has to look at is lost only past its last frame (_initial_agentic_evidence).
THEOREM SweepLosesOnlyItsEnd == Spec => []LossIsAtTheEnd
<1>1. Applied => LossIsAtTheEnd
  BY SweepMade DEF Applied, LossIsAtTheEnd
<1> QED BY <1>1, AlwaysApplied, PTL


\* The elements of a set, listed.
LEMMA ListOfSet ==
  ASSUME NEW S, IsFiniteSet(S)
  PROVE  SetToSeq(S) \in Seq(S)
<1> DEFINE n == Cardinality(S)
<1>1. n \in Nat /\ ExistsBijection(1..n, S)
  BY FS_CardinalityType
<1> HIDE DEF n
<1>2. PICK f : f \in Bijection(1..n, S)
  BY <1>1 DEF ExistsBijection
<1>3. f \in [1..n -> S] /\ IsInjective(f)
  BY <1>2 DEF Bijection, Injection
<1>4. SetToSeq(S) = CHOOSE g \in [1..n -> S] : IsInjective(g)
  BY DEF SetToSeq, n
<1>5. SetToSeq(S) \in [1..n -> S]
  BY <1>3, <1>4
<1> QED BY <1>1, <1>5

\* What is asked of samples.
LEMMA ApartIsSpaced ==
  ASSUME NEW d, NEW gap, NEW s, Apart(s, d, gap)
  PROVE  /\ Len(s) \in Nat
         /\ \A i \in DOMAIN s : s[i] \in 0..(d - 1)
         /\ \A i \in 1..(Len(s) - 1) : s[i + 1] - s[i] >= gap
<1>1. s \in Seq(Int) /\ Len(s) \in Nat /\ DOMAIN s = 1..Len(s)
  BY DEF Apart
<1>2. ASSUME NEW i \in 1..(Len(s) - 1) PROVE s[i + 1] - s[i] >= gap
  <2>1. i \in 1..Len(s) /\ i + 1 \in 1..Len(s) /\ i < i + 1
    BY <1>1
  <2> QED BY <2>1 DEF Apart
<1> QED BY <1>1, <1>2 DEF Apart

LEMMA LowBounds ==
  ASSUME NEW a \in Nat, NEW b \in Nat
  PROVE  Low(a, b) \in 0..a /\ Low(a, b) <= b
BY DEF Low

\* The windows of sound.
LEMMA WindowTimes ==
  ASSUME NEW d \in Nat \ {0}, NEW A, IsFiniteSet(A), \A a \in A : a[1] \in Nat /\ a[2] \in Nat,
         NEW r, r = InitialWindows(d, SetToSeq(A), 3, 120)
  PROVE  Apart(r, d, Low(120, d) \div 2) /\ Len(r) <= 5
<1> DEFINE silences == SetToSeq(A)
           w == Low(120, d)
           gap == w \div 2
           f == [i \in 0..2 |-> ((d - w) * i) \div 2]
           spread == IF d <= w THEN {0} ELSE {f[i] : i \in 0..2}
           m == Low(2, Len(silences))
           g == [i \in 1..m |-> High(0, silences[i][1] - 10)]
           early == {g[i] : i \in 1..m}
<1>1. w \in Nat /\ gap \in Nat
  BY DEF Low
<1>2. silences \in Seq(A)
  BY ListOfSet
<1> HIDE DEF silences, w
<1>3. m \in 0..2 /\ m <= Len(silences)
  <2>1. Len(silences) \in Nat
    BY <1>2
  <2> QED BY <2>1, LowBounds
<1>4. r = DedupeTimes(spread \cup early, d, gap)
  <2>1. High(3 - 1, 1) = 2 /\ 3 - 1 = 2
    BY DEF High
  <2>2. {f[i] : i \in 0..2} = {((d - w) * i) \div 2 : i \in 0..2}
    OBVIOUS
  <2>3. early = {High(0, silences[i][1] - 10) : i \in 1..m}
    OBVIOUS
  <2> HIDE DEF f, early
  <2> QED BY <2>1, <2>2, <2>3 DEF InitialWindows, w, silences
<1>5. spread \in SUBSET Int /\ IsFiniteSet(spread) /\ Cardinality(spread) \in Nat
      /\ Cardinality(spread) <= 3
  <2>1. \A i \in 0..2 : f[i] \in Int
    BY <1>1
  <2> HIDE DEF f
  <2>2. IsFiniteSet(0..2) /\ Cardinality(0..2) = 3
    <3> DEFINE k == 2
    <3>1. 0 \in Int /\ k \in Int
      OBVIOUS
    <3> HIDE DEF k
    <3>2. IsFiniteSet(0..k) /\ Cardinality(0..k) = IF 0 > k THEN 0 ELSE k - 0 + 1
      BY <3>1, FS_Interval
    <3> QED BY <3>2 DEF k
  <2>3. /\ IsFiniteSet({f[i] : i \in 0..2}) /\ Cardinality({f[i] : i \in 0..2}) \in Nat
        /\ Cardinality({f[i] : i \in 0..2}) <= 3
    BY <2>2, ImageFinite
  <2>4. IsFiniteSet({0}) /\ Cardinality({0}) = 1
    BY FS_Singleton
  <2> QED BY <2>1, <2>3, <2>4
<1>6. early \in SUBSET Int /\ IsFiniteSet(early) /\ Cardinality(early) \in Nat
      /\ Cardinality(early) <= 2
  <2>1. ASSUME NEW i \in 1..m PROVE g[i] \in Int
    <3>1. silences[i] \in A
      BY <1>2, <1>3
    <3> QED BY <3>1 DEF High
  <2> HIDE DEF g, m
  <2>2. IsFiniteSet(1..m) /\ Cardinality(1..m) <= 2
    <3>1. 1 \in Int /\ m \in Int
      BY <1>3
    <3>2. IsFiniteSet(1..m) /\ Cardinality(1..m) = IF 1 > m THEN 0 ELSE m - 1 + 1
      BY <3>1, FS_Interval
    <3> QED BY <1>3, <3>2
  <2>3. /\ IsFiniteSet(early) /\ Cardinality(early) \in Nat
        /\ Cardinality(early) <= Cardinality(1..m) /\ Cardinality(1..m) \in Nat
    BY <2>2, ImageFinite
  <2> QED BY <2>1, <2>2, <2>3
<1> HIDE DEF spread, early, gap
<1> DEFINE S == spread \cup early
<1>7. S \in SUBSET Int /\ IsFiniteSet(S) /\ Cardinality(S) <= 5 /\ Cardinality(S) \in Nat
  <2>1. IsFiniteSet(spread \cap early)
    BY <1>5, FS_Subset
  <2>2. Cardinality(spread \cap early) \in Nat
    BY <2>1, FS_CardinalityType
  <2>3. IsFiniteSet(S)
        /\ Cardinality(S) = Cardinality(spread) + Cardinality(early) - Cardinality(spread \cap early)
    BY <1>5, <1>6, FS_Union
  <2>4. Cardinality(S) \in Nat
    BY <2>3, FS_CardinalityType
  <2>5. S \in SUBSET Int
    BY <1>5, <1>6
  <2> HIDE DEF S
  <2> QED BY <1>5, <1>6, <2>2, <2>3, <2>4, <2>5
<1> HIDE DEF S
<1>8. Apart(DedupeTimes(S, d, gap), d, gap) /\ Len(DedupeTimes(S, d, gap)) <= Cardinality(S)
  BY <1>1, <1>7, DedupedTimes
<1>9. r = DedupeTimes(S, d, gap)
  BY <1>4 DEF S
<1>10. Apart(r, d, gap) /\ Len(r) \in Nat
  BY <1>8, <1>9 DEF Apart
<1> QED BY <1>7, <1>8, <1>9, <1>10 DEF gap, w


\* The samples of the synthetic lane.
LEMMA GeneratedSamples ==
  ASSUME NEW d \in Nat \ {0}, NEW n \in Nat \ {0}, NEW cuts \in SUBSET Nat, IsFiniteSet(cuts),
         NEW r, r = GeneratedTimes(d, cuts, n + 1)
  PROVE  Apart(r, d, 2) /\ Len(r) <= n + 1
<1> DEFINE edge == Low(4, d \div 4)
           b == n + 1
           f == [i \in 0..(b - 1) |-> edge + ((d - 2 * edge) * i) \div (b - 1)]
           anchors == {f[i] : i \in 0..(b - 1)}
           g == [c \in cuts |-> Low(c + 1, d)]
           shots == {g[c] : c \in cuts}
           S == anchors \cup shots
           gap == 2
           times == DedupeTimes(S, d, gap)
           step == High(1, Len(times) \div b)
<1>1. r = IF Len(times) > b THEN First(Strided(times, step), b) ELSE times
  <2>1. {f[i] : i \in 0..(b - 1)} = {edge + ((d - 2 * edge) * i) \div (b - 1) : i \in 0..(b - 1)}
    OBVIOUS
  <2>2. {g[c] : c \in cuts} = {Low(c + 1, d) : c \in cuts}
    OBVIOUS
  <2> HIDE DEF f, g
  <2> QED BY <2>1, <2>2 DEF GeneratedTimes
<1>2. anchors \in SUBSET Int /\ IsFiniteSet(anchors)
  <2>1. edge \in Nat
    BY DEF Low
  <2>2. b - 1 = n /\ n \in Nat \ {0}
    OBVIOUS
  <2> HIDE DEF edge, b
  <2>3. ASSUME NEW i \in 0..(b - 1) PROVE f[i] \in Int
    <3> DEFINE w == (d - 2 * edge) * i
    <3>1. w \in Int
      BY <2>1, <2>2
    <3>2. f[i] = edge + w \div n
      BY <2>2
    <3> HIDE DEF w, f
    <3> QED BY <2>1, <3>1, <3>2
  <2> HIDE DEF f
  <2>4. IsFiniteSet(0..(b - 1))
    <3>1. 0 \in Int /\ n \in Int
      OBVIOUS
    <3>2. IsFiniteSet(0..n)
      BY <3>1, FS_Interval
    <3> QED BY <2>2, <3>2
  <2> QED BY <2>3, <2>4, ImageFinite
<1>3. shots \in SUBSET Int /\ IsFiniteSet(shots)
  <2>1. \A c \in cuts : g[c] \in Int
    BY DEF Low
  <2> HIDE DEF g
  <2> QED BY <2>1, ImageFinite
<1> HIDE DEF anchors, shots
<1>4. S \in SUBSET Int /\ IsFiniteSet(S)
  <2>1. IsFiniteSet(anchors \cup shots)
    BY <1>2, <1>3, FS_Union
  <2> QED BY <1>2, <1>3, <2>1
<1>5. gap \in Nat /\ b \in Nat \ {0}
  OBVIOUS
<1> HIDE DEF S, gap, b
<1>6. Apart(times, d, gap)
  BY <1>4, <1>5, DedupedTimes
<1>7. times \in Seq(Int) /\ Len(times) \in Nat
  BY <1>6 DEF Apart
<1> HIDE DEF times
<1>8. step \in Nat \ {0}
  <2>1. Len(times) \div b \in Nat
    BY <1>5, <1>7, WholePart
  <2> QED BY <2>1 DEF High
<1> HIDE DEF step
<1>9. CASE Len(times) > b
  <2> DEFINE s == Strided(times, step)
  <2>1. Apart(s, d, gap)
    BY <1>6, <1>8, StridedApart
  <2>2. Len(s) \in Nat
    BY <2>1 DEF Apart
  <2> HIDE DEF s
  <2>3. Apart(First(s, b), d, gap) /\ Len(First(s, b)) = Low(b, Len(s))
    BY <1>5, <2>1, FirstApart
  <2>4. Low(b, Len(s)) <= b
    BY <1>5, <2>2 DEF Low
  <2> QED BY <1>1, <1>9, <2>3, <2>4 DEF s, gap, b
<1>10. CASE ~(Len(times) > b)
  BY <1>1, <1>5, <1>6, <1>7, <1>10 DEF gap, b
<1> QED BY <1>9, <1>10

LEMMA FineSamples ==
  ASSUME NEW d \in Nat \ {0}, NEW limit \in Nat, NEW C \in SUBSET Nat, IsFiniteSet(C),
         NEW r, r = FineTimes(d, C, limit)
  PROVE  Apart(r, d, 1) /\ Len(r) <= limit
<1> DEFINE g == [c \in C |-> {c - 2, c, c + 2}]
           U == {g[c] : c \in C}
           S == UNION U
           gap == 1
           times == DedupeTimes(S, d, gap)
<1>1. r = First(times, limit)
  <2>1. U = {{c - 2, c, c + 2} : c \in C}
    OBVIOUS
  <2> HIDE DEF U, g
  <2> QED BY <2>1 DEF FineTimes
<1>2. \A T \in U : T \in SUBSET Int /\ IsFiniteSet(T)
  <2> SUFFICES ASSUME NEW c \in C PROVE g[c] \in SUBSET Int /\ IsFiniteSet(g[c])
    OBVIOUS
  <2>1. g[c] = {c - 2} \cup ({c} \cup {c + 2}) /\ g[c] \in SUBSET Int
    OBVIOUS
  <2>2. IsFiniteSet({c - 2}) /\ IsFiniteSet({c}) /\ IsFiniteSet({c + 2})
    BY FS_Singleton
  <2>3. IsFiniteSet({c} \cup {c + 2})
    BY <2>2, FS_Union
  <2>4. IsFiniteSet({c - 2} \cup ({c} \cup {c + 2}))
    BY <2>2, <2>3, FS_Union
  <2> HIDE DEF g
  <2> QED BY <2>1, <2>4
<1>3. IsFiniteSet(U)
  <2> HIDE DEF g
  <2> QED BY ImageFinite
<1> HIDE DEF U
<1>4. S \in SUBSET Int /\ IsFiniteSet(S)
  BY <1>2, <1>3, FS_UNION
<1>5. gap \in Nat
  OBVIOUS
<1> HIDE DEF S, gap
<1>6. Apart(times, d, gap)
  BY <1>4, <1>5, DedupedTimes
<1>7. Len(times) \in Nat
  BY <1>6 DEF Apart
<1> HIDE DEF times
<1>8. Apart(First(times, limit), d, gap) /\ Len(First(times, limit)) = Low(limit, Len(times))
  BY <1>6, FirstApart
<1>9. Low(limit, Len(times)) <= limit
  BY <1>7 DEF Low
<1> QED BY <1>1, <1>8, <1>9 DEF gap


\* Six of more than six candidates, from the first to the last.
LEMMA SixOf ==
  ASSUME NEW n \in Nat, n > 6, NEW i \in 1..6, NEW j \in 1..6, i < j
  PROVE  /\ ((2 * (i - 1) * (n - 1)) + 5) \div 10 + 1 \in 1..n
         /\ ((2 * (i - 1) * (n - 1)) + 5) \div 10 + 1 < ((2 * (j - 1) * (n - 1)) + 5) \div 10 + 1
<1> DEFINE m == n - 1
           Index(k) == (2 * (k - 1) * m + 5) \div 10
<1>1. m \in Nat /\ m >= 6
  OBVIOUS
<1> HIDE DEF m
<1>2. /\ Index(1) = 0 /\ Index(2) = (2 * m + 5) \div 10 /\ Index(3) = (4 * m + 5) \div 10
      /\ Index(4) = (6 * m + 5) \div 10 /\ Index(5) = (8 * m + 5) \div 10
      /\ Index(6) = (10 * m + 5) \div 10
  BY <1>1
<1> HIDE DEF Index
<1>3. /\ 0 < Index(2) /\ Index(2) < Index(3) /\ Index(3) < Index(4) /\ Index(4) < Index(5)
      /\ Index(5) < Index(6) /\ Index(6) = m
      /\ \A k \in 1..6 : Index(k) \in Int
  BY <1>1, <1>2
<1>4. i \in {1, 2, 3, 4, 5} /\ j \in {2, 3, 4, 5, 6}
  OBVIOUS
<1>5. Index(i) < Index(j) /\ Index(i) \in 0..m
  BY <1>1, <1>2, <1>3, <1>4
<1> QED BY <1>1, <1>5 DEF Index, m

LEMMA PosterSamples ==
  ASSUME NEW d \in Nat \ {0}, NEW cuts \in SUBSET Nat, IsFiniteSet(cuts),
         NEW r, r = CandidateTimes(d, cuts, 6)
  PROVE  Apart(r, d, 8) /\ Len(r) <= 6
<1> DEFINE edge == Low(5, d \div 10)
           f == [x \in {8, 25, 45, 65, 82} |-> edge + (High(d - 2 * edge, 0) * x) \div 100]
           anchors == {f[x] : x \in {8, 25, 45, 65, 82}}
           g == [c \in cuts |-> Low(High(c + 4, edge), High(d - edge, edge))]
           shots == {g[c] : c \in cuts}
           S == anchors \cup shots
           gap == 8
           times == DedupeTimes(S, d, gap)
           n == Len(times)
           at == [i \in 1..6 |-> ((2 * (i - 1) * (n - 1)) + (6 - 1)) \div (2 * High(6 - 1, 1)) + 1]
<1>1. r = IF n <= 6 THEN times ELSE Selected(times, at, 6)
  <2>1. anchors = {edge + (High(d - 2 * edge, 0) * x) \div 100 : x \in {8, 25, 45, 65, 82}}
    OBVIOUS
  <2>2. shots = {Low(High(c + 4, edge), High(d - edge, edge)) : c \in cuts}
    OBVIOUS
  <2>3. ~(d <= 0) /\ ~(6 <= 0)
    OBVIOUS
  <2>4. Selected(times, at, 6) =
          [i \in 1..6 |-> times[((2 * (i - 1) * (n - 1)) + (6 - 1)) \div (2 * High(6 - 1, 1)) + 1]]
    BY DEF Selected
  <2>5. times = Thinned(Ordered({Within(t, 0, High(d - 1, 0)) : t \in S}), 8)
    BY DEF DedupeTimes
  <2> HIDE DEF anchors, shots, at, times
  <2> QED BY <2>1, <2>2, <2>3, <2>4, <2>5 DEF CandidateTimes
<1>2. anchors \in SUBSET Int /\ IsFiniteSet(anchors)
  <2>1. edge \in Nat /\ High(d - 2 * edge, 0) \in Int
    BY DEF Low, High
  <2> HIDE DEF edge
  <2>2. ASSUME NEW x \in {8, 25, 45, 65, 82} PROVE f[x] \in Int
    <3> DEFINE w == High(d - 2 * edge, 0) * x
    <3>1. w \in Int
      BY <2>1
    <3>2. f[x] = edge + w \div 100
      OBVIOUS
    <3> HIDE DEF w, f
    <3> QED BY <2>1, <3>1, <3>2
  <2> HIDE DEF f
  <2>3. IsFiniteSet({8, 25, 45, 65, 82})
    <3>1. IsFiniteSet(0..100)
      <4> DEFINE k == 100
      <4>1. 0 \in Int /\ k \in Int
        OBVIOUS
      <4> HIDE DEF k
      <4>2. IsFiniteSet(0..k)
        BY <4>1, FS_Interval
      <4> QED BY <4>2 DEF k
    <3>2. {8, 25, 45, 65, 82} \in SUBSET (0..100)
      OBVIOUS
    <3> QED BY <3>1, <3>2, FS_Subset
  <2> QED BY <2>2, <2>3, ImageFinite
<1>3. shots \in SUBSET Int /\ IsFiniteSet(shots)
  <2>1. \A c \in cuts : g[c] \in Int
    BY DEF Low, High
  <2> HIDE DEF g
  <2> QED BY <2>1, ImageFinite
<1> HIDE DEF anchors, shots
<1>4. S \in SUBSET Int /\ IsFiniteSet(S)
  <2>1. IsFiniteSet(anchors \cup shots)
    BY <1>2, <1>3, FS_Union
  <2> QED BY <1>2, <1>3, <2>1
<1>5. gap \in Nat
  OBVIOUS
<1> HIDE DEF S, gap
<1>6. Apart(times, d, gap)
  BY <1>4, <1>5, DedupedTimes
<1>7. times \in Seq(Int) /\ n \in Nat
  BY <1>6 DEF Apart
<1> HIDE DEF times
<1>8. CASE n <= 6
  BY <1>1, <1>6, <1>8 DEF gap
<1>9. CASE ~(n <= 6)
  <2> DEFINE exact == [i \in 1..6 |-> ((2 * (i - 1) * (n - 1)) + 5) \div 10 + 1]
  <2>0. at = exact
    <3>1. 2 * High(6 - 1, 1) = 10 /\ 6 - 1 = 5
      BY DEF High
    <3> QED BY <3>1
  <2>1. \A i, j \in 1..6 : i < j => exact[i] \in 1..n /\ exact[i] < exact[j]
    <3> HIDE DEF n
    <3> SUFFICES ASSUME NEW i \in 1..6, NEW j \in 1..6, i < j
                 PROVE  exact[i] \in 1..n /\ exact[i] < exact[j]
      OBVIOUS
    <3>1. n > 6
      BY <1>7, <1>9
    <3> QED BY <1>7, <3>1, SixOf
  <2>2. exact[6] \in 1..n
    <3> HIDE DEF n
    <3>1. n > 6
      BY <1>7, <1>9
    <3> QED BY <1>7, <3>1
  <2>3. exact \in [1..6 -> 1..n]
    <3>1. \A i \in 1..6 : i < 6 \/ i = 6
      OBVIOUS
    <3>2. exact = [i \in 1..6 |-> exact[i]]
      OBVIOUS
    <3> HIDE DEF exact
    <3>3. \A i \in 1..6 : exact[i] \in 1..n
      BY <2>1, <2>2, <3>1
    <3> QED BY <3>2, <3>3
  <2> HIDE DEF at, exact
  <2> DEFINE k == 6
  <2>4. k \in Nat /\ at \in [1..k -> 1..Len(times)] /\ \A i, j \in 1..k : i < j => at[i] < at[j]
    BY <2>0, <2>1, <2>3
  <2> HIDE DEF k
  <2>5. Apart(Selected(times, at, k), d, gap) /\ Len(Selected(times, at, k)) = k
    BY <1>6, <2>4, SelectedApart
  <2>6. r = Selected(times, at, k)
    BY <1>1, <1>9 DEF k
  <2>7. Apart(r, d, gap) /\ Len(r) = k
    BY <2>5, <2>6
  <2>8. Apart(r, d, 8)
    BY <2>7 DEF gap
  <2>9. Len(r) = 6
    BY <2>7 DEF k
  <2> HIDE DEF n
  <2>10. Len(r) <= 6
    BY ONLY <2>9
  <2> QED BY <2>8, <2>10
<1> QED BY <1>8, <1>9


\* A request the model made, once it is normalized, is inside the program, and a
\* still of it or its sound can be taken.
LEMMA NormalizedRequests ==
  ASSUME NEW d \in Nat \ {0}, NEW raw, IsList(raw),
         \A i \in DOMAIN raw : /\ {"type", "at", "span"} \subseteq DOMAIN raw[i]
                               /\ raw[i].at \in Int /\ raw[i].span \in Int,
         NEW limit \in Nat, NEW r, r = NormalizeRequests(raw, d, limit)
  PROVE  /\ Len(r) \in Nat /\ Len(r) <= limit /\ DOMAIN r = 1..Len(r)
         /\ \A i \in 1..Len(r) :
              /\ r[i].at \in 0..d /\ r[i].span \in Nat
              /\ r[i].at + r[i].span <= d \/ (r[i].span = 5 /\ r[i].at > d - 5)
<1> DEFINE S == {raw[i] : i \in DOMAIN raw}
           I == {i \in DOMAIN raw : raw[i].type \in Instant \cup Stretch}
           known == Among(raw, I)
           n == Low(limit, Len(known))
           At(q) == Within(q.at, 0, d)
           Span(q) == IF q.type \in Instant THEN 0
                      ELSE High(5, Low(Low(q.span, 400), High(d - At(q), 5)))
<1>1. raw \in Seq(S) /\ I \in SUBSET DOMAIN raw
  BY DEF IsList
<1>2. /\ known \in Seq(S) /\ Len(known) = Cardinality(I) /\ Cardinality(I) \in Nat
      /\ Ordered(I) \in [1..Cardinality(I) -> I]
      /\ \A k \in 1..Cardinality(I) : known[k] = raw[Ordered(I)[k]]
  <2> HIDE DEF S, I
  <2> QED BY <1>1, AmongElements
<1>3. ASSUME NEW k \in 1..Len(known)
      PROVE  /\ {"type", "at", "span"} \subseteq DOMAIN known[k]
             /\ known[k].at \in Int /\ known[k].span \in Int
             /\ known[k].type \in Instant \cup Stretch
  <2>1. known[k] = raw[Ordered(I)[k]] /\ Ordered(I)[k] \in I
    BY <1>2
  <2> HIDE DEF known
  <2> QED BY <2>1
<1>4. r = [i \in 1..n |-> [known[i] EXCEPT !.at = At(known[i]), !.span = Span(known[i])]]
  BY DEF NormalizeRequests
<1> HIDE DEF known
<1>5. n \in Nat /\ n <= limit /\ n <= Len(known)
  <2>1. Len(known) \in Nat
    BY <1>2
  <2> QED BY <2>1, LowBounds
<1> HIDE DEF n
<1>6. Len(r) = n /\ DOMAIN r = 1..n
  <2> HIDE DEF At, Span
  <2> DEFINE R == {r[i] : i \in 1..n}
  <2>1. DOMAIN r = 1..n /\ r = [i \in 1..n |-> r[i]]
    BY <1>4
  <2>2. \A i \in 1..n : r[i] \in R
    OBVIOUS
  <2> HIDE DEF R
  <2>3. r \in [1..n -> R]
    BY ONLY <2>1, <2>2
  <2>4. Len(r) = n
    BY ONLY <1>5, <2>3
  <2> QED BY <2>1, <2>4
<1>7. ASSUME NEW i \in 1..n
      PROVE  /\ r[i].at \in 0..d /\ r[i].span \in Nat
             /\ r[i].at + r[i].span <= d \/ (r[i].span = 5 /\ r[i].at > d - 5)
  <2> DEFINE q == known[i]
  <2>1. /\ {"type", "at", "span"} \subseteq DOMAIN q /\ q.at \in Int /\ q.span \in Int
        /\ q.type \in Instant \cup Stretch
    BY <1>2, <1>3, <1>5
  <2>2. r[i] = [q EXCEPT !.at = At(q), !.span = Span(q)]
    BY <1>4
  <2> HIDE DEF q
  <2>3. r[i].at = At(q) /\ r[i].span = Span(q) /\ r[i].type = q.type
    <3> HIDE DEF At, Span
    <3> QED BY <2>1, <2>2
  <2>4. At(q) \in 0..d
    BY <2>1 DEF Within, High, Low
  <2>5. Span(q) \in Nat /\ (At(q) + Span(q) <= d \/ (Span(q) = 5 /\ At(q) > d - 5))
    <3> DEFINE a == At(q)
    <3>1. a \in 0..d
      BY <2>4
    <3> HIDE DEF a, At
    <3>2. Span(q) = IF q.type \in Instant THEN 0
                    ELSE High(5, Low(Low(q.span, 400), High(d - a, 5)))
      BY DEF a
    <3> HIDE DEF Span
    <3>3. Span(q) \in Nat /\ (a + Span(q) <= d \/ (Span(q) = 5 /\ a > d - 5))
      BY <2>1, <3>1, <3>2 DEF High, Low
    <3> QED BY <3>3 DEF a
  <2> QED BY <2>3, <2>4, <2>5
<1> QED BY <1>5, <1>6, <1>7

\* A share of a span is no longer than the span.
LEMMA Share ==
  ASSUME NEW w \in Nat, NEW n \in Nat \ {0}, NEW j \in 0..n
  PROVE  (w * j) \div n \in 0..w
<1> DEFINE q == (w * j) \div n
           k == n - j
<1>1. w * j \in Nat /\ k \in Nat /\ w * k \in Nat
  OBVIOUS
<1>2. w * n = w * j + w * k
  OBVIOUS
<1>3. q \in Nat /\ n * q <= w * j
  BY <1>1, WholePart
<1> HIDE DEF q, k
<1>4. CASE w < q
  <2>1. w * n < q * n
    BY <1>3, <1>4, Multiples
  <2>2. q * n = n * q /\ n * q \in Nat
    BY <1>3
  <2> QED BY <1>1, <1>2, <1>3, <2>1, <2>2
<1>5. CASE ~(w < q)
  BY <1>3, <1>5 DEF q
<1> QED BY <1>4, <1>5

\* What a request is answered with lies in its stretch and inside the program.
LEMMA TakenInside ==
  ASSUME NEW requests, NEW media, NEW d \in Nat, NEW missing, NEW i \in DOMAIN requests,
         requests[i].at \in Nat, requests[i].span \in Nat,
         NEW t \in ExecuteRequests(requests, media, d, missing)[i].taken
  PROVE  t \in requests[i].at..(requests[i].at + requests[i].span) /\ t < d
<1> DEFINE q == requests[i]
<1>1. t < d /\ (t = q.at \/ t \in Stills(q))
  BY DEF ExecuteRequests
<1>2. q.at \in Nat /\ q.span \in Nat
  OBVIOUS
<1> HIDE DEF q
<1>3. \/ t = q.at
      \/ \E j \in 0..2 : t = q.at + (q.span * j) \div 2
      \/ \E j \in 0..5 : t = q.at + (q.span * j) \div 5
  BY <1>1 DEF Stills
<1>4. ASSUME NEW n \in Nat \ {0}, NEW j \in 0..n, t = q.at + (q.span * j) \div n
      PROVE  t \in q.at..(q.at + q.span)
  <2>1. (q.span * j) \div n \in 0..q.span
    BY <1>2, Share
  <2> DEFINE part == (q.span * j) \div n
  <2> HIDE DEF part
  <2>2. t = q.at + part /\ part \in 0..q.span
    BY <1>4, <2>1 DEF part
  <2> QED BY <1>2, <2>2
<1>5. t \in q.at..(q.at + q.span)
  <2>1. CASE t = q.at
    BY <1>2, <2>1
  <2>2. CASE \E j \in 0..2 : t = q.at + (q.span * j) \div 2
    BY <1>4, <2>2
  <2>3. CASE \E j \in 0..5 : t = q.at + (q.span * j) \div 5
    BY <1>4, <2>3
  <2> QED BY <1>3, <2>1, <2>2, <2>3
<1> QED BY <1>1, <1>5 DEF q


\* Every lane's samples, the blind sweep's included, are apart, in order, inside
\* the program and within its budget, and so is what the model's requests are
\* answered with (_initial_agentic_evidence, normalize_requests,
\* _execute_evidence_requests, _generated_evidence, _fine_generated_evidence,
\* candidate_times).
THEOREM SamplesAlwaysInside == Spec => []SamplesStayInside
<1>1. Applied => SamplesStayInside
  <2> SUFFICES ASSUME Applied, rule = "frames" PROVE SamplesStayInside
    BY DEF SamplesStayInside
  <2> DEFINE d == given.duration
             budget == given.budget
             cuts == given.cuts
             A == given.anomalies
             raw == given.requests
             middles == {Middle(a) : a \in A}
             windows == InitialWindows(d, SetToSeq(A), 3, 120)
             generated == GeneratedTimes(d, cuts, budget + 1)
             fine == FineTimes(d, middles, budget)
             poster == CandidateTimes(d, cuts, 6)
             requests == NormalizeRequests(raw, d, 6)
             met == ExecuteRequests(requests, given.media, d, given.missing)
             sweep == Sweep(given)
  <2>1. /\ d \in Nat \ {0} /\ budget \in Nat \ {0}
        /\ cuts \in SUBSET Nat /\ IsFiniteSet(cuts) /\ IsFiniteSet(A)
        /\ \A a \in A : a[1] \in Nat /\ a[2] \in Nat
        /\ IsList(raw)
        /\ \A i \in DOMAIN raw : /\ {"type", "at", "span"} \subseteq DOMAIN raw[i]
                                 /\ raw[i].at \in Int /\ raw[i].span \in Int
    BY FrameAssumption DEF Applied
  <2>11. Apart(sweep, d, 8) /\ Len(sweep) <= budget
    <3>1. Apart(sweep, d, 8) /\ Len(sweep) \in 1..budget
      BY SweepMade DEF Applied
    <3> QED BY <2>1, <3>1
  <2> HIDE DEF d, budget, cuts, A, raw, sweep
  <2>2. Apart(windows, d, Low(120, d) \div 2) /\ Len(windows) <= 5
    BY <2>1, WindowTimes
  <2>3. Apart(generated, d, 2) /\ Len(generated) <= budget + 1
    BY <2>1, GeneratedSamples
  <2>4. Apart(fine, d, 1) /\ Len(fine) <= budget
    <3>1. middles \in SUBSET Nat /\ IsFiniteSet(middles)
      BY <2>1, MiddleTimes
    <3> HIDE DEF middles
    <3> QED BY <2>1, <3>1, FineSamples
  <2>5. Apart(poster, d, 8) /\ Len(poster) <= 6
    BY <2>1, PosterSamples
  <2>6. /\ Len(requests) <= 6 /\ DOMAIN requests = 1..Len(requests)
        /\ \A i \in 1..Len(requests) :
             /\ requests[i].at \in 0..d /\ requests[i].span \in Nat
             /\ \/ requests[i].at + requests[i].span <= d
                \/ requests[i].span = 5 /\ requests[i].at > d - 5
    <3> DEFINE limit == 6
    <3>1. limit \in Nat
      OBVIOUS
    <3> HIDE DEF limit
    <3>2. LET r == NormalizeRequests(raw, d, limit) IN
          /\ Len(r) <= limit /\ DOMAIN r = 1..Len(r)
          /\ \A i \in 1..Len(r) :
               /\ r[i].at \in 0..d /\ r[i].span \in Nat
               /\ r[i].at + r[i].span <= d \/ (r[i].span = 5 /\ r[i].at > d - 5)
      BY <2>1, <3>1, NormalizedRequests
    <3> QED BY <3>2 DEF limit
  <2> HIDE DEF requests
  <2>12. \A i \in DOMAIN requests : \A t \in met[i].taken :
           t \in requests[i].at..(requests[i].at + requests[i].span) /\ t < d
    <3>1. ASSUME NEW i \in DOMAIN requests PROVE requests[i].at \in Nat /\ requests[i].span \in Nat
      BY <2>1, <2>6
    <3> QED BY <2>1, <3>1, TakenInside
  <2> HIDE DEF windows, generated, fine, poster, met
  <2>7. /\ \A i \in DOMAIN windows : windows[i] \in 0..(d - 1)
        /\ \A i \in 1..(Len(windows) - 1) : windows[i + 1] - windows[i] >= Low(120, d) \div 2
    BY <2>2, ApartIsSpaced
  <2>8. /\ \A i \in DOMAIN generated : generated[i] \in 0..(d - 1)
        /\ \A i \in 1..(Len(generated) - 1) : generated[i + 1] - generated[i] >= 2
    BY <2>3, ApartIsSpaced
  <2>9. /\ \A i \in DOMAIN fine : fine[i] \in 0..(d - 1)
        /\ \A i \in 1..(Len(fine) - 1) : fine[i + 1] - fine[i] >= 1
    BY <2>4, ApartIsSpaced
  <2>10. /\ \A i \in DOMAIN poster : poster[i] \in 0..(d - 1)
         /\ \A i \in 1..(Len(poster) - 1) : poster[i + 1] - poster[i] >= 8
    BY <2>5, ApartIsSpaced
  <2>13. /\ \A i \in DOMAIN sweep : sweep[i] \in 0..(d - 1)
         /\ \A i \in 1..(Len(sweep) - 1) : sweep[i + 1] - sweep[i] >= 8
    BY <2>11, ApartIsSpaced
  <2> QED BY <2>2, <2>3, <2>4, <2>5, <2>6, <2>7, <2>8, <2>9, <2>10, <2>11, <2>12, <2>13
          DEF SamplesStayInside, d, budget, cuts, A, raw, middles, windows, generated, fine, poster,
              requests, met, sweep
<1> QED BY <1>1, AlwaysApplied, PTL


-----------------------------------------------------------------------------
(* Evidence.                                                               *)

\* Places that rise are no earlier than they can be.
LEMMA RisingPlaces ==
  ASSUME NEW n \in Nat, NEW o \in [1..n -> Nat \ {0}], \A i, j \in 1..n : i < j => o[i] < o[j],
         NEW k \in 1..n
  PROVE  k <= o[k]
<1> DEFINE T == {i \in 1..n : ~(i <= o[i])}
<1> SUFFICES ASSUME T # {} PROVE FALSE
  OBVIOUS
<1>1. PICK m \in T : \A i \in T : m <= i
  <2>1. T \in SUBSET Nat
    OBVIOUS
  <2> HIDE DEF T
  <2> QED BY <2>1, LeastNumber
<1>2. m \in 1..n /\ ~(m <= o[m]) /\ o[m] \in Nat \ {0}
  BY <1>1
<1>3. m - 1 \in 1..n /\ m - 1 < m
  BY <1>2
<1>4. m - 1 <= o[m - 1] /\ o[m - 1] < o[m] /\ o[m - 1] \in Nat
  BY <1>1, <1>3
<1> QED BY <1>2, <1>4

\* What is left of requests within a budget: none of them twice, and each of the
\* first ones or one that is the same.
LEMMA Deduped ==
  ASSUME NEW S, NEW s \in Seq(S), NEW budget \in Nat
  PROVE  /\ Dedupe(s, budget) \in Seq(S) /\ Len(Dedupe(s, budget)) <= budget
         /\ \A k \in 1..Len(Dedupe(s, budget)) : \E i \in 1..Len(s) : Dedupe(s, budget)[k] = s[i]
         /\ \A i \in 1..Len(s) : i <= budget =>
              \E k \in 1..Len(Dedupe(s, budget)) : SameRequest(Dedupe(s, budget)[k], s[i])
<1> DEFINE IsFirst(i) == \A j \in 1..(i - 1) : ~SameRequest(s[j], s[i])
           I == {i \in DOMAIN s : IsFirst(i)}
           n == Cardinality(I)
           a == Among(s, I)
           o == Ordered(I)
           m == Least(budget, n)
           r == Dedupe(s, budget)
<1>1. Len(s) \in Nat /\ DOMAIN s = 1..Len(s) /\ I \in SUBSET DOMAIN s
  OBVIOUS
<1>2. r = Prefix(a, budget)
  BY DEF Dedupe
<1> HIDE DEF I
<1>3. /\ IsFiniteSet(I) /\ n \in Nat /\ a \in Seq(S) /\ Len(a) = n /\ o \in [1..n -> I]
      /\ \A k \in 1..n : a[k] = s[o[k]]
      /\ \A i \in I : \E k \in 1..n : o[k] = i /\ a[k] = s[i]
  BY <1>1, AmongElements
<1>4. \A i, j \in 1..n : i < j => o[i] < o[j]
  <2>1. I \in SUBSET Int
    BY <1>1
  <2> QED BY <1>3, <2>1, OrderedTimes
<1> HIDE DEF n, a, o, r
<1>5. m \in Nat /\ m <= budget /\ m <= n /\ (m = budget \/ m = n)
  BY <1>3 DEF Least
<1>6. r = SubSeq(a, 1, m)
  BY <1>2, <1>3 DEF Prefix
<1> HIDE DEF m
<1>7. r \in Seq(S) /\ Len(r) = m /\ \A k \in 1..m : r[k] = a[k]
  BY <1>3, <1>5, <1>6
<1>8. ASSUME NEW k \in 1..m PROVE \E i \in 1..Len(s) : r[k] = s[i]
  <2>1. k \in 1..n
    BY <1>3, <1>5
  <2>2. o[k] \in 1..Len(s) /\ a[k] = s[o[k]]
    BY <1>1, <1>3, <2>1
  <2> QED BY <1>7, <2>2
<1>9. ASSUME NEW i \in 1..Len(s), i <= budget
      PROVE  \E k \in 1..m : SameRequest(r[k], s[i])
  <2> DEFINE T == {j \in 1..i : SameRequest(s[j], s[i])}
  <2>1. i \in T
    BY <1>1 DEF SameRequest
  <2>2. PICK j \in T : \A l \in T : j <= l
    <3>1. T \in SUBSET Nat /\ T # {}
      BY <1>1, <2>1
    <3> HIDE DEF T
    <3> QED BY <3>1, LeastNumber
  <2>3. j \in 1..i /\ SameRequest(s[j], s[i])
    BY <2>2
  <2>4. ASSUME NEW l \in 1..(j - 1), SameRequest(s[l], s[j]) PROVE FALSE
    <3>1. SameRequest(s[l], s[i])
      BY <2>3, <2>4 DEF SameRequest
    <3>2. l \in 1..i /\ ~(j <= l)
      BY <1>1, <2>3
    <3> QED BY <2>2, <3>1, <3>2
  <2>5. j \in I
    BY <1>1, <2>3, <2>4 DEF I
  <2>6. PICK k \in 1..n : o[k] = j /\ a[k] = s[j]
    BY <1>3, <2>5
  <2>7. k <= o[k]
    <3>1. o \in [1..n -> Nat \ {0}]
      BY <1>1, <1>3
    <3> QED BY <1>3, <1>4, <3>1, RisingPlaces
  <2>8. k \in 1..m
    BY <1>1, <1>3, <1>5, <1>9, <2>3, <2>6, <2>7
  <2> QED BY <1>7, <2>3, <2>6, <2>8
<1> QED BY <1>5, <1>7, <1>8, <1>9 DEF r


\* A request of the kind of s[i] is in r.
HasKind(r, s, i) == \E k \in 1..Len(r) : r[k].type = s[i].type

\* A lane of the evidence: its requests within the budget, in the order of time.
LEMMA LaneOf ==
  ASSUME NEW s \in Seq(Request), NEW budget \in Nat, NEW r, r = ByTime(Dedupe(s, budget))
  PROVE  /\ r \in Seq(Request) /\ Len(r) <= budget
         /\ \A k \in 1..Len(r) : \E i \in 1..Len(s) : r[k] = s[i]
         /\ \A i \in 1..Len(s) : i <= budget => HasKind(r, s, i)
<1> DEFINE t == Dedupe(s, budget)
           key == [i \in DOMAIN t |-> t[i].at]
<1>1. /\ t \in Seq(Request) /\ Len(t) <= budget /\ Len(t) \in Nat /\ DOMAIN t = 1..Len(t)
      /\ \A k \in 1..Len(t) : \E i \in 1..Len(s) : t[k] = s[i]
      /\ \A i \in 1..Len(s) : i <= budget => \E k \in 1..Len(t) : SameRequest(t[k], s[i])
  <2>1. t \in Seq(Request) /\ Len(t) <= budget
    BY Deduped
  <2>2. \A k \in 1..Len(t) : \E i \in 1..Len(s) : t[k] = s[i]
    BY Deduped
  <2>3. \A i \in 1..Len(s) : i <= budget => \E k \in 1..Len(t) : SameRequest(t[k], s[i])
    BY Deduped
  <2> HIDE DEF t, key
  <2>4. Len(t) \in Nat /\ DOMAIN t = 1..Len(t)
    BY ONLY <2>1
  <2> QED BY ONLY <2>1, <2>2, <2>3, <2>4
<1>2. r = Arranged(t, key)
  BY DEF ByTime
<1> HIDE DEF t
<1>3. key \in [DOMAIN t -> Int]
  <2>1. \A i \in DOMAIN t : t[i] \in Request
    BY <1>1
  <2> QED BY <2>1 DEF Request
<1> HIDE DEF key
<1>4. /\ r \in Seq(Request) /\ Len(r) = Len(t)
      /\ \A n \in DOMAIN t : \E i \in DOMAIN t : r[n] = t[i]
      /\ \A i \in DOMAIN t : \E n \in DOMAIN t : r[n] = t[i]
  <2> DEFINE a == Arranged(t, key)
  <2>1. a \in Seq(Request) /\ Len(a) = Len(t)
    BY <1>1, <1>3, ArrangedElements
  <2>2. \A n \in DOMAIN t : \E i \in DOMAIN t : a[n] = t[i]
    BY <1>1, <1>3, ArrangedElements
  <2>3. \A i \in DOMAIN t : \E n \in DOMAIN t : a[n] = t[i]
    BY <1>1, <1>3, ArrangedElements
  <2> HIDE DEF a
  <2> QED BY <1>2, <2>1, <2>2, <2>3 DEF a
<1>5. ASSUME NEW i \in 1..Len(s), i <= budget
      PROVE  HasKind(r, s, i)
  <2>1. PICK l \in 1..Len(t) : SameRequest(t[l], s[i])
    BY <1>1, <1>5
  <2>2. PICK k \in 1..Len(t) : r[k] = t[l]
    BY <1>1, <1>4
  <2> QED BY <1>4, <2>1, <2>2 DEF SameRequest, HasKind
<1>6. ASSUME NEW k \in 1..Len(r) PROVE \E i \in 1..Len(s) : r[k] = s[i]
  <2>1. PICK l \in 1..Len(t) : r[k] = t[l]
    BY <1>1, <1>4
  <2> QED BY <1>1, <2>1
<1> QED BY <1>1, <1>4, <1>5, <1>6

\* Requests of the program, pictures or sounds.
Placed(s, d, visual) ==
  /\ s \in Seq(Request)
  /\ \A i \in 1..Len(s) : s[i].at \in 0..d /\ IsVisual(s[i]) = visual

LEMMA PlacedTogether ==
  ASSUME NEW d, NEW visual, NEW s, NEW t, Placed(s, d, visual), Placed(t, d, visual)
  PROVE  /\ Placed(s \o t, d, visual) /\ Len(s \o t) = Len(s) + Len(t)
         /\ \A i \in 1..Len(s) : (s \o t)[i] = s[i]
<1> DEFINE r == s \o t
<1>1. s \in Seq(Request) /\ t \in Seq(Request) /\ Len(s) \in Nat /\ Len(t) \in Nat
  BY DEF Placed
<1>2. r \in Seq(Request) /\ Len(r) = Len(s) + Len(t)
  BY <1>1
<1>3. ASSUME NEW i \in 1..Len(r) PROVE r[i] = IF i <= Len(s) THEN s[i] ELSE t[i - Len(s)]
  BY <1>1
<1> HIDE DEF r
<1>4. ASSUME NEW i \in 1..Len(r) PROVE r[i].at \in 0..d /\ IsVisual(r[i]) = visual
  <2>1. CASE i <= Len(s)
    <3>1. i \in 1..Len(s) /\ r[i] = s[i]
      BY <1>1, <1>2, <1>3, <2>1
    <3> QED BY <3>1 DEF Placed
  <2>2. CASE ~(i <= Len(s))
    <3>1. i - Len(s) \in 1..Len(t) /\ r[i] = t[i - Len(s)]
      BY <1>1, <1>2, <1>3, <2>2
    <3> QED BY <3>1 DEF Placed
  <2> QED BY <2>1, <2>2
<1>5. \A i \in 1..Len(s) : r[i] = s[i]
  BY <1>1, <1>2, <1>3
<1> QED BY <1>2, <1>4, <1>5 DEF Placed, r

LEMMA PlacedNothing == \A d, visual : Placed(<<>>, d, visual)
BY DEF Placed

\* The pictures and the sounds of a list of requests.
LEMMA PlacedParts ==
  ASSUME NEW d, NEW s \in Seq(Request), \A i \in 1..Len(s) : s[i].at \in 0..d
  PROVE  Placed(Pictures(s), d, TRUE) /\ Placed(Sounds(s), d, FALSE)
<1> DEFINE I == {i \in DOMAIN s : IsVisual(s[i])}
           J == {i \in DOMAIN s : ~IsVisual(s[i])}
<1>1. DOMAIN s = 1..Len(s) /\ I \in SUBSET DOMAIN s /\ J \in SUBSET DOMAIN s
  OBVIOUS
<1>2. ASSUME NEW K \in SUBSET DOMAIN s
      PROVE  /\ Among(s, K) \in Seq(Request)
             /\ \A k \in 1..Len(Among(s, K)) : \E i \in K : Among(s, K)[k] = s[i]
  <2>1. /\ Among(s, K) \in Seq(Request) /\ Len(Among(s, K)) = Cardinality(K)
        /\ Ordered(K) \in [1..Cardinality(K) -> K]
        /\ \A k \in 1..Cardinality(K) : Among(s, K)[k] = s[Ordered(K)[k]]
    BY AmongElements
  <2> QED BY <2>1
<1> HIDE DEF I, J
<1>3. /\ Pictures(s) \in Seq(Request)
      /\ \A k \in 1..Len(Pictures(s)) : \E i \in I : Pictures(s)[k] = s[i]
  BY <1>1, <1>2 DEF Pictures, I
<1>4. /\ Sounds(s) \in Seq(Request)
      /\ \A k \in 1..Len(Sounds(s)) : \E i \in J : Sounds(s)[k] = s[i]
  BY <1>1, <1>2 DEF Sounds, J
<1>5. Placed(Pictures(s), d, TRUE)
  <2>1. \A i \in I : s[i].at \in 0..d /\ IsVisual(s[i]) = TRUE
    BY <1>1 DEF I
  <2> QED BY <1>3, <2>1 DEF Placed
<1>6. Placed(Sounds(s), d, FALSE)
  <2>1. \A i \in J : s[i].at \in 0..d /\ IsVisual(s[i]) = FALSE
    BY <1>1 DEF J, IsVisual
  <2> QED BY <1>4, <2>1 DEF Placed
<1> QED BY <1>5, <1>6


LEMMA RequestParts ==
  ASSUME NEW r \in Request
  PROVE  /\ Promoted(r) \in Request /\ Promoted(r).at = r.at /\ IsVisual(Promoted(r)) = IsVisual(r)
         /\ r.type = "frame_sequence" => Promoted(r).type = "frame_sequence"
         /\ Short(r) \in Request /\ Short(r).at = r.at /\ IsVisual(Short(r)) = IsVisual(r)
<1>1. /\ r.type \in {"frame", "frame_sequence", "audio"} /\ r.at \in Int /\ r.span \in Int
      /\ r.risks \in SUBSET (Risk \cup STRING)
      /\ r = [type |-> r.type, at |-> r.at, span |-> r.span, risks |-> r.risks]
  BY DEF Request
<1>2. /\ Promoted(r) \in Request /\ Promoted(r).at = r.at
      /\ Promoted(r).type = IF r.type = "frame" /\ Temporal \in r.risks THEN "frame_sequence"
                            ELSE r.type
  BY <1>1 DEF Promoted, Request
<1>3. Short(r) \in Request /\ Short(r).at = r.at /\ Short(r).type = r.type
  <2>1. Least(r.span, 120) \in Int
    BY <1>1 DEF Least
  <2>2. Short(r) = [r EXCEPT !.span = Least(r.span, 120)]
    BY DEF Short
  <2> QED BY <1>1, <2>1, <2>2 DEF Request
<1> QED BY <1>2, <1>3 DEF IsVisual

LEMMA BoundedRequest ==
  ASSUME NEW r \in Request, NEW d \in Nat \ {0}
  PROVE  /\ Bounded(r, d) \in Request /\ Bounded(r, d).at \in 0..d
         /\ IsVisual(Bounded(r, d)) = IsVisual(r)
<1> DEFINE at == Clamp(r.at, 0, Greatest(d - 1, 0))
           risks == r.risks \cap Risk
           known == [r EXCEPT !.at = at, !.risks = risks]
           span == Greatest(10, Least(Least(120, r.span), d - at))
           heard == [known EXCEPT !.span = span]
<1>1. /\ r.type \in {"frame", "frame_sequence", "audio"} /\ r.at \in Int /\ r.span \in Int
      /\ r.risks \in SUBSET (Risk \cup STRING)
      /\ r = [type |-> r.type, at |-> r.at, span |-> r.span, risks |-> r.risks]
  BY DEF Request
<1>2. at \in 0..d
  BY <1>1 DEF Clamp, Greatest, Least
<1> HIDE DEF at
<1>3. span \in Int
  BY <1>1, <1>2 DEF Greatest, Least
<1>4. known \in Request /\ known.at = at /\ known.type = r.type /\ known.span = r.span
  <2>1. risks \in SUBSET (Risk \cup STRING)
    BY <1>1
  <2>2. at \in Int
    BY <1>2
  <2> HIDE DEF risks
  <2>3. [r EXCEPT !.at = at] \in Request
    BY <1>1, <2>2 DEF Request
  <2> QED BY <1>1, <2>1, <2>2, <2>3 DEF Request
<1>5. Bounded(r, d) = IF IsVisual(r) THEN Promoted(known) ELSE heard
  <2>1. Bounded(r, d) = IF IsVisual(r) THEN Promoted(known)
                        ELSE [known EXCEPT !.span = Greatest(10, Least(Least(120, known.span), d - at))]
    BY DEF Bounded, at
  <2> HIDE DEF known
  <2> QED BY <1>4, <2>1
<1> HIDE DEF span
<1>6. heard \in Request /\ heard.at = at /\ heard.type = r.type
  <2> HIDE DEF known
  <2> QED BY <1>3, <1>4 DEF Request
<1>7. Promoted(known) \in Request /\ Promoted(known).at = at
      /\ IsVisual(Promoted(known)) = IsVisual(r)
  <2> HIDE DEF known
  <2> QED BY <1>4, RequestParts DEF IsVisual
<1> HIDE DEF known, heard
<1> QED BY <1>2, <1>5, <1>6, <1>7 DEF IsVisual

\* Some requests, each changed but for its place and its kind.
LEMMA PlacedMaps ==
  ASSUME NEW d, NEW visual, NEW s, Placed(s, d, visual)
  PROVE  /\ Placed(Map(Promoted, s), d, visual) /\ Placed(Map(Short, s), d, visual)
         /\ Len(Map(Promoted, s)) = Len(s)
         /\ \A i \in 1..Len(s) : Map(Promoted, s)[i] = Promoted(s[i])
<1>1. /\ s \in Seq(Request) /\ Len(s) \in Nat /\ DOMAIN s = 1..Len(s)
      /\ \A i \in 1..Len(s) : s[i] \in Request /\ s[i].at \in 0..d /\ IsVisual(s[i]) = visual
  BY DEF Placed
<1> DEFINE p == Map(Promoted, s)
           q == Map(Short, s)
<1>2. p = [i \in 1..Len(s) |-> Promoted(s[i])] /\ q = [i \in 1..Len(s) |-> Short(s[i])]
  BY <1>1 DEF Map
<1> HIDE DEF p, q
<1>3. \A i \in 1..Len(s) : /\ Promoted(s[i]) \in Request /\ Promoted(s[i]).at \in 0..d
                           /\ IsVisual(Promoted(s[i])) = visual
                           /\ Short(s[i]) \in Request /\ Short(s[i]).at \in 0..d
                           /\ IsVisual(Short(s[i])) = visual
  BY <1>1, RequestParts
<1>4. p \in Seq(Request) /\ Len(p) = Len(s) /\ \A i \in 1..Len(s) : p[i] = Promoted(s[i])
  BY <1>1, <1>2, <1>3
<1>5. q \in Seq(Request) /\ Len(q) = Len(s) /\ \A i \in 1..Len(s) : q[i] = Short(s[i])
  BY <1>1, <1>2, <1>3
<1>6. Placed(p, d, visual)
  BY <1>3, <1>4 DEF Placed
<1>7. Placed(q, d, visual)
  BY <1>3, <1>5 DEF Placed
<1> QED BY <1>4, <1>6, <1>7 DEF p, q


\* A planner's reply keeps no more pictures than there are frames for.
LEMMA PicturesKept ==
  ASSUME NEW raw \in Seq(Request), NEW limit \in Nat, NEW K \in SUBSET DOMAIN raw,
         \A i \in K : IsVisual(raw[i]) =>
           Cardinality({j \in 1..(i - 1) : IsVisual(raw[j])}) < limit,
         NEW s \in Seq(Request), Len(s) = Cardinality(K),
         \A k \in 1..Len(s) : IsVisual(s[k]) = IsVisual(raw[Ordered(K)[k]])
  PROVE  Len(Pictures(s)) \in Nat /\ Len(Pictures(s)) <= limit
<1> DEFINE V == {k \in DOMAIN s : IsVisual(s[k])}
           o == Ordered(K)
           Before(i) == {j \in 1..(i - 1) : IsVisual(raw[j])}
           n == Cardinality(K)
<1>1. IsFiniteSet(K) /\ n \in Nat /\ o \in [1..n -> K] /\ K \in SUBSET Int
      /\ \A i, j \in 1..n : i < j => o[i] < o[j]
  <2>1. IsFiniteSet(K) /\ n \in Nat /\ o \in [1..n -> K]
    BY AmongElements
  <2>2. K \in SUBSET Int
    OBVIOUS
  <2>3. \A i, j \in 1..n : i < j => o[i] < o[j]
    BY <2>1, <2>2, OrderedTimes
  <2> QED BY <2>1, <2>2, <2>3
<1> HIDE DEF n, o
<1>2. DOMAIN s = 1..n /\ V \in SUBSET (1..n)
  BY DEF n
<1>3. ASSUME NEW k \in V
      PROVE  /\ o[k] \in K /\ o[k] \in Int /\ o[k] \in DOMAIN raw /\ k \in 1..n
             /\ o[k] \in 1..Len(raw) /\ IsVisual(raw[o[k]])
             /\ IsFiniteSet(Before(o[k]))
             /\ Cardinality(Before(o[k])) \in Nat /\ Cardinality(Before(o[k])) < limit
  <2>1. k \in 1..n /\ o[k] \in K /\ o[k] \in DOMAIN raw /\ o[k] \in Int
    BY <1>1, <1>2
  <2>2. o[k] \in 1..Len(raw) /\ IsVisual(raw[o[k]])
    <3>1. IsVisual(s[k])
      OBVIOUS
    <3>2. IsVisual(s[k]) = IsVisual(raw[o[k]])
      BY <2>1 DEF n, o
    <3>3. DOMAIN raw = 1..Len(raw)
      OBVIOUS
    <3> QED BY <2>1, <3>1, <3>2, <3>3
  <2>3. IsFiniteSet(Before(o[k]))
    <3>1. 1 \in Int /\ o[k] - 1 \in Int
      BY <2>1
    <3> DEFINE hi == o[k] - 1
    <3> HIDE DEF hi
    <3>2. IsFiniteSet(1..hi)
      BY <3>1, FS_Interval DEF hi
    <3> QED BY <3>2, FS_Subset DEF hi
  <2>4. Cardinality(Before(o[k])) < limit
    BY <2>1, <2>2
  <2> HIDE DEF Before
  <2>5. Cardinality(Before(o[k])) \in Nat
    BY <2>3, FS_CardinalityType
  <2> QED BY <2>1, <2>2, <2>3, <2>4, <2>5
<1>4. ASSUME NEW k \in V, NEW l \in V, k < l
      PROVE  Cardinality(Before(o[k])) < Cardinality(Before(o[l]))
  <2>1. o[k] < o[l]
    BY <1>1, <1>3, <1>4
  <2>2. o[k] \in Before(o[l]) /\ o[k] \notin Before(o[k])
    <3>1. o[k] \in Int /\ o[l] \in Int /\ 1 <= o[k] /\ IsVisual(raw[o[k]])
      <4> HIDE DEF V, Before
      <4>1. o[k] \in 1..Len(raw) /\ o[k] \in Int /\ o[l] \in Int /\ IsVisual(raw[o[k]])
        BY <1>3
      <4>2. Len(raw) \in Nat
        OBVIOUS
      <4> QED BY <4>1, <4>2
    <3>2. o[k] \in 1..(o[l] - 1) /\ ~(o[k] \in 1..(o[k] - 1))
      BY <2>1, <3>1
    <3> QED BY <3>1, <3>2
  <2>3. Before(o[k]) \in SUBSET Before(o[l])
    <3>1. o[k] \in Int /\ o[l] \in Int
      BY <1>3
    <3>2. \A j \in 1..(o[k] - 1) : j \in 1..(o[l] - 1)
      BY <2>1, <3>1
    <3> QED BY <3>2
  <2>4. IsFiniteSet(Before(o[l]))
    BY <1>3
  <2> DEFINE A == Before(o[k])
             B == Before(o[l])
             x == o[k]
  <2>5. x \in B /\ x \notin A /\ A \in SUBSET B /\ IsFiniteSet(B)
    BY <2>2, <2>3, <2>4
  <2> HIDE DEF A, B, x
  <2>6. Cardinality(A) < Cardinality(B)
    BY <2>5, PartCounts
  <2> QED BY <2>6 DEF A, B
<1> DEFINE rank == [k \in V |-> Cardinality(Before(o[k]))]
           R == 0..(limit - 1)
<1>5. rank \in [V -> R]
  <2> HIDE DEF Before, V
  <2>1. \A k \in V : Cardinality(Before(o[k])) \in R
    BY <1>3
  <2> HIDE DEF R
  <2> QED BY <2>1
<1>6. \A k, l \in V : rank[k] = rank[l] => k = l
  <2> SUFFICES ASSUME NEW k \in V, NEW l \in V, rank[k] = rank[l], k # l PROVE FALSE
    OBVIOUS
  <2>1. Cardinality(Before(o[k])) = Cardinality(Before(o[l]))
    OBVIOUS
  <2> HIDE DEF rank, Before, V
  <2>2. k \in Int /\ l \in Int
    BY <1>3
  <2>3. k < l \/ l < k
    BY <2>2
  <2>4. Cardinality(Before(o[k])) \in Nat /\ Cardinality(Before(o[l])) \in Nat
    BY <1>3
  <2>5. CASE k < l
    <3>1. Cardinality(Before(o[k])) < Cardinality(Before(o[l]))
      BY <1>4, <2>5
    <3> QED BY <2>1, <2>4, <3>1
  <2>6. CASE l < k
    <3>1. Cardinality(Before(o[l])) < Cardinality(Before(o[k]))
      BY <1>4, <2>6
    <3> QED BY <2>1, <2>4, <3>1
  <2> QED BY <2>3, <2>5, <2>6
<1>7. rank \in Injection(V, R)
  BY <1>5, <1>6 DEF Injection, IsInjective
<1>8. IsFiniteSet(R) /\ Cardinality(R) = limit
  <2> DEFINE hi == limit - 1
  <2>1. 0 \in Int /\ hi \in Int
    OBVIOUS
  <2> HIDE DEF hi
  <2>2. IsFiniteSet(0..hi) /\ Cardinality(0..hi) = IF 0 > hi THEN 0 ELSE hi - 0 + 1
    BY <2>1, FS_Interval
  <2> QED BY <2>2 DEF hi
<1> HIDE DEF rank, R, V
<1>9. Cardinality(V) <= limit
  BY <1>7, <1>8, FS_Injection
<1>10. Len(Pictures(s)) = Cardinality(V) /\ Cardinality(V) \in Nat
  <2>1. V \in SUBSET DOMAIN s
    BY DEF V
  <2> QED BY <2>1, AmongElements DEF Pictures, V
<1> QED BY <1>9, <1>10


\* The requests of a planner's reply that are kept, each pulled into the program.
KeptOfReply(raw, frames, audio) ==
  {i \in DOMAIN raw :
     Cardinality({j \in 1..(i - 1) : IsVisual(raw[j]) = IsVisual(raw[i])})
       < IF IsVisual(raw[i]) THEN frames ELSE audio}

BoundedAll(s, d) == [i \in DOMAIN s |-> Bounded(s[i], d)]

LEMMA SanitizedPlan ==
  ASSUME NEW raw \in Seq(Request), NEW media, media.duration \in Nat, NEW frames \in Nat, NEW audio,
         NEW plan, plan = SanitizePlan(raw, media, frames, audio), plan # NoPlan
  PROVE  /\ plan.targets = Risk /\ plan.requests \in Seq(Request)
         /\ \A i \in 1..Len(plan.requests) : plan.requests[i].at \in 0..media.duration
         /\ Len(Pictures(plan.requests)) \in Nat /\ Len(Pictures(plan.requests)) <= frames
<1> DEFINE K == KeptOfReply(raw, frames, audio)
           d == media.duration
           a == Among(raw, K)
           s == BoundedAll(a, d)
<1>1. plan = IF d = 0 \/ K = {} THEN NoPlan
             ELSE [source |-> "ai_planner", targets |-> Risk, requests |-> s]
  BY DEF SanitizePlan, KeptOfReply, Map, BoundedAll
<1>2. d \in Nat \ {0} /\ plan.targets = Risk /\ plan.requests = s
  BY <1>1
<1>3. K \in SUBSET DOMAIN raw
  BY DEF KeptOfReply
<1>4. ASSUME NEW i \in K, IsVisual(raw[i])
      PROVE  Cardinality({j \in 1..(i - 1) : IsVisual(raw[j])}) < frames
  <2>1. \A j : (IsVisual(raw[j]) = IsVisual(raw[i])) <=> IsVisual(raw[j])
    BY <1>4 DEF IsVisual
  <2>2. {j \in 1..(i - 1) : IsVisual(raw[j]) = IsVisual(raw[i])}
          = {j \in 1..(i - 1) : IsVisual(raw[j])}
    BY <2>1, Zenon
  <2>3. Cardinality({j \in 1..(i - 1) : IsVisual(raw[j]) = IsVisual(raw[i])}) < frames
    BY <1>4 DEF KeptOfReply
  <2> QED BY <2>2, <2>3
<1> HIDE DEF K
<1>5. /\ a \in Seq(Request) /\ Len(a) = Cardinality(K) /\ Len(a) \in Nat
      /\ \A k \in 1..Cardinality(K) : a[k] = raw[Ordered(K)[k]]
  BY <1>3, AmongElements
<1> HIDE DEF a
<1>6. \A k \in 1..Len(a) : /\ Bounded(a[k], d) \in Request /\ Bounded(a[k], d).at \in 0..d
                           /\ IsVisual(Bounded(a[k], d)) = IsVisual(a[k])
  <2> SUFFICES ASSUME NEW k \in 1..Len(a)
               PROVE  /\ Bounded(a[k], d) \in Request /\ Bounded(a[k], d).at \in 0..d
                      /\ IsVisual(Bounded(a[k], d)) = IsVisual(a[k])
    OBVIOUS
  <2>1. a[k] \in Request
    BY <1>5
  <2> QED BY <1>2, <2>1, BoundedRequest
<1>7. s = [k \in 1..Len(a) |-> Bounded(a[k], d)]
  BY <1>5 DEF BoundedAll
<1> HIDE DEF s, d
<1>8. /\ s \in Seq(Request) /\ Len(s) = Cardinality(K)
      /\ \A k \in 1..Len(s) : s[k] = Bounded(a[k], d)
  BY <1>5, <1>6, <1>7
<1>9. \A k \in 1..Len(s) : s[k].at \in 0..d /\ IsVisual(s[k]) = IsVisual(raw[Ordered(K)[k]])
  BY <1>5, <1>6, <1>8
<1>10. Len(Pictures(s)) \in Nat /\ Len(Pictures(s)) <= frames
  BY <1>3, <1>4, <1>8, <1>9, PicturesKept
<1> QED BY <1>2, <1>8, <1>9, <1>10 DEF d

\* Requests within the program.
Inside(s, d) == s \in Seq(Request) /\ \A i \in 1..Len(s) : s[i].at \in 0..d

LEMMA InsideTogether ==
  ASSUME NEW d, NEW s, NEW t, Inside(s, d), Inside(t, d)
  PROVE  /\ Inside(s \o t, d) /\ Len(s \o t) = Len(s) + Len(t)
         /\ \A i \in 1..Len(s) : (s \o t)[i] = s[i]
<1> DEFINE r == s \o t
<1>1. s \in Seq(Request) /\ t \in Seq(Request) /\ Len(s) \in Nat /\ Len(t) \in Nat
  BY DEF Inside
<1>2. r \in Seq(Request) /\ Len(r) = Len(s) + Len(t)
  BY <1>1
<1>3. \A i \in 1..Len(r) : r[i] = IF i <= Len(s) THEN s[i] ELSE t[i - Len(s)]
  BY <1>1
<1> HIDE DEF r
<1>4. ASSUME NEW i \in 1..Len(r) PROVE r[i].at \in 0..d
  <2>1. CASE i <= Len(s)
    <3>1. i \in 1..Len(s) /\ r[i] = s[i]
      BY <1>1, <1>2, <1>3, <2>1
    <3> QED BY <3>1 DEF Inside
  <2>2. CASE ~(i <= Len(s))
    <3>1. i - Len(s) \in 1..Len(t) /\ r[i] = t[i - Len(s)]
      BY <1>1, <1>2, <1>3, <2>2
    <3> QED BY <3>1 DEF Inside
  <2> QED BY <2>1, <2>2
<1>5. \A i \in 1..Len(s) : r[i] = s[i]
  BY <1>1, <1>2, <1>3
<1> QED BY <1>2, <1>4, <1>5 DEF Inside, r

LEMMA InsideOne ==
  ASSUME NEW d, NEW r \in Request, r.at \in 0..d
  PROVE  Inside(<<r>>, d) /\ Len(<<r>>) = 1 /\ <<r>>[1] = r
<1> DEFINE s == <<r>>
<1>1. s \in Seq(Request) /\ Len(s) = 1 /\ s[1] = r
  OBVIOUS
<1> HIDE DEF s
<1>2. \A i \in 1..Len(s) : i = 1
  BY <1>1
<1> QED BY <1>1, <1>2 DEF Inside, s

LEMMA InsideNothing == \A d : Inside(<<>>, d)
BY DEF Inside

LEMMA VisualMade ==
  ASSUME NEW at \in Int, NEW risks \in SUBSET (Risk \cup STRING),
         NEW kind \in {"frame", "frame_sequence"}
  PROVE  /\ Visual(at, kind, risks) \in Request /\ Visual(at, kind, risks).at = at
         /\ Visual(at, kind, risks).type = kind /\ IsVisual(Visual(at, kind, risks)) = TRUE
<1>1. /\ Visual(at, kind, risks) \in Request /\ Visual(at, kind, risks).at = at
      /\ Visual(at, kind, risks).type = kind
  BY DEF Visual, Request
<1> QED BY <1>1 DEF IsVisual

LEMMA AudioMade ==
  ASSUME NEW at \in Int, NEW span \in Int, NEW risks \in SUBSET (Risk \cup STRING)
  PROVE  /\ Audio(at, span, risks) \in Request /\ Audio(at, span, risks).at = at
         /\ IsVisual(Audio(at, span, risks)) = FALSE
<1>1. /\ Audio(at, span, risks) \in Request /\ Audio(at, span, risks).at = at
      /\ Audio(at, span, risks).type = "audio"
  BY DEF Audio, Request
<1> QED BY <1>1 DEF IsVisual

LEMMA TemporalRisk == Temporal \in Risk => {Temporal} \in SUBSET (Risk \cup STRING)
<1> DEFINE risk == Temporal
<1>1. risk \in Risk => {risk} \in SUBSET (Risk \cup STRING)
  <2> HIDE DEF risk
  <2> QED OBVIOUS
<1> QED BY <1>1

\* The anchors of the timeline.
LEMMA Quarters ==
  ASSUME NEW d \in Nat, NEW risks \in SUBSET (Risk \cup STRING),
         NEW s, s = [q \in 1..3 |-> Visual((d * q) \div 4, "frame", risks)]
  PROVE  Inside(s, d) /\ Len(s) = 3 /\ \A i \in 1..3 : IsVisual(s[i]) = TRUE
<1>1. \A q \in 1..3 : (d * q) \div 4 \in 0..d /\ (d * q) \div 4 \in Int
  OBVIOUS
<1>2. \A q \in 1..3 : s[q] = Visual((d * q) \div 4, "frame", risks)
  OBVIOUS
<1>3. ASSUME NEW q \in 1..3
      PROVE  s[q] \in Request /\ s[q].at \in 0..d /\ IsVisual(s[q]) = TRUE
  <2> DEFINE at == (d * q) \div 4
  <2>1. at \in 0..d /\ at \in Int /\ s[q] = Visual(at, "frame", risks)
    BY <1>1, <1>2
  <2> DEFINE kind == "frame"
  <2>2. kind \in {"frame", "frame_sequence"} /\ s[q] = Visual(at, kind, risks)
    BY <2>1
  <2> HIDE DEF at, kind
  <2>3. Visual(at, kind, risks) \in Request /\ Visual(at, kind, risks).at = at
        /\ IsVisual(Visual(at, kind, risks)) = TRUE
    BY <2>1, <2>2, VisualMade
  <2> QED BY <2>1, <2>2, <2>3
<1>4. s = [q \in 1..3 |-> s[q]]
  OBVIOUS
<1>5. s \in [1..3 -> Request]
  BY ONLY <1>3, <1>4
<1>6. s \in Seq(Request) /\ Len(s) = 3
  <2> DEFINE n == 3
  <2>1. n \in Nat /\ s \in [1..n -> Request]
    BY <1>5
  <2> HIDE DEF n
  <2>2. s \in Seq(Request) /\ Len(s) = n
    BY ONLY <2>1
  <2> QED BY <2>2 DEF n
<1> QED BY <1>3, <1>6 DEF Inside

\* The deterministic plan asks for a sequence of frames first.
LEMMA FallbackRequests ==
  ASSUME NEW media, media.duration \in Nat, NEW plan, plan = FallbackPlan(media)
  PROVE  /\ plan.targets = Risk /\ Inside(plan.requests, media.duration)
         /\ media.video /\ media.duration > 0 /\ Temporal \in Risk =>
              1 \in 1..Len(plan.requests) /\ plan.requests[1].type = "frame_sequence"
<1> DEFINE d == media.duration
           window == Least(120, Greatest(d, 10))
           at == Greatest(0, (d - window) \div 2)
           v == Visual(d \div 2, "frame_sequence", {Temporal})
           a == Audio(at, window, Risk \cap AudioRisks)
           first == IF Temporal \in Risk THEN <<v>> ELSE <<>>
           anchors == [q \in 1..3 |-> Visual((d * q) \div 4, "frame", Risk \cap VisualRisks)]
           seen == IF media.video /\ d > 0 THEN first \o anchors ELSE <<>>
           heard == IF media.audio /\ d > 0 THEN <<a>> ELSE <<>>
<1>1. plan.targets = Risk /\ plan.requests = seen \o heard
  BY DEF FallbackPlan
<1>2. window \in Int /\ at \in 0..d /\ at \in Int
  BY DEF Least, Greatest
<1>3. d \in Nat /\ d \div 2 \in 0..d /\ d \div 2 \in Int /\ 0 \in Int
  OBVIOUS
<1> HIDE DEF window, at, d
<1>4. Temporal \in Risk => v \in Request /\ v.at \in 0..d /\ v.type = "frame_sequence"
  <2> SUFFICES ASSUME Temporal \in Risk
               PROVE  v \in Request /\ v.at \in 0..d /\ v.type = "frame_sequence"
    OBVIOUS
  <2> DEFINE middle == d \div 2
             kind == "frame_sequence"
             risks == {Temporal}
  <2>1. /\ middle \in 0..d /\ middle \in Int
        /\ kind \in {"frame", "frame_sequence"} /\ v = Visual(middle, kind, risks)
    BY <1>3
  <2>2. risks \in SUBSET (Risk \cup STRING)
    BY TemporalRisk
  <2> HIDE DEF middle, kind, risks, v, first, seen
  <2>3. v \in Request /\ v.at = middle /\ v.type = kind
    BY <2>1, <2>2, VisualMade
  <2> QED BY <2>1, <2>3 DEF kind
<1>5. a \in Request /\ a.at \in 0..d
  <2> DEFINE risks == Risk \cap AudioRisks
  <2>1. risks \in SUBSET (Risk \cup STRING)
    OBVIOUS
  <2> HIDE DEF risks
  <2>2. Audio(at, window, risks) \in Request /\ Audio(at, window, risks).at = at
    BY <1>2, <2>1, AudioMade
  <2> QED BY <1>2, <2>2 DEF risks
<1> HIDE DEF v, a
<1>6. Inside(first, d) /\ (Temporal \in Risk => Len(first) = 1 /\ first[1] = v)
  BY <1>4, InsideOne, InsideNothing
<1>7. Inside(heard, d)
  BY <1>5, InsideOne, InsideNothing
<1>8. Inside(anchors, d) /\ Len(anchors) = 3
  <2> DEFINE risks == Risk \cap VisualRisks
  <2>1. risks \in SUBSET (Risk \cup STRING)
    OBVIOUS
  <2>2. anchors = [q \in 1..3 |-> Visual((d * q) \div 4, "frame", risks)]
    OBVIOUS
  <2> HIDE DEF risks, anchors
  <2> QED BY <1>3, <2>1, <2>2, Quarters
<1> HIDE DEF first, anchors, heard
<1>9. /\ Inside(first \o anchors, d)
      /\ Len(first \o anchors) = Len(first) + Len(anchors)
      /\ \A i \in 1..Len(first) : (first \o anchors)[i] = first[i]
  <2>1. Inside(first, d) /\ Inside(anchors, d)
    BY <1>6, <1>8
  <2> HIDE DEF seen
  <2> QED BY <2>1, InsideTogether
<1>10. Inside(seen, d)
  BY <1>9, InsideNothing
<1>11. Inside(seen \o heard, d) /\ Len(seen \o heard) = Len(seen) + Len(heard)
       /\ \A i \in 1..Len(seen) : (seen \o heard)[i] = seen[i]
  <2> HIDE DEF seen
  <2> QED BY <1>7, <1>10, InsideTogether
<1>12. ASSUME media.video, d > 0, Temporal \in Risk
       PROVE  1 \in 1..Len(plan.requests) /\ plan.requests[1].type = "frame_sequence"
  <2>1. seen = first \o anchors
    BY <1>12
  <2> HIDE DEF seen
  <2>2. Len(seen) = 4 /\ seen[1] = v
    <3>1. Len(first) = 1 /\ first[1] = v /\ Len(anchors) = 3
      BY <1>6, <1>8, <1>12
    <3>2. 1 \in 1..Len(first)
      BY <3>1
    <3>3. (first \o anchors)[1] = v
      BY <1>9, <3>1, <3>2
    <3>4. Len(first \o anchors) = 4
      BY <1>9, <3>1
    <3> QED BY <2>1, <3>3, <3>4
  <2>3. Len(heard) \in Nat
    BY <1>7 DEF Inside
  <2>4. Len(seen \o heard) = 4 + Len(heard) /\ (seen \o heard)[1] = v
    BY <1>11, <2>2
  <2>5. 1 \in 1..(4 + Len(heard))
    BY <2>3
  <2> DEFINE r == seen \o heard
  <2>6. plan.requests = r /\ Len(r) = 4 + Len(heard) /\ r[1] = v
    BY <1>1, <2>4
  <2> HIDE DEF r
  <2> QED BY <1>4, <1>12, <2>5, <2>6
<1> QED BY <1>1, <1>11, <1>12 DEF d


\* The plan a review goes by is about every risk of the policy, within the
\* program; a planner's has no more pictures than there are frames for, and the
\* deterministic one asks for a sequence first.
Leads(requests) == 1 \in 1..Len(requests) /\ requests[1].type = "frame_sequence"

LEMMA PlanMade ==
  ASSUME NEW input, input.media.duration \in Nat, input.frames \in Nat,
         input.reply \in Seq(Request)
  PROVE  /\ PlanFor(input).targets = Risk /\ Inside(PlanFor(input).requests, input.media.duration)
         /\ \/ Len(Pictures(PlanFor(input).requests)) <= input.frames
            \/ input.media.video /\ input.media.duration > 0 /\ Temporal \in Risk =>
                 Leads(PlanFor(input).requests)
<1> DEFINE raw == input.reply
           media == input.media
           frames == input.frames
           audio == input.audio
           proposed == SanitizePlan(raw, media, frames, audio)
           plan == PlanFor(input)
<1>1. plan = IF proposed = NoPlan THEN FallbackPlan(media) ELSE proposed
  BY DEF PlanFor
<1>2. raw \in Seq(Request) /\ media.duration \in Nat /\ frames \in Nat
  OBVIOUS
<1> HIDE DEF plan, raw, media, frames, audio
<1>3. CASE proposed = NoPlan
  <2>1. plan = FallbackPlan(media)
    BY <1>1, <1>3
  <2>2. /\ plan.targets = Risk /\ Inside(plan.requests, media.duration)
        /\ media.video /\ media.duration > 0 /\ Temporal \in Risk => Leads(plan.requests)
    BY <1>2, <2>1, FallbackRequests DEF Leads
  <2> QED BY <2>2 DEF plan, media
<1>4. CASE proposed # NoPlan
  <2>1. plan = proposed /\ plan # NoPlan
    BY <1>1, <1>4
  <2>2. /\ plan.targets = Risk /\ plan.requests \in Seq(Request)
        /\ \A i \in 1..Len(plan.requests) : plan.requests[i].at \in 0..media.duration
        /\ Len(Pictures(plan.requests)) <= frames
    BY <1>2, <2>1, SanitizedPlan
  <2>3. Inside(plan.requests, media.duration)
    BY <2>2 DEF Inside
  <2> QED BY <2>2, <2>3 DEF plan, media, frames
<1> QED BY <1>3, <1>4

\* A list that leads with a sequence has it as its first picture.
LEMMA LeadingPicture ==
  ASSUME NEW s \in Seq(Request), Leads(s)
  PROVE  Leads(Pictures(s))
<1> DEFINE I == {i \in DOMAIN s : IsVisual(s[i])}
           p == Among(s, I)
           n == Cardinality(I)
           o == Ordered(I)
<1>1. p = Pictures(s)
  BY DEF Pictures
<1>2. 1 \in I /\ I \in SUBSET DOMAIN s /\ \A i \in I : i \in Nat \ {0}
  BY DEF Leads, IsVisual
<1> HIDE DEF I
<1>3. /\ n \in Nat /\ Len(p) = n /\ o \in [1..n -> I]
      /\ \A k \in 1..n : p[k] = s[o[k]]
      /\ \A i \in I : \E k \in 1..n : o[k] = i /\ p[k] = s[i]
  BY <1>2, AmongElements
<1>4. \A i, j \in 1..n : i < j => o[i] < o[j]
  <2>1. I \in SUBSET Int /\ IsFiniteSet(I)
    BY <1>2, AmongElements
  <2> QED BY <1>3, <2>1, OrderedTimes
<1> HIDE DEF p, n, o
<1>5. PICK k \in 1..n : o[k] = 1 /\ p[k] = s[1]
  BY <1>2, <1>3
<1>6. o \in [1..n -> Nat \ {0}]
  BY <1>2, <1>3
<1>7. k <= o[k]
  BY <1>3, <1>4, <1>6, RisingPlaces
<1>8. k = 1
  BY <1>3, <1>5, <1>7
<1> QED BY <1>1, <1>3, <1>5, <1>8 DEF Leads

\* Either nothing that is asked for is a sequence, and one is put first, or one
\* is among the first pictures the plan asks for.
LEMMA SequenceFirst ==
  ASSUME NEW d \in Nat, NEW media, media.duration = d, NEW frames \in Nat,
         NEW plan, plan.targets = Risk,
         NEW mine, NEW flagged, Placed(mine, d, TRUE), Placed(flagged, d, TRUE),
         \A i \in 1..Len(flagged) : flagged[i].type # "frame_sequence",
         NEW r, r = Mandatory(media, plan, IF media.video THEN mine \o flagged ELSE <<>>)
  PROVE  /\ Placed(r, d, TRUE)
         /\ /\ media.video /\ d > 0 /\ frames > 0 /\ Temporal \in Risk
            /\ Len(mine) <= frames \/ Leads(mine)
            => \E i \in 1..Len(r) : i <= frames /\ r[i].type = "frame_sequence"
<1> DEFINE both == mine \o flagged
           asked == IF media.video THEN both ELSE <<>>
           middle == d \div 2
           kind == "frame_sequence"
           risks == {Temporal}
           v == Visual(middle, kind, risks)
           none == \A i \in DOMAIN asked : asked[i].type = "frame"
           needed == media.video /\ d > 0 /\ Temporal \in Risk /\ none
<1>1. r = IF needed THEN <<v>> \o asked ELSE asked
  BY DEF Mandatory
<1>2. /\ Placed(both, d, TRUE) /\ Len(both) = Len(mine) + Len(flagged)
      /\ \A i \in 1..Len(mine) : both[i] = mine[i]
  <2> DEFINE seen == TRUE
  <2>1. Placed(mine, d, seen) /\ Placed(flagged, d, seen)
    OBVIOUS
  <2> HIDE DEF seen, middle, kind, risks, none, v, needed, asked
  <2>2. /\ Placed(both, d, seen) /\ Len(both) = Len(mine) + Len(flagged)
        /\ \A i \in 1..Len(mine) : both[i] = mine[i]
    BY <2>1, PlacedTogether
  <2> QED BY <2>2 DEF seen
<1>3. mine \in Seq(Request) /\ flagged \in Seq(Request) /\ Len(mine) \in Nat /\ Len(flagged) \in Nat
  BY DEF Placed
<1>4. \A i \in 1..Len(both) : ~(i <= Len(mine)) =>
        i - Len(mine) \in 1..Len(flagged) /\ both[i] = flagged[i - Len(mine)]
  BY <1>3
<1> HIDE DEF both
<1>5. Placed(asked, d, TRUE)
  BY <1>2, PlacedNothing
<1> HIDE DEF middle, kind, risks, asked, none
<1>6. asked \in Seq(Request) /\ Len(asked) \in Nat /\ DOMAIN asked = 1..Len(asked)
  BY <1>5 DEF Placed
<1>7. CASE needed
  <2>1. /\ middle \in 0..d /\ middle \in Int /\ kind \in {"frame", "frame_sequence"}
        /\ kind = "frame_sequence"
    BY DEF middle, kind
  <2>2. risks \in SUBSET (Risk \cup STRING)
    BY <1>7, TemporalRisk DEF risks
  <2>3. /\ v \in Request /\ v.at \in 0..d /\ v.type = "frame_sequence"
        /\ IsVisual(v) = TRUE
    BY <2>1, <2>2, VisualMade
  <2> DEFINE one == <<v>>
  <2>4. r = one \o asked
    BY <1>1, <1>7
  <2> HIDE DEF v
  <2>5. Inside(one, d) /\ Len(one) = 1 /\ one[1] = v
    BY <2>3, InsideOne
  <2> HIDE DEF one, needed
  <2>6. \A i \in 1..Len(one) : i = 1
    BY <2>5
  <2>7. Placed(one, d, TRUE)
    BY <2>3, <2>5, <2>6 DEF Placed, Inside
  <2>8. /\ Placed(r, d, TRUE) /\ Len(r) = Len(one) + Len(asked)
        /\ \A i \in 1..Len(one) : r[i] = one[i]
    <3> DEFINE seen == TRUE
    <3>1. Placed(one, d, seen) /\ Placed(asked, d, seen)
      BY <1>5, <2>7
    <3> HIDE DEF seen
    <3>2. /\ Placed(one \o asked, d, seen) /\ Len(one \o asked) = Len(one) + Len(asked)
          /\ \A i \in 1..Len(one) : (one \o asked)[i] = one[i]
      BY <3>1, PlacedTogether
    <3> QED BY <2>4, <3>2 DEF seen
  <2>9. 1 \in 1..Len(r) /\ 1 \in 1..Len(one) /\ (frames > 0 => 1 <= frames)
    BY <1>6, <2>5, <2>8
  <2> QED BY <2>3, <2>5, <2>8, <2>9
<1>8. CASE ~needed
  <2>1. r = asked
    BY <1>1, <1>8
  <2> SUFFICES ASSUME media.video, d > 0, frames > 0, Temporal \in Risk,
                      Len(mine) <= frames \/ Leads(mine)
               PROVE  \E i \in 1..Len(r) : i <= frames /\ r[i].type = "frame_sequence"
    BY <1>5, <2>1
  <2>2. ~none /\ asked = both
    BY <1>8 DEF asked
  <2>3. PICK i \in 1..Len(both) : both[i].type # "frame"
    BY <1>6, <2>2 DEF none
  <2>4. both[i].type = "frame_sequence"
    BY <1>2, <2>3 DEF Placed, IsVisual
  <2>5. i <= Len(mine)
    BY <1>4, <2>4
  <2>6. CASE Len(mine) <= frames
    <3>1. i <= frames /\ i \in 1..Len(r)
      BY <1>3, <2>1, <2>2, <2>5, <2>6
    <3> QED BY <2>1, <2>2, <2>4, <3>1
  <2>7. CASE Leads(mine)
    <3>1. 1 \in 1..Len(mine) /\ mine[1].type = "frame_sequence"
      BY <2>7 DEF Leads
    <3>2. 1 \in 1..Len(both) /\ both[1] = mine[1] /\ 1 <= frames
      BY <1>2, <1>3, <3>1
    <3> QED BY <2>1, <2>2, <3>1, <3>2
  <2> QED BY <2>6, <2>7
<1> QED BY <1>7, <1>8

\* The packets of the instruments hold no sequence.
LEMMA FlaggedPictures ==
  ASSUME NEW s \in Seq(Request), \A i \in DOMAIN s : s[i].type # "frame_sequence"
  PROVE  \A i \in 1..Len(Pictures(s)) : Pictures(s)[i].type # "frame_sequence"
<1> DEFINE I == {i \in DOMAIN s : IsVisual(s[i])}
           p == Among(s, I)
<1>1. p = Pictures(s) /\ I \in SUBSET DOMAIN s
  BY DEF Pictures
<1> HIDE DEF I
<1>2. /\ Len(p) = Cardinality(I) /\ Ordered(I) \in [1..Cardinality(I) -> I]
      /\ \A k \in 1..Cardinality(I) : p[k] = s[Ordered(I)[k]]
  BY <1>1, AmongElements
<1> HIDE DEF p
<1> QED BY <1>1, <1>2

\* The two lanes of the evidence.
PictureAnchors(media) ==
  IF media.video /\ media.duration > 0
  THEN [q \in 1..3 |-> Visual((media.duration * q) \div 4, "frame", {})] ELSE <<>>

VisualEvidence(media, packets, plan, frames) ==
  LET asked == Map(Promoted, Pictures(plan.requests)) \o Pictures(packets)
  IN ByTime(Dedupe(Mandatory(media, plan, IF media.video THEN asked ELSE <<>>)
                   \o PictureAnchors(media), frames))

SoundAnchors(media) ==
  LET window == Least(120, Greatest(media.duration, 10))
  IN IF media.audio /\ media.duration > 0
     THEN <<Audio(Greatest(0, (media.duration - window) \div 2), window, {})>> ELSE <<>>

AudioEvidence(media, packets, plan, budget) ==
  LET heard == Sounds(plan.requests) \o Sounds(packets)
  IN ByTime(Dedupe((IF media.audio THEN Map(Short, heard) ELSE <<>>) \o SoundAnchors(media), budget))

\* The pictures of the evidence.
LEMMA VisualLane ==
  ASSUME NEW media, media.duration \in Nat, NEW frames \in Nat,
         NEW plan, plan.targets = Risk, Inside(plan.requests, media.duration),
         NEW packets, Inside(packets, media.duration),
         \A i \in DOMAIN packets : packets[i].type # "frame_sequence"
  PROVE  LET r == VisualEvidence(media, packets, plan, frames) IN
         /\ Placed(r, media.duration, TRUE) /\ Len(r) <= frames
         /\ /\ media.video /\ media.duration > 0 /\ frames > 0 /\ Temporal \in Risk
            /\ Len(Pictures(plan.requests)) <= frames \/ Leads(plan.requests)
            => \E i \in 1..Len(r) : r[i].type = "frame_sequence"
<1> DEFINE d == media.duration
           theirs == Pictures(plan.requests)
           mine == Map(Promoted, theirs)
           flagged == Pictures(packets)
           asked == mine \o flagged
           anchors == PictureAnchors(media)
           first == Mandatory(media, plan, IF media.video THEN asked ELSE <<>>)
           lane == first \o anchors
           r == VisualEvidence(media, packets, plan, frames)
<1>1. /\ d \in Nat /\ media.duration = d /\ Inside(plan.requests, d) /\ Inside(packets, d)
      /\ r = ByTime(Dedupe(lane, frames))
  BY DEF VisualEvidence
<1>2. anchors = IF media.video /\ d > 0
                THEN [q \in 1..3 |-> Visual((d * q) \div 4, "frame", {})] ELSE <<>>
  BY DEF PictureAnchors
<1> HIDE DEF d, r, anchors
<1>3. Placed(theirs, d, TRUE) /\ Placed(flagged, d, TRUE)
  BY <1>1, PlacedParts DEF Inside
<1>4. Leads(plan.requests) => Leads(theirs)
  BY <1>1, LeadingPicture DEF Inside
<1>5. \A i \in 1..Len(flagged) : flagged[i].type # "frame_sequence"
  BY <1>1, FlaggedPictures DEF Inside
<1> HIDE DEF theirs, flagged
<1>6. /\ Placed(mine, d, TRUE) /\ Len(mine) = Len(theirs)
      /\ \A i \in 1..Len(theirs) : mine[i] = Promoted(theirs[i])
  <2> DEFINE seen == TRUE
  <2>1. Placed(theirs, d, seen)
    BY <1>3
  <2> HIDE DEF seen
  <2>2. Placed(mine, d, seen)
    BY <2>1, PlacedMaps
  <2>3. Len(mine) = Len(theirs)
    BY <2>1, PlacedMaps
  <2>4. \A i \in 1..Len(theirs) : mine[i] = Promoted(theirs[i])
    <3>1. DOMAIN theirs = 1..Len(theirs)
      BY <1>3 DEF Placed
    <3> QED BY <3>1 DEF mine, Map
  <2> QED BY <2>2, <2>3, <2>4 DEF seen
<1> HIDE DEF mine
<1>7. Leads(theirs) => Leads(mine)
  <2> SUFFICES ASSUME Leads(theirs) PROVE Leads(mine)
    OBVIOUS
  <2>1. 1 \in 1..Len(theirs) /\ theirs[1].type = "frame_sequence" /\ theirs[1] \in Request
    BY <1>3 DEF Leads, Placed
  <2>2. Promoted(theirs[1]).type = "frame_sequence"
    BY <2>1, RequestParts
  <2> QED BY <1>6, <2>1, <2>2 DEF Leads
<1>8. /\ Placed(first, d, TRUE)
      /\ /\ media.video /\ d > 0 /\ frames > 0 /\ Temporal \in Risk
         /\ Len(mine) <= frames \/ Leads(mine)
         => \E i \in 1..Len(first) : i <= frames /\ first[i].type = "frame_sequence"
  <2>1. first = Mandatory(media, plan, IF media.video THEN mine \o flagged ELSE <<>>)
    OBVIOUS
  <2> HIDE DEF first
  <2> QED BY <1>1, <1>3, <1>5, <1>6, <2>1, SequenceFirst
<1>9. Placed(anchors, d, TRUE)
  <2>1. CASE media.video /\ d > 0
    <3> DEFINE risks == {}
    <3>1. risks \in SUBSET (Risk \cup STRING)
      OBVIOUS
    <3>2. anchors = [q \in 1..3 |-> Visual((d * q) \div 4, "frame", risks)]
      BY <1>2, <2>1
    <3> HIDE DEF risks
    <3>3. Inside(anchors, d) /\ Len(anchors) = 3 /\ \A i \in 1..3 : IsVisual(anchors[i]) = TRUE
      BY <1>1, <3>1, <3>2, Quarters
    <3> QED BY <3>3 DEF Inside, Placed
  <2>2. CASE ~(media.video /\ d > 0)
    BY <1>2, <2>2, PlacedNothing
  <2> QED BY <2>1, <2>2
<1> HIDE DEF first
<1>10. /\ Placed(lane, d, TRUE) /\ Len(lane) = Len(first) + Len(anchors)
      /\ \A i \in 1..Len(first) : lane[i] = first[i]
  <2> DEFINE seen == TRUE
  <2>1. Placed(first, d, seen) /\ Placed(anchors, d, seen)
    BY <1>8, <1>9
  <2> HIDE DEF seen
  <2>2. /\ Placed(lane, d, seen) /\ Len(lane) = Len(first) + Len(anchors)
        /\ \A i \in 1..Len(first) : lane[i] = first[i]
    BY <2>1, PlacedTogether
  <2> QED BY <2>2 DEF seen
<1>11. r = ByTime(Dedupe(lane, frames))
  BY <1>1
<1> HIDE DEF lane
<1>12. /\ Len(first) \in Nat /\ Len(anchors) \in Nat /\ lane \in Seq(Request)
       /\ \A i \in 1..Len(lane) : lane[i].at \in 0..d /\ IsVisual(lane[i]) = TRUE
  BY <1>8, <1>9, <1>10 DEF Placed
<1>13. /\ r \in Seq(Request) /\ Len(r) <= frames
       /\ \A k \in 1..Len(r) : \E i \in 1..Len(lane) : r[k] = lane[i]
       /\ \A i \in 1..Len(lane) : i <= frames => HasKind(r, lane, i)
  <2>1. lane \in Seq(Request) /\ frames \in Nat
    BY <1>12
  <2>2. r \in Seq(Request) /\ Len(r) <= frames
    BY ONLY <1>11, <2>1, LaneOf
  <2>3. \A k \in 1..Len(r) : \E i \in 1..Len(lane) : r[k] = lane[i]
    BY ONLY <1>11, <2>1, LaneOf
  <2>4. \A i \in 1..Len(lane) : i <= frames => HasKind(r, lane, i)
    BY ONLY <1>11, <2>1, LaneOf
  <2> QED BY <2>2, <2>3, <2>4
<1>14. Placed(r, d, TRUE)
  BY <1>12, <1>13 DEF Placed
<1>15. ASSUME media.video, d > 0, frames > 0, Temporal \in Risk,
              Len(theirs) <= frames \/ Leads(plan.requests)
       PROVE  \E k \in 1..Len(r) : r[k].type = "frame_sequence"
  <2>1. PICK i \in 1..Len(first) : i <= frames /\ first[i].type = "frame_sequence"
    BY <1>4, <1>6, <1>7, <1>8, <1>15
  <2>2. i \in 1..Len(lane) /\ lane[i] = first[i]
    BY <1>10, <1>12
  <2>3. PICK k \in 1..Len(r) : r[k].type = lane[i].type
    BY <1>13, <2>1, <2>2 DEF HasKind
  <2> QED BY <2>1, <2>2, <2>3
<1> QED BY <1>13, <1>14, <1>15 DEF theirs, d, r


\* The sounds of the evidence.
LEMMA AudioLane ==
  ASSUME NEW media, media.duration \in Nat, NEW budget \in Nat,
         NEW plan, Inside(plan.requests, media.duration),
         NEW packets, Inside(packets, media.duration)
  PROVE  LET r == AudioEvidence(media, packets, plan, budget) IN
         Placed(r, media.duration, FALSE) /\ Len(r) <= budget
<1> DEFINE d == media.duration
           requests == plan.requests
           heard == Sounds(requests) \o Sounds(packets)
           asked == IF media.audio THEN Map(Short, heard) ELSE <<>>
           whole == SoundAnchors(media)
           lane == asked \o whole
           silent == FALSE
           r == AudioEvidence(media, packets, plan, budget)
<1>1. d \in Nat /\ Inside(requests, d) /\ Inside(packets, d) /\ r = ByTime(Dedupe(lane, budget))
  BY DEF AudioEvidence
<1>2. whole = IF media.audio /\ d > 0
              THEN <<Audio(Greatest(0, (d - Least(120, Greatest(d, 10))) \div 2),
                           Least(120, Greatest(d, 10)), {})>>
              ELSE <<>>
  BY DEF SoundAnchors
<1> HIDE DEF d, r, whole, requests
<1>3. Placed(Sounds(requests), d, silent) /\ Placed(Sounds(packets), d, silent)
  BY <1>1, PlacedParts DEF Inside
<1>4. Placed(<<>>, d, silent)
  BY PlacedNothing
<1>5. ASSUME NEW x \in Request, x.at \in 0..d, IsVisual(x) = silent
      PROVE  Placed(<<x>>, d, silent)
  <2> DEFINE one == <<x>>
  <2>1. Inside(one, d) /\ Len(one) = 1 /\ one[1] = x
    BY <1>5, InsideOne
  <2> HIDE DEF one, silent
  <2>2. \A i \in 1..Len(one) : i = 1
    BY <2>1
  <2> QED BY <1>5, <2>1, <2>2 DEF Placed, Inside
<1>6. Placed(whole, d, silent)
  <2> DEFINE window == Least(120, Greatest(d, 10))
             at == Greatest(0, (d - window) \div 2)
             risks == {}
             a == Audio(at, window, risks)
  <2>1. window \in Int /\ at \in 0..d /\ at \in Int
    BY <1>1 DEF Least, Greatest
  <2>2. risks \in SUBSET (Risk \cup STRING)
    OBVIOUS
  <2>3. whole = IF media.audio /\ d > 0 THEN <<a>> ELSE <<>>
    BY <1>2
  <2> HIDE DEF window, at, risks
  <2>4. a \in Request /\ a.at \in 0..d /\ IsVisual(a) = FALSE
    BY <2>1, <2>2, AudioMade
  <2> HIDE DEF a
  <2>5. Placed(<<a>>, d, silent)
    BY <1>5, <2>4
  <2> QED BY <1>4, <2>3, <2>5
<1> HIDE DEF silent
<1>7. Placed(heard, d, silent)
  BY <1>3, PlacedTogether
<1> HIDE DEF heard
<1>8. Placed(asked, d, silent)
  <2>1. Placed(Map(Short, heard), d, silent)
    BY <1>7, PlacedMaps
  <2> QED BY <1>4, <2>1
<1> HIDE DEF asked
<1>9. Placed(lane, d, silent)
  BY <1>6, <1>8, PlacedTogether
<1>10. r = ByTime(Dedupe(lane, budget))
  BY <1>1
<1> HIDE DEF lane
<1>11. lane \in Seq(Request) /\ \A i \in 1..Len(lane) : lane[i].at \in 0..d /\ IsVisual(lane[i]) = silent
  BY <1>9 DEF Placed
<1>12. r \in Seq(Request) /\ Len(r) <= budget
  BY <1>10, <1>11, LaneOf
<1>13. \A k \in 1..Len(r) : \E i \in 1..Len(lane) : r[k] = lane[i]
  BY <1>10, <1>11, LaneOf
<1>14. Placed(r, d, silent)
  BY <1>11, <1>12, <1>13 DEF Placed
<1> QED BY <1>12, <1>14 DEF silent, d, r

\* Whatever a planner asks for and whatever the instruments flag, a program with
\* pictures is looked at in sequence at least once when the policy has a temporal
\* risk, within the budgets and within the program: what is put first, or stands
\* among as many pictures as there are frames for, survives the budget, and the
\* lanes are put in order only then.
THEOREM ContinuityAlwaysSampled == Spec => []ContinuityIsSampled
<1>1. Applied => ContinuityIsSampled
  <2> SUFFICES ASSUME Applied, rule = "evidence" PROVE ContinuityIsSampled
    BY DEF ContinuityIsSampled
  <2> DEFINE media == given.media
             d == media.duration
             frames == given.frames
             budget == given.audio
             packets == given.packets
             plan == PlanFor(given)
             seen == VisualEvidence(media, packets, plan, frames)
             heard == AudioEvidence(media, packets, plan, budget)
             evidence == EvidenceFor(given)
             pictures == {i \in DOMAIN evidence : IsVisual(evidence[i])}
  <2>1. /\ d \in Nat /\ frames \in Nat /\ budget \in Nat /\ given.reply \in Seq(Request)
        /\ packets \in Seq(Request)
        /\ \A i \in DOMAIN packets : packets[i].type # "frame_sequence" /\ packets[i].at \in 0..d
    BY PlanAssumption DEF Applied
  <2>2. evidence = seen \o heard
    BY DEF EvidenceFor, BuildEvidencePlan, VisualEvidence, AudioEvidence,
           PictureAnchors, SoundAnchors
  <2>3. Inside(packets, d)
    BY <2>1 DEF Inside
  <2>4. /\ plan.targets = Risk /\ Inside(plan.requests, d)
        /\ \/ Len(Pictures(plan.requests)) <= frames
           \/ media.video /\ d > 0 /\ Temporal \in Risk => Leads(plan.requests)
    BY <2>1, PlanMade
  <2> HIDE DEF plan, packets, d, frames, budget
  <2>5. /\ Placed(seen, d, TRUE) /\ Len(seen) <= frames
        /\ /\ media.video /\ d > 0 /\ frames > 0 /\ Temporal \in Risk
           /\ Len(Pictures(plan.requests)) <= frames \/ Leads(plan.requests)
           => \E i \in 1..Len(seen) : seen[i].type = "frame_sequence"
    <3>1. \A i \in DOMAIN packets : packets[i].type # "frame_sequence"
      BY <2>1
    <3> HIDE DEF media
    <3> QED BY <2>1, <2>3, <2>4, <3>1, VisualLane DEF d
  <2>6. Placed(heard, d, FALSE) /\ Len(heard) <= budget
    <3> HIDE DEF media
    <3> QED BY <2>1, <2>3, <2>4, AudioLane DEF d
  <2> HIDE DEF seen, heard, evidence
  <2>7. /\ Len(seen) \in Nat /\ Len(heard) \in Nat
        /\ \A i \in 1..Len(seen) : seen[i].at \in 0..d /\ IsVisual(seen[i]) = TRUE
        /\ \A i \in 1..Len(heard) : heard[i].at \in 0..d /\ IsVisual(heard[i]) = FALSE
    BY <2>5, <2>6 DEF Placed
  <2>8. /\ DOMAIN evidence = 1..(Len(seen) + Len(heard)) /\ Len(evidence) = Len(seen) + Len(heard)
        /\ \A i \in DOMAIN evidence :
             evidence[i] = IF i <= Len(seen) THEN seen[i] ELSE heard[i - Len(seen)]
    <3>1. seen \in Seq(Request) /\ heard \in Seq(Request)
      BY <2>5, <2>6 DEF Placed
    <3> QED BY <2>2, <3>1
  <2>9. ASSUME NEW i \in DOMAIN evidence
        PROVE  evidence[i].at \in 0..d /\ (IsVisual(evidence[i]) <=> i <= Len(seen))
    <3>1. CASE i <= Len(seen)
      <4>1. i \in 1..Len(seen) /\ evidence[i] = seen[i]
        BY <2>7, <2>8, <3>1
      <4> QED BY <2>7, <3>1, <4>1
    <3>2. CASE ~(i <= Len(seen))
      <4>1. i - Len(seen) \in 1..Len(heard) /\ evidence[i] = heard[i - Len(seen)]
        BY <2>7, <2>8, <3>2
      <4> QED BY <2>7, <3>2, <4>1
    <3> QED BY <3>1, <3>2
  <2>10. pictures = 1..Len(seen)
    BY <2>7, <2>8, <2>9
  <2>11. Cardinality(pictures) = Len(seen)
    <3> DEFINE n == Len(seen)
               a == 1
    <3>1. a \in Int /\ n \in Int /\ n \in Nat /\ pictures = a..n
      BY <2>7, <2>10
    <3> HIDE DEF n, a, pictures
    <3>2. Cardinality(a..n) = IF a > n THEN 0 ELSE n - a + 1
      BY <3>1, FS_Interval
    <3>3. Cardinality(pictures) = n
      BY <3>1, <3>2 DEF a
    <3> QED BY <3>3 DEF n
  <2>12. Cardinality(pictures) <= frames /\ Len(evidence) - Cardinality(pictures) <= budget
    BY <2>1, <2>5, <2>6, <2>7, <2>8, <2>11
  <2>13. ASSUME media.video, d > 0, frames > 0, Temporal \in Risk
         PROVE  \E i \in pictures : evidence[i].type = "frame_sequence"
    <3>1. PICK i \in 1..Len(seen) : seen[i].type = "frame_sequence"
      BY <2>4, <2>5, <2>13
    <3>2. i \in DOMAIN evidence /\ evidence[i] = seen[i] /\ i \in pictures
      BY <2>7, <2>8, <2>10
    <3> QED BY <3>1, <3>2
  <2>14. Temporal \in Risk => Temporal \in StageRisks("visual", plan, {"frame_sequence"})
    BY <2>4 DEF StageRisks, Temporal, VisualRisks
  <2>15. \A i \in DOMAIN evidence : evidence[i].at \in 0..d
    BY <2>9
  <2> HIDE DEF pictures
  <2> QED BY <2>12, <2>13, <2>14, <2>15
          DEF ContinuityIsSampled, pictures, evidence, media, d, frames, budget, plan
<1> QED BY <1>1, AlwaysApplied, PTL
=============================================================================
