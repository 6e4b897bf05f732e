------------------------------- MODULE Review -------------------------------
(***************************************************************************)
(* What surrounds a call of the interpretive run                           *)
(* (pipeline/qc/interpretive_run.py): the plan of the review, the evidence *)
(* it asks for, and the sanitizer that turns an untrusted answer into      *)
(* observations.  Times are in ticks of 1/20 s.                            *)
(***************************************************************************)
EXTENDS Authority, Timeline

VisualRisks ==
  {"perceptual_visual_defect", "temporal_continuity_defect", "typography_defect",
   "editorial_intent", "creative_intent", "aesthetic_quality"}
AudioRisks ==
  {"audible_defect", "lip_sync_error", "caption_semantic_mismatch",
   "spoken_language_mismatch", "caption_text_quality"}
Temporal == "temporal_continuity_defect"

Least(a, b) == IF a <= b THEN a ELSE b
Greatest(a, b) == IF a >= b THEN a ELSE b
Clamp(x, low, high) == Greatest(low, Least(x, high))
Prefix(s, n) == SubSeq(s, 1, Least(n, Len(s)))

-----------------------------------------------------------------------------
(* Evidence requests.                                                      *)

Visual(at, kind, risks) == [type |-> kind, at |-> at, span |-> 0, risks |-> risks]
Audio(at, span, risks) == [type |-> "audio", at |-> at, span |-> span, risks |-> risks]
IsVisual(r) == r.type \in {"frame", "frame_sequence"}

\* A still cannot answer a question of continuity.
Promoted(r) ==
  IF r.type = "frame" /\ Temporal \in r.risks THEN [r EXCEPT !.type = "frame_sequence"] ELSE r

\* Two requests are the same when they agree to a tenth of a second.
Tenth(t) == (t + 1) \div 2
SameRequest(r, s) == r.type = s.type /\ Tenth(r.at) = Tenth(s.at) /\ Tenth(r.span) = Tenth(s.span)

\* The first of each request, up to the budget.
Dedupe(requests, budget) ==
  LET IsFirst(i) == \A j \in 1..(i - 1) : ~SameRequest(requests[j], requests[i])
  IN Prefix(Among(requests, {i \in DOMAIN requests : IsFirst(i)}), budget)

Pictures(requests) == Among(requests, {i \in DOMAIN requests : IsVisual(requests[i])})
Sounds(requests) == Among(requests, {i \in DOMAIN requests : ~IsVisual(requests[i])})
ByTime(requests) == Arranged(requests, [i \in DOMAIN requests |-> requests[i].at])
Map(Op(_), s) == [i \in DOMAIN s |-> Op(s[i])]
Short(r) == [r EXCEPT !.span = Least(@, 120)]

\* Mutant: continuity is looked at when there is room left.
MandatoryLast(media, plan, visual) ==
  IF media.video /\ media.duration > 0 /\ Temporal \in plan.targets
     /\ \A i \in DOMAIN visual : visual[i].type = "frame"
  THEN visual \o <<Visual(media.duration \div 2, "frame_sequence", {Temporal})>>
  ELSE visual

\* A plan that asks for no sequence of frames gets one, before everything else.
Mandatory(media, plan, visual) ==
  IF media.video /\ media.duration > 0 /\ Temporal \in plan.targets
     /\ \A i \in DOMAIN visual : visual[i].type = "frame"
  THEN <<Visual(media.duration \div 2, "frame_sequence", {Temporal})>> \o visual
  ELSE visual

\* The planner's requests, then those of the instruments' findings, then the
\* anchors of the timeline, within the budgets.
BuildEvidencePlan(media, packets, plan, maxFrames, maxAudio) ==
  LET asked == Map(Promoted, Pictures(plan.requests)) \o Pictures(packets)
      heard == Sounds(plan.requests) \o Sounds(packets)
      d == media.duration
      window == Least(120, Greatest(d, 10))
      visual == Mandatory(media, plan, IF media.video THEN asked ELSE <<>>)
                \o (IF media.video /\ d > 0
                    THEN [q \in 1..3 |-> Visual((d * q) \div 4, "frame", {})] ELSE <<>>)
      audio == (IF media.audio THEN Map(Short, heard) ELSE <<>>)
               \o (IF media.audio /\ d > 0
                   THEN <<Audio(Greatest(0, (d - window) \div 2), window, {})>> ELSE <<>>)
  IN ByTime(Dedupe(visual, maxFrames)) \o ByTime(Dedupe(audio, maxAudio))

-----------------------------------------------------------------------------
(* The plan.                                                               *)

NoPlan == [source |-> "none"]

FallbackPlan(media) ==
  LET d == media.duration
      window == Least(120, Greatest(d, 10))
  IN [source |-> "deterministic_fallback", targets |-> Risk,
      requests |->
        (IF media.video /\ d > 0
         THEN (IF Temporal \in Risk
               THEN <<Visual(d \div 2, "frame_sequence", {Temporal})>> ELSE <<>>)
              \o [q \in 1..3 |-> Visual((d * q) \div 4, "frame", Risk \cap VisualRisks)]
         ELSE <<>>)
        \o (IF media.audio /\ d > 0
            THEN <<Audio(Greatest(0, (d - window) \div 2), window, Risk \cap AudioRisks)>>
            ELSE <<>>)]

Bounded(r, d) ==
  LET at == Clamp(r.at, 0, Greatest(d - 1, 0))
      known == [r EXCEPT !.at = at, !.risks = @ \cap Risk]
  IN IF IsVisual(r) THEN Promoted(known)
     ELSE [known EXCEPT !.span = Greatest(10, Least(Least(120, @), d - at))]

\* A planner that asks for nothing is not used; one that does gets every risk
\* of the policy whether it named it or not.
SanitizePlan(requests, media, maxFrames, maxAudio) ==
  LET Before(i) == Cardinality({j \in 1..(i - 1) : IsVisual(requests[j]) = IsVisual(requests[i])})
      Room(i) == Before(i) < (IF IsVisual(requests[i]) THEN maxFrames ELSE maxAudio)
      kept == {i \in DOMAIN requests : Room(i)}
  IN IF media.duration = 0 \/ kept = {} THEN NoPlan
     ELSE [source |-> "ai_planner", targets |-> Risk,
           requests |-> Map(LAMBDA r : Bounded(r, media.duration), Among(requests, kept))]

\* The risks a lane is asked about, by the types of evidence it is given.
StageRisks(stage, plan, types) ==
  LET seen == IF types \cap {"frame", "frame_sequence"} # {} THEN VisualRisks ELSE {}
      heard == IF "audio" \in types THEN AudioRisks ELSE {}
  IN plan.targets \cap
       (CASE stage = "synthesis" -> Risk
          [] stage = "visual" -> seen
          [] stage = "audio" -> heard
          [] OTHER -> seen \cup heard)

-----------------------------------------------------------------------------
(* The sanitizer.  An item of an answer is                                 *)
(*   [risk, state, severity, intent, confidence, evidence, location, read, *)
(*    says]                                                                *)
(* with read the set of [id, text] transcriptions ("" when blank) and says *)
(* what its wording claims: "same", "ambiguous", "start" or "end".  A      *)
(* catalog maps the allowed ids to [type, first, last, cues]: whether the  *)
(* window starts or ends with the source, and how many captions it has.    *)

CaptionRisks == {"caption_semantic_mismatch", "caption_text_quality"}

Known(risk) == IF risk \in Risk THEN risk ELSE "unclassified"
Texts(o) == {t.text : t \in o.read} \ {""}

\* Mutant: what the wording admits does not weaken the concern.
DisarmedNot(o) == o

\* What the reply says about itself, before the catalog is looked at.
Disarmed(o) ==
  LET changed == Cardinality(Texts(o)) > 1
      contradicts == /\ o.risk = "typography_defect" /\ o.state = "no_concern"
                     /\ changed /\ "same" \in o.says
      unsure == o.state = "concern" /\ "ambiguous" \in o.says
  IN IF contradicts THEN [o EXCEPT !.state = "not_checked", !.severity = "info", !.confidence = 0]
     ELSE IF unsure THEN [o EXCEPT !.intent = "ambiguous",
                                   !.severity = IF @ = "reject" THEN "hold" ELSE @]
     ELSE o

\* A cut at the edge of an extracted window is no defect of the source.
EdgeOfSample(o, catalog) ==
  LET windows == {catalog[e] : e \in {x \in o.evidence : catalog[x].type = "audio_window"}}
      At(edge) == o.location = edge \/ (o.location = "unknown" /\ edge \in o.says)
  IN /\ o.risk = "audible_defect" /\ o.state = "concern" /\ windows # {}
     /\ \/ At("start") /\ \A w \in windows : ~w.first
        \/ At("end") /\ \A w \in windows : ~w.last

OnlyStills(o, catalog) ==
  /\ o.risk = Temporal /\ o.evidence # {}
  /\ \A e \in o.evidence : catalog[e].type = "frame"

\* The captions a run looks at are the first eighty, and those of them that
\* overlap a window are its cues.
BoundedCaptions(cues) == Prefix(cues, 80)
Overlaps(cue, at, span) == cue.end > at /\ cue.start < at + span
AlignedCues(cues, at, span) ==
  Cardinality({i \in DOMAIN BoundedCaptions(cues) : Overlaps(cues[i], at, span)})

\* Captions are judged against cues that overlap the cited audio, transcribed.
NoCaptionHeard(o, catalog) ==
  /\ o.risk \in CaptionRisks /\ o.state # "not_checked"
  /\ ~ /\ \E e \in o.evidence : catalog[e].type = "audio_window" /\ catalog[e].cues > 0
       /\ Texts(o) # {}

SanitizedItem(item, catalog) ==
  LET o == Disarmed([item EXCEPT !.risk = Known(@), !.evidence = @ \cap DOMAIN catalog,
                                 !.read = {t \in @ : t.id \in DOMAIN catalog}])
  IN IF OnlyStills(o, catalog) \/ EdgeOfSample(o, catalog) \/ NoCaptionHeard(o, catalog)
     THEN [o EXCEPT !.state = "not_checked", !.severity = "info", !.confidence = 0,
                    !.intent = IF EdgeOfSample(o, catalog) THEN @ ELSE "unknown"]
     ELSE o

AsObservation(o, stage) ==
  [stage |-> stage, risk |-> o.risk, state |-> o.state, source |-> NoSource,
   confidence |-> o.confidence, severity |-> o.severity, intent |-> o.intent,
   evidence |-> o.evidence, transcribed |-> {t.id : t \in o.read},
   transition |-> Cardinality(Texts(o)) > 1]

\* Twelve items are looked at; the synthesis is left with the first about each
\* risk.
Sanitize(items, stage, catalog) ==
  LET read == Prefix(items, 12)
      Counts(i) == stage = "synthesis" =>
        \A j \in 1..(i - 1) : Known(read[j].risk) # Known(read[i].risk)
  IN {AsObservation(SanitizedItem(read[i], catalog), stage) : i \in {k \in DOMAIN read : Counts(k)}}
=============================================================================
