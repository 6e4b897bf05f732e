----------------------------- MODULE Synthetic ------------------------------
(***************************************************************************)
(* The synthetic-media lane: run_synthetic_qc of pipeline/worker.py over   *)
(* the reducers of pipeline/qc/generated.py and the blind jury of          *)
(* pipeline/qc/jury.py, as a function of the replies of its five calls.    *)
(*                                                                         *)
(* A snapshot of a scene is                                                *)
(*   [at, shot, subjects, objects, background, regions, said, anomalies]   *)
(* with at the index of the evidence, subjects and background maps from    *)
(* tracks and keys to what was seen, objects a map from tracks to [count,  *)
(* look], regions the sequence of tracks of located text, said a map from  *)
(* assertions to "support", "contradict" or "unclear", and anomalies a set *)
(* of risks.  A finding is [risk, what, where], where naming its evidence  *)
(* as pairs of an index and "scene" or the track of a crop.                *)
(***************************************************************************)
EXTENDS Timeline, SequencesExt

CONSTANTS
  Failed,   \* the call raised, or its reply was no JSON object
  Malformed, \* an object whose parts are of another shape than asked for
  Blank,    \* what cannot be read, or says nothing
  NoJuror,  \* no juror model is configured
  MaxCrops  \* AI_QC_SYNTH_TEXT_MAX

ASSUME CropAssumption == MaxCrops \in Nat
ASSUME ReplyAssumption == Malformed \notin {Failed, NoJuror}

\* A reply there is nothing to take from.
Unusable == {Failed, Malformed}

GeneratedRisk ==
  {"prompt_elements", "subject_identity", "background_consistency", "object_permanence",
   "human_anatomy", "motion_smoothness", "temporal_flicker", "physics_contact",
   "shadows_reflections", "camera_continuity", "rendered_text", "spatial_relationships",
   "visual_style", "imaging_quality"}

Finding(risk, what, where) == [risk |-> risk, what |-> what, where |-> where]
Row(name, status) == [name |-> name, source |-> "synthetic_ai", status |-> status]

-----------------------------------------------------------------------------
(* The plan: what the planner left out is put back.                        *)

\* A plan maps assertion ids to risks; a baseline assertion is named for its.
NormalizePlan(reply) ==
  LET kept == IF reply \in Unusable THEN <<>>
              ELSE [a \in {x \in DOMAIN reply : reply[x] \in GeneratedRisk} |-> reply[a]]
      baseline == GeneratedRisk \ {kept[a] : a \in DOMAIN kept}
  IN [a \in DOMAIN kept \cup baseline |-> IF a \in DOMAIN kept THEN kept[a] ELSE a]

-----------------------------------------------------------------------------
(* The scene ledger.                                                       *)

\* Snapshots of evidence that was supplied, in its order; an anomaly has to be of
\* the registry.
NormalizeLedger(reply, evidence) ==
  LET supplied == Among(reply, {i \in DOMAIN reply : reply[i].at \in evidence})
      kept == [i \in DOMAIN supplied |->
                 [supplied[i] EXCEPT !.anomalies = @ \cap GeneratedRisk]]
  IN IF reply \in Unusable THEN <<>> ELSE Arranged(kept, [i \in DOMAIN kept |-> kept[i].at])

\* Two readings contradict each other when both mean something.
Differ(left, right) == Blank \notin {left, right} /\ left # right
Changed(before, after) ==
  \E k \in DOMAIN before \cap DOMAIN after : Differ(before[k], after[k])

Scene(s) == <<s.at, "scene">>

\* What one snapshot says by itself.
Observed(s, plan) ==
  {Finding(r, "anomaly", <<Scene(s)>>) : r \in s.anomalies}
  \cup {Finding(plan[a], "contradiction", <<Scene(s)>>) :
          a \in {x \in DOMAIN s.said \cap DOMAIN plan : s.said[x] = "contradict"}}

\* What changed between two neighbours of one shot.
Continuity(s, t) ==
  LET where == <<Scene(s), Scene(t)>>
      both == DOMAIN s.objects \cap DOMAIN t.objects
      Broken(o) == \/ s.objects[o].count # t.objects[o].count
                   \/ Differ(s.objects[o].look, t.objects[o].look)
  IN IF s.shot # t.shot THEN {}
     ELSE (IF Changed(s.subjects, t.subjects)
           THEN {Finding("subject_identity", "changed", where)} ELSE {})
          \cup {Finding("object_permanence", o, where) : o \in {x \in both : Broken(x)}}
          \cup (IF Changed(s.background, t.background)
                THEN {Finding("background_consistency", "changed", where)} ELSE {})

CompareLedger(ledger, plan) ==
  (UNION {Observed(ledger[i], plan) : i \in DOMAIN ledger})
  \cup (UNION {Continuity(ledger[i], ledger[i + 1]) : i \in 1..(Len(ledger) - 1)})

\* Where the second, denser pass looks: the first eight places.
CandidateTimecodes(findings) ==
  LET at == UNION {{f.where[i][1] : i \in DOMAIN f.where} : f \in findings}
      ordered == Ordered(at)
  IN {ordered[i] : i \in 1..(IF Len(ordered) > 8 THEN 8 ELSE Len(ordered))}

-----------------------------------------------------------------------------
(* Text: what one reads of the crops, [crop, track, text] in the order of  *)
(* the reply.                                                              *)

\* A native-resolution crop for each located region, up to the budget.
TextCrops(ledgers) ==
  LET located == FlattenSeq([i \in DOMAIN ledgers |->
                   FlattenSeq([j \in DOMAIN ledgers[i] |->
                     [k \in DOMAIN ledgers[i][j].regions |->
                        <<ledgers[i][j].at, ledgers[i][j].regions[k]>>]])])
  IN {located[n] : n \in {m \in DOMAIN located : m <= MaxCrops}}

\* A reading of a crop that was not supplied is dropped.
NormalizeText(reply, crops) ==
  IF reply \in Unusable THEN <<>> ELSE Among(reply, {i \in DOMAIN reply : reply[i].crop \in crops})

Track(readings, track) == Among(readings, {i \in DOMAIN readings : readings[i].track = track})

\* Mutant: only the first and the last reading of a track are compared.
CompareEnds(readings) ==
  UNION {LET items == Track(readings, t)
             n == Len(items)
         IN IF n > 1 /\ Differ(items[1].text, items[n].text)
            THEN {Finding("rendered_text", t, <<items[1].crop, items[n].crop>>)} ELSE {}
         : t \in {readings[i].track : i \in DOMAIN readings}}

\* Neighbouring readings of a track that are both legible and differ.
CompareText(readings) ==
  UNION {LET items == Track(readings, t)
         IN {Finding("rendered_text", t, <<items[i].crop, items[i + 1].crop>>) :
               i \in {j \in 1..(Len(items) - 1) : Differ(items[j].text, items[j + 1].text)}}
         : t \in {readings[i].track : i \in DOMAIN readings}}

-----------------------------------------------------------------------------
(* The jury: the juror reads the same crops, and its readings are reduced  *)
(* by the same reducer.                                                    *)

ReplayVerdicts(findings, juror, crops) ==
  LET seen == CompareText(NormalizeText(juror, crops))
  IN [f \in findings |->
        IF juror \in {NoJuror, Failed} THEN "single_source"
        ELSE IF f \in seen THEN "reproduced" ELSE "contested"]

-----------------------------------------------------------------------------
(* The coverage of the generated risks.                                    *)

\* A risk is assessed when a snapshot took a side on it.
Assessed(ledgers, plan) ==
  UNION {{plan[a] : a \in {x \in DOMAIN s.said \cap DOMAIN plan : s.said[x] # "unclear"}}
         \cup s.anomalies : s \in UNION {{l[i] : i \in DOMAIN l} : l \in ledgers}}

GeneratedCoverage(plan, ledgers, findings) ==
  LET suspected == {f.risk : f \in findings}
      assessed == Assessed(ledgers, plan)
  IN [r \in GeneratedRisk |->
        IF r \in suspected THEN "SUSPECTED"
        ELSE IF r \in assessed THEN "ASSESSED" ELSE "REVIEW_REQUIRED"]

-----------------------------------------------------------------------------
(* The lane.  replies is [plan, artifacts, coarse, fine, text, juror,      *)
(* adherence]; asset is [video, stills, coarse, fine, manifest, prompt,    *)
(* typography], with coarse a set of evidence and fine the evidence around *)
(* a place.                                                                *)

\* The risk an artifact's category stands for.
ArtifactRisk(category) ==
  CASE category = "anatomy" -> "human_anatomy" [] category = "text" -> "rendered_text"
    [] category = "physics" -> "physics_contact" [] category = "merge" -> "object_permanence"
    [] OTHER -> "imaging_quality"

Artifacts(asset, replies) ==
  IF ~asset.stills \/ replies.artifacts \in Unusable THEN {}
  ELSE {Finding(ArtifactRisk(c), c, <<>>) : c \in replies.artifacts}

Scored(asset) == asset.manifest /\ asset.prompt /\ asset.stills

\* An adherence is a score of a hundred, asked for when there is a prompt.
Adherence(asset, replies) ==
  IF ~Scored(asset) \/ replies.adherence \in Unusable THEN {} ELSE {replies.adherence}

\* A call that is not made has no reply; whatever is asked and answers with the
\* wrong shape raises where the reply is read.
Misshapen(replies, asked) == \E k \in asked : replies[k] = Malformed

\* The row that guesses whether the asset was generated at all is left out: it
\* is information whatever it says.
Synthesize(asset, replies) ==
  LET plan == NormalizePlan(replies.plan)
      coarse == NormalizeLedger(IF asset.coarse = {} THEN Failed ELSE replies.coarse, asset.coarse)
      first == CompareLedger(coarse, plan)
      dense == UNION {asset.fine[t] : t \in CandidateTimecodes(first)}
      fine == NormalizeLedger(IF dense = {} THEN Failed ELSE replies.fine, dense)
      second == CompareLedger(fine, plan)
      crops == IF asset.typography THEN TextCrops(<<coarse, fine>>) ELSE {}
      readings == NormalizeText(IF crops = {} THEN Failed ELSE replies.text, crops)
      verdicts == ReplayVerdicts(CompareText(readings), replies.juror, crops)
      low == {Finding("prompt_elements", "adherence", <<>>) : n \in {x \in Adherence(asset, replies) : x < 70}}
      findings == Artifacts(asset, replies) \cup first \cup second \cup DOMAIN verdicts \cup low
      coverage == GeneratedCoverage(plan, {coarse, fine}, findings)
      asked == {"plan"} \cup (IF asset.stills THEN {"artifacts"} ELSE {})
               \cup (IF asset.coarse # {} THEN {"coarse"} ELSE {})
               \cup (IF dense # {} THEN {"fine"} ELSE {})
               \cup (IF crops # {} THEN {"text"} ELSE {})
               \cup (IF DOMAIN verdicts # {} THEN {"juror"} ELSE {})
               \cup (IF Scored(asset) THEN {"adherence"} ELSE {})
      Warns(cond) == IF cond THEN "warn" ELSE "info"
  IN [findings |-> findings, coverage |-> coverage, verdicts |-> verdicts, readings |-> readings,
      raised |-> Misshapen(replies, asked),
      repeated |-> {f.risk : f \in {x \in first : \E g \in second : g.risk = x.risk /\ g.what = x.what}},
      checks |->
        {Row("ai_generated_qc_plan", "info"), Row("ai_generated_risk_coverage", "info"),
         Row("ai_temporal_coherence",
             Warns(\E f \in first \cup second : f.risk # "rendered_text")),
         Row("ai_rendered_text_integrity", Warns(DOMAIN verdicts # {}))}
        \cup (IF asset.stills
              THEN {Row("ai_synthetic_artifacts", Warns(Artifacts(asset, replies) # {}))} ELSE {})
        \cup (IF asset.manifest /\ (~asset.prompt \/ asset.stills)
              THEN {Row("ai_prompt_adherence",
                        IF Adherence(asset, replies) = {} THEN "info"
                        ELSE IF low = {} THEN "pass" ELSE "warn")} ELSE {})]

NoReport ==
  [findings |-> {}, coverage |-> <<>>, verdicts |-> <<>>, readings |-> <<>>,
   raised |-> FALSE, repeated |-> {}, checks |-> {}]

\* What raises takes all of the lane with it, and the job goes on without
\* (run_pipeline).
Caught(run) == IF run.raised THEN [NoReport EXCEPT !.raised = TRUE] ELSE run

\* An asset without pictures has nothing to inspect.
RunSyntheticQc(asset, replies) ==
  IF ~asset.video THEN NoReport ELSE Caught(Synthesize(asset, replies))
=============================================================================
