------------------------------ MODULE Coverage ------------------------------
(***************************************************************************)
(* The contract of the agentic reporter (pipeline/qc/agentic.py): what is  *)
(* kept of a model's answer, the checks it becomes, and the coverage table *)
(* that accounts for every registered risk whatever the models did.        *)
(*                                                                         *)
(* A check is [name, source, status]; a media context is the set of its    *)
(* traits; a pass is [status, findings, dispositions] with dispositions in *)
(* the order of the reply.                                                 *)
(***************************************************************************)
EXTENDS Naturals, Sequences, FiniteSets

Disposed ==
  {"CLEAR", "CONFIRMED", "SUSPECTED", "REVIEW_REQUIRED", "UNVERIFIED", "BLOCKED"}
Unregistered == "unregistered_observation"

-----------------------------------------------------------------------------
(* The registry.                                                           *)

Entry(applies, scope, checks) ==
  [applies |-> applies, scope |-> scope, checks |-> checks, support |-> {}, unreliable |-> FALSE]
Supported(entry, support) == [entry EXCEPT !.support = support]
Unreliable(entry) == [entry EXCEPT !.unreliable = TRUE]

Registry ==
  [certified_pse |-> Entry("video", "certification", {"pse_flash_risk"}),
   dolby_vision_rpu_canvas |-> Entry("dolby_vision", "partial", {"hdr_dolby_vision"}),
   hdr_metadata |-> Entry("hdr", "partial", {"mediainfo_hdr", "container_metadata"}),
   dolby_audio_internals |-> Entry("dolby_audio", "partial", {"dolby_audio_metadata"}),
   lip_sync |-> Unreliable(Entry("video_audio", "partial",
     {"avsync_offset", "lip_sync_container_offset", "lip_sync_drift_proxy", "hybrid_lip_sync"})),
   dead_stuck_pixels |-> Entry("video", "human", {}),
   subtle_visual_artifacts |-> Entry("video", "partial", {"decode", "black_frames", "freeze_frames"}),
   creative_vs_defect |-> Entry("video", "human", {"ai_escalation"}),
   color_trim_intent |-> Entry("video", "intent",
     {"reference_ssim", "reference_psnr", "reference_vmaf"}),
   abr_playback |-> Entry("abr", "partial", {"abr_manifest"}),
   audio_transients |-> Entry("audio", "partial", {"audio_clipping", "audio_silence", "audio_hum"}),
   channel_assignment |-> Unreliable(Entry("audio", "partial",
     {"channel_map", "audio_phase", "hybrid_channel_semantics"})),
   spoken_language |-> Supported(Entry("audio", "human", {}), {"ai_language"}),
   caption_localization |-> Supported(Entry("text_or_audio", "partial",
     {"captions_present", "caption_timing", "caption_readability"}),
     {"ai_caption_accuracy", "ai_caption_proofread"}),
   editorial_continuity |-> Entry("video", "human", {}),
   as11_dpp_conformance |-> Entry("mxf", "partial",
     {"mxf_op1a", "as11_dpp_metadata", "mediainfo_wrapper"}),
   imf_edge_cases |-> Entry("imf", "full", {"imf_photon"}),
   encrypted_proprietary_streams |-> Entry("always", "full", {"decode"})]

Registered == DOMAIN Registry

\* A trait the streams or the suffix show, or that a check reveals.
Revealed(name) ==
  CASE name = "mediainfo_hdr" -> {"hdr"} [] name = "hdr_dolby_vision" -> {"dolby_vision"}
    [] name = "dolby_audio_metadata" -> {"dolby_audio"} [] name = "imf_photon" -> {"imf"}
    [] OTHER -> {}

MediaContext(traits, checks) == traits \cup UNION {Revealed(c.name) : c \in checks}

Applies(rule, traits) ==
  CASE rule = "always" -> TRUE
    [] rule = "video_audio" -> {"video", "audio"} \subseteq traits
    [] rule = "text_or_audio" -> {"text", "audio"} \cap traits # {}
    [] OTHER -> rule \in traits

Applicable(traits) == {r \in Registered : Applies(Registry[r].applies, traits)}

-----------------------------------------------------------------------------
(* What is kept of a model's answer.                                       *)

Unparseable == [status |-> "unparseable", findings |-> {}, dispositions |-> <<>>]
Skipped == [Unparseable EXCEPT !.status = "skipped"]

\* The answer is held to the risks the media itself makes applicable.  Of a
\* finding's wording only what censorship looks for is kept; no two findings of
\* one reply share risk and title.
NormalizeResponse(reply, traits) ==
  LET valid == Applicable(traits)
      Finding(f) ==
        [risk |-> IF f.risk \in valid THEN f.risk ELSE Unregistered,
         severity |-> IF f.severity \in {"blocker", "issue", "fyi"} THEN f.severity ELSE "issue",
         covered |-> f.covered]
      About(d) == d.risk \in valid
      kept == SelectSeq(reply.dispositions, About)
  IN [status |-> "complete",
      findings |-> {Finding(f) : f \in reply.findings},
      dispositions |->
        [i \in DOMAIN kept |->
           [kept[i] EXCEPT !.status = IF @ \in Disposed THEN @ ELSE "UNVERIFIED"]]]

\* The pass that speaks for the report: the last one that was understood.
FinalPass(agentic) ==
  IF agentic.critic.status = "complete" THEN agentic.critic
  ELSE IF agentic.informed.status = "complete" THEN agentic.informed
  ELSE agentic.independent

\* Of two dispositions of one risk the later counts.
ModelDispositions(agentic) ==
  LET said == FinalPass(agentic).dispositions
      about == {said[i].risk : i \in DOMAIN said}
      Last(r) == CHOOSE i \in DOMAIN said :
                   /\ said[i].risk = r
                   /\ \A j \in DOMAIN said : said[j].risk = r => j <= i
  IN [r \in about |-> said[Last(r)].status]

ReportableFindings(agentic) == FinalPass(agentic).findings

\* The severity a model chose is not a reason to reject.
ChecksFromFindings(agentic) ==
  LET said == ModelDispositions(agentic)
      findings == ReportableFindings(agentic)
      untold == {r \in DOMAIN said : said[r] \in {"CONFIRMED", "SUSPECTED"}}
                \ {f.risk : f \in findings}
      Row(risk, status, covered) ==
        [name |-> "agentic_" \o risk, source |-> "agentic_ai", status |-> status,
         covered |-> covered]
  IN {Row(f.risk, IF f.severity = "fyi" THEN "info" ELSE "warn", f.covered) : f \in findings}
     \cup {Row(r, "warn", FALSE) : r \in untold}

-----------------------------------------------------------------------------
(* The coverage of one risk.                                               *)

\* What is measured, as opposed to judged.
Instruments(r, checks) ==
  {c \in checks : c.name \in Registry[r].checks /\ c.source \in {"deterministic", "hybrid"}}
Support(r, checks) == {c \in checks : c.name \in Registry[r].support}
Complaints(cs) == {c \in cs : c.status \in {"warn", "fail"}}
AllPass(cs) == cs # {} /\ \A c \in cs : c.status = "pass"

\* A model may neither clear nor confirm what it cannot judge.
Judged(r, proposed) ==
  IF ~(Registry[r].scope \in {"certification", "intent"} \/ Registry[r].unreliable) THEN proposed
  ELSE CASE proposed = "CLEAR" -> "REVIEW_REQUIRED"
         [] proposed = "CONFIRMED" -> "SUSPECTED"
         [] OTHER -> proposed

\* Nobody determined the risk.
Undetermined(r, aiState) ==
  CASE aiState = "error" -> "BLOCKED"
    [] aiState = "unavailable" -> "UNVERIFIED"
    [] OTHER -> IF Registry[r].scope = "full" THEN "UNVERIFIED" ELSE "REVIEW_REQUIRED"

\* Mutant: the model's word is taken before the instruments'.
ModelFirst(r, checks, said, aiState) ==
  IF r \in DOMAIN said THEN Judged(r, said[r])
  ELSE IF Complaints(Instruments(r, checks)) # {} THEN "SUSPECTED"
  ELSE IF Registry[r].scope = "full" /\ AllPass(Instruments(r, checks)) THEN "CLEAR"
  ELSE Undetermined(r, aiState)

\* Instruments win; the models fill the gaps.
CoverageOf(r, checks, said, aiState) ==
  LET measured == Instruments(r, checks)
      bad == Complaints(measured)
      support == Support(r, checks)
      failed == \E c \in bad : c.status = "fail"
  IN IF bad # {}
     THEN IF Registry[r].scope # "certification" /\ failed THEN "CONFIRMED" ELSE "SUSPECTED"
     ELSE IF Registry[r].scope = "full" /\ AllPass(measured) THEN "CLEAR"
     ELSE IF r \in DOMAIN said THEN Judged(r, said[r])
     ELSE IF Complaints(support) # {} THEN "SUSPECTED"
     ELSE IF AllPass(support) THEN "CLEAR"
     ELSE Undetermined(r, aiState)

BuildCoverage(traits, checks, said, aiState) ==
  LET applicable == Applicable(MediaContext(traits, checks))
  IN [r \in Registered |->
        IF r \in applicable THEN CoverageOf(r, checks, said, aiState) ELSE "NOT_APPLICABLE"]
=============================================================================
