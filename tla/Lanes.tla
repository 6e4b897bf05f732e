------------------------------- MODULE Lanes --------------------------------
(***************************************************************************)
(* The model-driven lanes of the pipeline worker (pipeline/worker.py) as   *)
(* functions of what each call of the provider came back with: the agentic *)
(* inspection, its support checks, and the perceive-then-compute hybrids   *)
(* (pipeline/qc/hybrid.py).                                                *)
(*                                                                         *)
(* A reply is Raised (the call failed), Unread (the text was no JSON       *)
(* object) or what the lane reads in it.  media is the record              *)
(*   [traits, suspects, frames, cues, captioned, language, roles, long]    *)
(* of what the lanes find in the asset: the segments flagged by the scan   *)
(* and the stills extracted around them, whether it has captions and       *)
(* whether some fall in the sampled window, the declared language, the     *)
(* channel roles, and whether the two seconds lip sync needs are there.    *)
(***************************************************************************)
EXTENDS Integers, Coverage

CONSTANTS Raised, Unread

Readable(reply) == reply \notin {Raised, Unread}

\* The whole lane ended with an exception.
Lost == [lost |-> TRUE, checks |-> {}, agentic |-> Unparseable]

SupportCheck(name, status) == [name |-> name, source |-> "ai_support", status |-> status]
HybridCheck(name, status) == [name |-> name, source |-> "hybrid", status |-> status]

-----------------------------------------------------------------------------
(* The agentic inspection.                                                 *)

PassOf(reply, traits) == IF reply = Unread THEN Unparseable ELSE NormalizeResponse(reply, traits)

\* Blind sweep, informed sweep, critic: a call that raises loses them all.
AgenticInspection(replies, critic, traits) ==
  [independent |-> PassOf(replies.independent, traits),
   informed |-> PassOf(replies.informed, traits),
   critic |-> IF critic THEN PassOf(replies.critic, traits) ELSE Skipped]

\* A finding that speaks of bleeps or blurred patches is a warning of its own.
Censorship(check) ==
  [name |-> IF check.covered THEN "ai_censorship" ELSE check.name, source |-> check.source,
   status |-> IF check.covered THEN "warn" ELSE check.status]

InspectionLost(replies, critic) ==
  Raised \in {replies.independent, replies.informed, replies.transcript}
             \cup (IF critic THEN {replies.critic} ELSE {})

-----------------------------------------------------------------------------
(* The support checks.  Each returns the checks it adds.                   *)

\* An unknown verdict counts as uncertain; no verdict at all as none against.
EscalationCheck(media, reply) ==
  IF media.suspects = 0 \/ media.frames = 0 \/ reply = Raised THEN {}
  ELSE {SupportCheck("ai_escalation",
          CASE reply = Unread -> "info"
            [] reply # Unread /\ reply.verdicts \subseteq {"intentional"} -> "pass"
            [] OTHER -> "warn")}

\* Unlike the others this call is not guarded: an exception ends the lane.
CaptionCheck(media, reply) ==
  IF "audio" \notin media.traits THEN {}
  ELSE {SupportCheck("ai_caption_accuracy",
          IF media.captioned /\ reply.spoken /\ reply.match >= 80 THEN "pass" ELSE "warn")}

ComplianceChecks(reply) ==
  CASE reply = Raised -> {}
    [] reply = Unread -> {SupportCheck("ai_text_compliance", "info")}
    [] OTHER ->
         {SupportCheck("ai_text_compliance", IF reply.flagged THEN "warn" ELSE "pass")}
         \cup {SupportCheck("ai_caption_proofread", IF e > 0 THEN "warn" ELSE "pass") : e \in reply.errors}

\* Mutant: only a language heard to differ is held against the asset.
LanguageUnlessDifferent(media, reply) ==
  IF "audio" \notin media.traits \/ media.language = "und" \/ reply = Raised THEN {}
  ELSE {SupportCheck("ai_language",
          IF Readable(reply) /\ reply.heard # media.language THEN "warn" ELSE "pass")}

LanguageCheck(media, reply) ==
  IF "audio" \notin media.traits \/ media.language = "und" \/ reply = Raised THEN {}
  ELSE {SupportCheck("ai_language",
          CASE reply = Unread -> "info"
            [] reply # Unread /\ reply.heard = media.language -> "pass"
            [] OTHER -> "warn")}

-----------------------------------------------------------------------------
(* The hybrids: the model perceives, arithmetic decides.                   *)

\* What a role may not carry, and what it has to.
Forbidden(role, content) == role = "LFE" /\ content \in {"dialogue", "music"}
Unexpected(role, content) == role = "FC" /\ content \notin {"dialogue", "silence"}

\* heard maps channel indices to what was heard on them.
CompareDeclared(heard, roles) ==
  \/ \E i \in DOMAIN heard \cap DOMAIN roles :
       Forbidden(roles[i], heard[i]) \/ Unexpected(roles[i], heard[i])
  \/ Len(roles) >= 5 /\ \A i \in DOMAIN heard : heard[i] # "dialogue"

\* Only a clear peak of the correlation is an offset.
AlignedCheck(reply) ==
  HybridCheck("hybrid_lip_sync",
    CASE reply = Unread -> "info"
      [] reply # Unread /\ ~reply.reliable -> "info"
      [] OTHER -> IF reply.drift > 120 THEN "warn" ELSE "pass")

ComparedCheck(reply, roles) ==
  HybridCheck("hybrid_channel_semantics",
    CASE reply = Unread -> "info"
      [] reply # Unread /\ reply.heard = <<>> -> "info"
      [] OTHER -> IF CompareDeclared(reply.heard, roles) THEN "warn" ELSE "pass")

HybridLipSync(media, reply) ==
  IF ~({"video", "audio"} \subseteq media.traits) \/ ~media.long \/ reply = Raised THEN {}
  ELSE {AlignedCheck(reply)}

HybridChannels(media, reply) ==
  IF "audio" \notin media.traits \/ media.roles = <<>> \/ reply = Raised THEN {}
  ELSE {ComparedCheck(reply, media.roles)}

-----------------------------------------------------------------------------
(* The lane as a whole.                                                    *)

Speaks(media) == media.cues /\ "audio" \in media.traits

AiQc(media, replies, critic) ==
  IF InspectionLost(replies, critic) \/ (Speaks(media) /\ replies.caption = Raised) THEN Lost
  ELSE LET agentic == AgenticInspection(replies, critic, media.traits)
       IN [lost |-> FALSE, agentic |-> agentic,
           checks |->
             {Censorship(c) : c \in ChecksFromFindings(agentic)}
             \cup (IF "video" \in media.traits
                   THEN EscalationCheck(media, replies.escalation) ELSE {})
             \cup (IF media.cues
                   THEN CaptionCheck(media, replies.caption) \cup ComplianceChecks(replies.text)
                   ELSE {})
             \cup LanguageCheck(media, replies.language)
             \cup HybridLipSync(media, replies.mouth)
             \cup HybridChannels(media, replies.channels)]

\* What the coverage table is told about the lane.
AiState(asked, configured, routed, result) ==
  IF ~asked THEN "disabled" ELSE IF ~configured THEN "unavailable"
  ELSE IF ~routed THEN "skipped_by_triage" ELSE IF result.lost THEN "error" ELSE "complete"

\* Finalizing the report: its checks are the instruments' and the lane's.
CoverageAfter(media, instruments, result, aiState) ==
  BuildCoverage(media.traits, instruments \cup result.checks,
                IF result.lost THEN <<>> ELSE ModelDispositions(result.agentic), aiState)
=============================================================================
