------------------------------ MODULE MCRules -------------------------------
(* Inputs that reach every branch of the rules: hostile, empty, partial and  *)
(* plausible replies beside media that make each risk apply.                 *)
EXTENDS Rules

CONSTANT image

MCRisk == {image, Temporal, "caption_semantic_mismatch"}

Enforced(transition) ==
  [authority |-> "enforce", confidence |-> 90, evidence |-> 1, sources |-> 2,
   severity |-> "reject", intent |-> "confirmed_defect", transcriptions |-> 0,
   transition |-> transition]

MCRule ==
  [r \in MCRisk |->
     IF r = "caption_semantic_mismatch"
     THEN [Enforced(FALSE) EXCEPT !.authority = "hold", !.sources = 1] ELSE Enforced(FALSE)]

-----------------------------------------------------------------------------
(* Evidence: a program of ten seconds, or of a third of one.    *)

Asked ==
  {Visual(40, "frame", {image}), Visual(41, "frame", {Temporal}), Visual(60, "frame", {}),
   Visual(500, "frame_sequence", {image}), Audio(190, 200, {}), Audio(0, 30, {Temporal})}

\* The instruments flag what is inside the program.
Packets == <<Visual(4, "frame", {}), Audio(1, 5, {})>>

MCPlanInput ==
  [media : [video : BOOLEAN, audio : BOOLEAN, duration : {6, 200}],
   reply : UNION {[1..n -> Asked] : n \in 0..3},
   packets : {<<>>, Packets},
   frames : {0, 1, 2, 4}, audio : {0, 1}]

-----------------------------------------------------------------------------
(* Coverage: a film in surround with captions, and a track of sound.         *)

Film ==
  [traits |-> {"video", "audio", "text"}, suspects |-> 1, frames |-> 3, cues |-> TRUE,
   captioned |-> TRUE, language |-> "eng", roles |-> <<"FL", "FR", "FC", "LFE", "BL", "BR">>,
   long |-> TRUE]
Sound ==
  [Film EXCEPT !.traits = {"audio"}, !.suspects = 0, !.cues = FALSE, !.language = "und",
               !.roles = <<>>]

Reply(risks, status, findings) ==
  [findings |-> findings, dispositions |-> [i \in DOMAIN risks |-> [risk |-> risks[i], status |-> status]]]
Judged3 == <<"certified_pse", "channel_assignment", "encrypted_proprietary_streams", "dead_stuck_pixels">>
Replies3 ==
  {Raised, Unread, Reply(Judged3, "CLEAR", {}),
   Reply(Judged3, "CONFIRMED", {[risk |-> "lip_sync", severity |-> "blocker", covered |-> FALSE],
                                [risk |-> "abr_playback", severity |-> "awful", covered |-> TRUE]}),
   Reply(<<"lip_sync", "no such risk", "lip_sync">>, "perhaps", {})}

Quiet ==
  [escalation |-> Unread, caption |-> [spoken |-> FALSE, match |-> 0], text |-> Unread,
   language |-> Unread, mouth |-> Unread, channels |-> Unread, transcript |-> Unread]
Heard5 == [i \in 1..6 |-> IF i = 3 THEN "dialogue" ELSE "music"]
Good ==
  [escalation |-> [verdicts |-> {"intentional"}], caption |-> [spoken |-> TRUE, match |-> 90],
   text |-> [flagged |-> FALSE, errors |-> {0}], language |-> [heard |-> "eng"],
   mouth |-> [reliable |-> TRUE, drift |-> 40],
   channels |-> [heard |-> [Heard5 EXCEPT ![4] = "effects"]], transcript |-> Unread]
Bad ==
  [escalation |-> [verdicts |-> {"defect", "whatever"}], caption |-> [spoken |-> TRUE, match |-> 60],
   text |-> [flagged |-> TRUE, errors |-> {3}], language |-> [heard |-> "fra"],
   mouth |-> [reliable |-> TRUE, drift |-> 200], channels |-> [heard |-> Heard5],
   transcript |-> Unread]
Support3 ==
  {Quiet, Good, Bad, [Quiet EXCEPT !.caption = Raised], [Good EXCEPT !.transcript = Raised],
   [Good EXCEPT !.mouth = [reliable |-> FALSE, drift |-> 0], !.text = Raised,
                !.channels = [heard |-> <<>>], !.escalation = [verdicts |-> {}]]}

With(support, a, b, c) ==
  [k \in DOMAIN support \cup {"independent", "informed", "critic"} |->
     CASE k = "independent" -> a [] k = "informed" -> b [] k = "critic" -> c [] OTHER -> support[k]]

Det(name, status) == [name |-> name, source |-> "deterministic", status |-> status]
Readings ==
  {{}} \cup {{Det(n, s)} : n \in {"decode", "pse_flash_risk", "channel_map", "captions_present", "imf_photon"},
                          s \in {"pass", "warn", "fail", "info"}}

MCReportInput ==
  [media : {Film, Sound},
   instruments : {x \cup y : x \in Readings, y \in {{}, {Det("decode", "pass")}, {Det("channel_map", "fail")}}},
   replies : {With(s, a, b, c) : s \in Support3, a \in {Unread, Raised, Reply(Judged3, "CLEAR", {})},
                                 b \in Replies3, c \in Replies3},
   critic : BOOLEAN]

-----------------------------------------------------------------------------
(* Judgement: each answer has one or two items.                              *)

MCCaptions == <<[start |-> 20, end |-> 60], [start |-> 190, end |-> 200]>>

MCCatalog ==
  [f |-> [type |-> "frame", first |-> FALSE, last |-> FALSE, cues |-> 0],
   s |-> [type |-> "frame_sequence", first |-> FALSE, last |-> FALSE, cues |-> 0],
   w |-> [type |-> "audio_window", first |-> FALSE, last |-> TRUE,
          cues |-> AlignedCues(MCCaptions, 80, 120)]]

Item(risk, state, severity, evidence, says, read) ==
  [risk |-> risk, state |-> state, severity |-> severity, intent |-> "confirmed_defect",
   confidence |-> 95, evidence |-> evidence, location |-> "unknown", says |-> says, read |-> read]

Items ==
  {Item(r, "concern", v, e, t, {}) :
     r \in {image, Temporal}, v \in {"reject", "hold"}, e \in {{}, {"f"}, {"s", "unknown"}, {"w"}},
     t \in {{}, {"ambiguous"}}}
  \cup {Item("caption_semantic_mismatch", "concern", "reject", {"w"}, {}, {[id |-> "w", text |-> "hi"]}),
        Item("no such risk", "concern", "reject", {"f"}, {"start"}, {}),
        Item(image, "no_concern", "info", {"f"}, {}, {}),
        [Item(image, "concern", "reject", {"f"}, {}, {}) EXCEPT !.confidence = 50]}

Sound2 == Item(image, "concern", "reject", {"f"}, {}, {})

MCJudgeInput ==
  [visual : {<<i>> : i \in Items}, jury : {<<i>> : i \in Items} \cup {<<>>},
   synthesis : {<<i>> : i \in Items} \cup {<<Item(image, "no_concern", "info", {"f"}, {}, {}), Sound2>>,
                                           <<Sound2, Item(Temporal, "concern", "reject", {"s"}, {}, {})>>}]

-----------------------------------------------------------------------------
(* Synthetic: three frames of one shot and one of the next.                  *)

Snap(at, shot, look, regions, said) ==
  [at |-> at, shot |-> shot, subjects |-> [hero |-> look],
   objects |-> [ball |-> [count |-> 1, look |-> look]], background |-> [place |-> "studio"],
   regions |-> regions, said |-> said, anomalies |-> {}]

Says(status) == [a \in {"A1"} |-> status]
Ledger1 ==
  {<<Snap(1, "a", "red", <<"sign">>, Says("support")), Snap(2, "a", "red", <<"sign">>, Says(s)),
     Snap(3, "b", k, <<"sign">>, Says("unclear"))>> : s \in {"support", "contradict"}, k \in {"red", Blank}}
  \cup {<<Snap(2, "a", k, <<>>, Says("unclear")), Snap(1, "a", "red", <<"sign", "logo">>, Says("support"))>> :
          k \in {"red", "blue", Blank}}

Reading(at, text) == [crop |-> <<at, "sign">>, track |-> "sign", text |-> text]
Texts1 ==
  UNION {[1..n -> {Reading(a, t) : a \in 1..3, t \in {"open", "0pen", Blank}}] : n \in 0..3}

Asset ==
  [video |-> TRUE, stills |-> TRUE, coarse |-> 1..3, fine |-> [t \in 1..3 |-> {t}],
   manifest |-> TRUE, prompt |-> TRUE, typography |-> TRUE]
SyntheticReply ==
  [plan |-> [A1 |-> "visual_style"], artifacts |-> {}, coarse |-> Failed, fine |-> Failed,
   text |-> Failed, juror |-> NoJuror, adherence |-> 90]

MCAssetInput ==
  [asset : {Asset},
   replies : {[SyntheticReply EXCEPT !.coarse = c, !.text = t, !.juror = j] :
                c \in Ledger1, t \in Texts1 \cup Unusable,
                j \in {NoJuror, <<>>, <<Reading(1, "open"), Reading(2, "0pen")>>} \cup Unusable}]
  \cup
  [asset : {[Asset EXCEPT !.stills = s, !.prompt = p, !.typography = y, !.video = v] :
              s \in BOOLEAN, p \in BOOLEAN, y \in BOOLEAN, v \in BOOLEAN},
   replies : {[SyntheticReply EXCEPT !.coarse = c, !.fine = f, !.plan = q, !.artifacts = r,
                                     !.adherence = n] :
                c \in Ledger1 \cup Unusable, f \in Ledger1 \cup Unusable,
                q \in {[A1 |-> "physics_contact", A2 |-> "no such risk"]} \cup Unusable,
                r \in {{}, {"anatomy", "whatever"}} \cup Unusable,
                n \in {90, 40} \cup Unusable}]

-----------------------------------------------------------------------------
(* Frames: ten seconds, shots and anomalies anywhere, budgets up to six.     *)

Wanted(type, at, span) == [type |-> type, at |-> at, span |-> span]
Requests3 ==
  {<<>>,
   <<Wanted("frame", 300, 9), Wanted("contact_sheet", 2, 500), Wanted("shell", 0, 1)>>,
   [i \in 1..8 |-> Wanted(IF i > 4 THEN "frame_burst" ELSE "audio_window", 30 * i - 60, 60)]}

\* The stretch of the program a frame stands for leaves every budget within reach.
MCFrameInput ==
  [duration : {200}, cuts : SUBSET {10, 30, 62, 95, 130, 180},
   anomalies : SUBSET {<<20, 40>>, <<70, 72>>, <<76, 80>>, <<100, 190>>, <<196, 199>>}, budget : 1..6,
   stretch : {40}, floor : {1}, requests : Requests3, media : {{"video", "audio"}}, missing : {{}}]
  \cup
  [duration : {6, 90}, cuts : SUBSET {2, 4}, anomalies : {{}, {<<1, 4>>}}, budget : {1, 3, 8},
   stretch : {4, 20}, floor : {1, 2}, requests : Requests3, media : SUBSET {"video", "audio"},
   missing : {{}, {2, 30, 60, 75}}]

-----------------------------------------------------------------------------
(* Options: the default-on services other than qc_av and qc_ai are treated   *)
(* alike by every operator, so they share one entry; all else varies freely. *)

RawEntry == {"true", "false", "missing", "junk"}

MCRawBodies ==
  {[k \in Service |->
      CASE k = "qc_av" -> av
        [] k = "qc_ai" -> ai
        [] k = "qc_synthetic" -> synthetic
        [] k = "ai_interpretive" -> interpretive
        [] OTHER -> others] :
     av, ai, synthetic, interpretive, others \in RawEntry}
=============================================================================
