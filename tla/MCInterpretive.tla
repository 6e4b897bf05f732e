--------------------------- MODULE MCInterpretive ---------------------------
(* Two risks, two models, and the answers that tell the lanes apart. *)
EXTENDS Interpretive

CONSTANTS m1, m2, e1, e2, image, caption

MCRisk == {image, caption}

MCRule ==
  [r \in MCRisk |->
     IF r = image
     THEN [authority |-> "enforce", confidence |-> 90, evidence |-> 1, sources |-> 2,
           severity |-> "reject", intent |-> "confirmed_defect", transcriptions |-> 0,
           transition |-> FALSE]
     ELSE [authority |-> "hold", confidence |-> 80, evidence |-> 1, sources |-> 1,
           severity |-> "any", intent |-> "any", transcriptions |-> 0,
           transition |-> FALSE]]

Claim(risk, state, evidence) ==
  [stage |-> "none", risk |-> risk, state |-> state, source |-> NoSource,
   confidence |-> 95, severity |-> "reject", intent |-> "confirmed_defect",
   evidence |-> evidence, transcribed |-> {}, transition |-> FALSE]

Defect == Claim(image, "concern", {e1})
Uncited == Claim(image, "concern", {})
Clear == Claim(image, "no_concern", {e1})
Captions == Claim(caption, "no_concern", {e2})
Unseen == Claim(caption, "not_checked", {})
Mismatch == Claim(caption, "concern", {e2})

MCAnswer ==
  [s \in Stage |->
     CASE s = "planner" -> {{}, {Clear}}
       [] s = "synthesis" ->
            {{}, {Clear}, {Defect}, {Defect, Captions}, {Uncited, Captions}, {Clear, Captions},
             {Clear, Unseen}, {Clear, Mismatch}}
       [] OTHER -> {{}, {Clear}, {Defect}}]

MCReported == [m \in Model |-> {m}]

Deployment(jury, fallback, attempts, threads, mode, status) ==
  [callable |-> TRUE, attempts |-> attempts, threads |-> threads,
   primary |-> [s \in Stage |-> IF s = "jury" THEN jury ELSE m1],
   fallback |-> fallback, mode |-> mode, status |-> status]

\* A jury whose model is also the fallback; one of its own, with retries; none,
\* and a fallback that cannot be called; no provider.
MCConfig ==
  {Deployment(m2, m2, 1, 2, "enforce", "pass"),
   Deployment(m2, NoModel, 2, 1, "hold", "warn"),
   Deployment(NoModel, Foreign, 2, 2, "enforce", "pass"),
   [Deployment(m2, NoModel, 1, 2, "shadow", "pass") EXCEPT !.callable = FALSE]}
=============================================================================
