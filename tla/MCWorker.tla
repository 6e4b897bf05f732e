------------------------------ MODULE MCWorker ------------------------------
(* Orders and lane results for the model checker. *)
EXTENDS Worker

CONSTANTS j1, j2

ServiceSets ==
  {{}, {"thumbnail", "qc_av", "summarize"}, {"qc_captions", "qc_ai"},
   {"qc_ai", "qc_synthetic", "ai_interpretive"},
   {"qc_av", "qc_ai", "ai_interpretive", "thumbnail"},
   {"qc_synthetic", "ai_interpretive", "summarize"},
   Service}

\* The interpretive gate is a deployment's; a worker with no key is tried in
\* one mode.
MCOrder ==
  {o \in [services : ServiceSets, key : BOOLEAN, gate : BOOLEAN, mode : Mode] :
     /\ ~o.gate => o.mode = "enforce" /\ o.key
     /\ ~o.key => o.mode = "hold"}

\* Two runs write every object.
MCDuplicated == {o \in MCOrder : o.services = {"thumbnail", "qc_av", "summarize"} /\ o.key /\ ~o.gate}

MCDetResult == {{"pass"}, {"pass", "info", "warn"}, {"warn", "fail"}}
MCAiResult == {{"pass"}, {"info", "warn"}}
=============================================================================
