---------------------------- MODULE ServicePolicy ----------------------------
(***************************************************************************)
(* The service options of a transfer: what the sender asked for, what the  *)
(* gateway stores after applying the deployment's policy, and what the two *)
(* readers of the stored value (the gateway's dispatch gate and the        *)
(* worker) make of it.                                                     *)
(*                                                                         *)
(* An options value is a record: `given` is FALSE for SQL NULL (the sender *)
(* sent no options at all), and `svc` says, for every service flag, whether *)
(* the JSON object carries true, false or no entry.  Only the service      *)
(* flags are kept; of the other keys (profile, compute, review_brief) only *)
(* the fact that a pinned `compute` materialises an object matters here.   *)
(***************************************************************************)
EXTENDS FiniteSets

DefaultOn == {"qc_av", "qc_captions", "qc_ai", "thumbnail", "summarize"}
OptIn     == {"qc_synthetic", "ai_interpretive"}
Service   == DefaultOn \union OptIn

Setting == {"true", "false", "missing"}
Options == [given : BOOLEAN, svc : [Service -> Setting]]

NoOptions == [given |-> FALSE, svc |-> [k \in Service |-> "missing"]]
AllOff    == [given |-> TRUE,  svc |-> [k \in Service |-> "false"]]

\* The options of a folder member: the request is ignored and every default
\* service is written down as off.
MemberOptions ==
  [given |-> TRUE,
   svc   |-> [k \in Service |-> IF k \in DefaultOn THEN "false" ELSE "missing"]]

\* One deployment's switches.
Deployment == [allowAi : BOOLEAN, allowSynthetic : BOOLEAN,
               allowInterpretive : BOOLEAN, forceCompute : BOOLEAN]

\* What survives of the request body: a body that is not an object is no
\* options at all, and a value that is not a boolean ("junk") is dropped.
SanitizeOptions(isObject, raw) ==
  IF isObject
  THEN [given |-> TRUE,
        svc   |-> [k \in Service |-> IF raw[k] = "junk" THEN "missing" ELSE raw[k]]]
  ELSE NoOptions

\* The flags the deployment writes as false, whatever the sender chose.  An
\* explicit interpretive run replaces the legacy qc_ai lane.
Forced(d, o, oversized) ==
  {k \in Service :
     \/ oversized
     \/ k = "qc_ai" /\ ~d.allowAi
     \/ k = "qc_synthetic" /\ ~d.allowSynthetic
     \/ k = "ai_interpretive" /\ ~d.allowInterpretive
     \/ /\ k = "qc_ai"
        /\ d.allowInterpretive
        /\ o.svc["ai_interpretive"] = "true"
        /\ o.svc["qc_ai"] = "true"}

\* Mutant: options the sender did not send are left alone.
PolicySkipsNull(d, o, oversized) ==
  IF (Forced(d, o, oversized) = {} /\ ~d.forceCompute) \/ ~o.given
  THEN o
  ELSE [given |-> TRUE,
        svc   |-> [k \in Service |->
                     IF k \in Forced(d, o, oversized) THEN "false" ELSE o.svc[k]]]

\* Mutant: what is not forced off is written down as on.
PolicyFillsIn(d, o, oversized) ==
  [given |-> TRUE,
   svc   |-> [k \in Service |->
                IF k \in Forced(d, o, oversized) THEN "false" ELSE "true"]]

\* Nothing forced: the value passes through, NULL included.  Otherwise an
\* object is materialised that carries the explicit falses.
ApplyServicePolicy(d, o, oversized) ==
  IF Forced(d, o, oversized) = {} /\ ~d.forceCompute
  THEN o
  ELSE [given |-> TRUE,
        svc   |-> [k \in Service |->
                     IF k \in Forced(d, o, oversized) THEN "false" ELSE o.svc[k]]]

\* Mutant: everything forced is reported, selected or not.
DisabledAll(d, o, oversized) == Forced(d, o, oversized)

\* The services the sender is told were switched off.
Disabled(d, o, oversized) ==
  {k \in Forced(d, o, oversized) :
     IF k \in OptIn THEN o.svc[k] = "true"
                    ELSE ~o.given \/ o.svc[k] # "false"}

\* Mutant: the gate looks at the default-on services only.
GateIgnoresOptIn(o) == ~o.given \/ \E k \in DefaultOn : o.svc[k] # "false"

\* The gateway's gate: is there any reason to dispatch a job?
AnyServiceOn(o) ==
  \/ ~o.given
  \/ \E k \in DefaultOn : o.svc[k] # "false"
  \/ \E k \in OptIn : o.svc[k] = "true"

\* The worker's reading of the options it is handed.
WorkerRuns(o) ==
  {k \in Service :
     IF k \in OptIn THEN o.svc[k] = "true" ELSE o.svc[k] # "false"}
=============================================================================
