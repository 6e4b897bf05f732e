----------------------------- MODULE Delivery ------------------------------
(***************************************************************************)
(* From the checks of a QC report to the disposition of a delivery: the    *)
(* report's recomputed status (pipeline/qc/report.py) and the joining of   *)
(* its gate with what the interpretive run proposes                        *)
(* (pipeline/qc/ai_authority.py).                                          *)
(***************************************************************************)

EXTENDS Integers

Status == {"pass", "info", "warn", "fail"}
Mode == {"shadow", "hold", "enforce"}
Disposition == {"READY", "HOLD", "REJECT"}

-----------------------------------------------------------------------------
(* The report.  A check is [source, status].                               *)

AiSources ==
  {"agentic_ai", "ai_support", "synthetic_ai", "hybrid",
   "ai_interpretive_shadow", "ai_triage"}

Sources == AiSources \cup {"deterministic"}

IsAiOrigin(check) == check.source \in AiSources

\* A model never rejects: its failures are reported as warnings.
CapAiAdvisory(check) ==
  IF IsAiOrigin(check) /\ check.status = "fail"
  THEN [check EXCEPT !.status = "warn"] ELSE check

Capped(checks) == {CapAiAdvisory(c) : c \in checks}

Canonical(checks) == {c \in checks : ~IsAiOrigin(c)}

Worst(statuses) ==
  IF "fail" \in statuses THEN "fail" ELSE IF "warn" \in statuses THEN "warn" ELSE "pass"

\* The status counts the checks of the instruments alone, and is "pass" when
\* there are none.
FinalStatus(checks) == Worst({c.status : c \in Canonical(checks)})

-----------------------------------------------------------------------------
(* The decision.                                                           *)

\* An unknown mode counts as shadow.
NormalizeMode(m) == IF m \in Mode THEN m ELSE "shadow"

\* Anything but a finished report with no warning keeps the delivery back.
Gate(status) ==
  CASE status = "fail" -> "REJECT" [] status = "pass" -> "READY" [] OTHER -> "HOLD"

\* How strict a disposition is.
Strictness(d) == CASE d = "READY" -> 0 [] d = "HOLD" -> 1 [] OTHER -> 2

Stricter(d, e) == IF Strictness(d) >= Strictness(e) THEN d ELSE e

\* Mutant: enforcing means that the models have the last word.
JoinModels(gate, proposed, mode) ==
  CASE NormalizeMode(mode) = "shadow" -> gate
    [] NormalizeMode(mode) = "hold" ->
         IF proposed = "READY" THEN gate ELSE Stricter(gate, "HOLD")
    [] OTHER -> proposed

\* In hold mode the models can hold a delivery back but not reject it.
Join(gate, proposed, mode) ==
  CASE NormalizeMode(mode) = "shadow" -> gate
    [] NormalizeMode(mode) = "hold" ->
         IF proposed = "READY" THEN gate ELSE Stricter(gate, "HOLD")
    [] OTHER -> Stricter(gate, proposed)

\* The results an interpretive run can return for a report: one that is not
\* complete proposes HOLD.
Outcomes(status, mode) ==
  {[complete |-> TRUE, disposition |-> Join(Gate(status), proposed, mode)] :
     proposed \in Disposition}
    \cup {[complete |-> FALSE, disposition |-> Join(Gate(status), "HOLD", mode)]}
=============================================================================
