-------------------------- MODULE InterpretiveStep --------------------------
(***************************************************************************)
(* What the interpretive run promises the job that calls it, with no       *)
(* stage, model or thread in sight: evidence is stored while it runs, and  *)
(* it ends once, with an exception or with a decision that joins the gate  *)
(* of the report it was given, and proposes HOLD unless it is complete.    *)
(* Worker takes this as one step; Interpretive implements it.              *)
(***************************************************************************)
EXTENDS Delivery

VARIABLES
  asked,     \* the report's status and the authority mode
  stored,    \* some evidence is in the store
  returned,  \* the result, once there is one
  raised

vars == <<asked, stored, returned, raised>>

Running == returned = {} /\ ~raised

Init ==
  /\ asked \in [status : Status \cup {"none"}, mode : Mode]
  /\ ~stored /\ returned = {} /\ ~raised

Store == Running /\ stored' /\ UNCHANGED <<asked, returned, raised>>

Return ==
  /\ Running
  /\ \E result \in Outcomes(asked.status, asked.mode) : returned' = {result}
  /\ UNCHANGED <<asked, stored, raised>>

Raise == Running /\ raised' /\ UNCHANGED <<asked, stored, returned>>

Next == Store \/ Return \/ Raise

Spec == Init /\ [][Next]_vars
=============================================================================
