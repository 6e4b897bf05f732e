------------------------------ MODULE MCUploads ------------------------------
(* Selections and deployments for TLC: one page with every service on, one   *)
(* with a single opt-out, one that is transfer-only.                         *)
EXTENDS Uploads, TLC

Everything   == [options |-> NoOptions, protected |-> FALSE]
TransferOnly == [options |-> AllOff, protected |-> TRUE]

OneChoice == {Everything}
MCChoice == {Everything, TransferOnly}

\* Synthetic and interpretive runs are off, as in the public deployment.
MCDeploy == [allowAi |-> TRUE, allowSynthetic |-> FALSE,
             allowInterpretive |-> FALSE, forceCompute |-> FALSE]

Symmetric == Permutations(Session) \union Permutations(Request)
=============================================================================
