------------------------------ MODULE MCFolders ------------------------------
(* The public deployment's switches, and the permutations TLC may use.       *)
EXTENDS Folders, TLC

MCDeploy == [allowAi |-> TRUE, allowSynthetic |-> FALSE,
             allowInterpretive |-> FALSE, forceCompute |-> FALSE]

Symmetric == Permutations(Path) \union Permutations(Member) \union Permutations(Request)
=============================================================================
