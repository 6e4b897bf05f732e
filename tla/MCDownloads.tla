----------------------------- MODULE MCDownloads -----------------------------
(* Two files of a protected folder, each with one credit; one of them may    *)
(* still wait for its row.                                                   *)
EXTENDS Downloads, TLC

InFolder  == [f \in File |-> CHOOSE l \in Folder : TRUE]
OneCredit == [l \in Link |-> 1]
=============================================================================
