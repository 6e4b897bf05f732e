------------------------------- MODULE Credits -------------------------------
(***************************************************************************)
(* What a link with a download allowance promises, with no request, cookie *)
(* or clock in sight: a file is open to a recipient only on a credit that  *)
(* was spent for it, and no more credits are spent than were sold.         *)
(***************************************************************************)
EXTENDS Naturals

CONSTANTS File, Sold    \* Sold[f]: the credits of a file

VARIABLES spent, open

Init == spent = [f \in File |-> 0] /\ open = {}

Spend(f) ==
  /\ spent[f] < Sold[f]
  /\ spent' = [spent EXCEPT ![f] = @ + 1]
  /\ UNCHANGED open

Serve(f) ==
  /\ spent[f] > 0
  /\ open' = open \union {f}
  /\ UNCHANGED spent

Close(f) ==
  /\ open' = open \ {f}
  /\ UNCHANGED spent

Next == \E f \in File : Spend(f) \/ Serve(f) \/ Close(f)

Spec == Init /\ [][Next]_<<spent, open>>
=============================================================================
