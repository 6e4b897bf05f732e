------------------------------ MODULE Timeline ------------------------------
(***************************************************************************)
(* Orders and choices over sequences, stated by rank: the element at a     *)
(* place is the one with so many before it.                                *)
(***************************************************************************)
EXTENDS Integers, Sequences, FiniteSets

\* A finite set of numbers in order.
Ordered(times) ==
  [i \in 1..Cardinality(times) |-> CHOOSE t \in times : Cardinality({u \in times : u < t}) = i - 1]

\* The elements of s at the positions of a set, in order.
Among(s, positions) ==
  LET order == Ordered(positions) IN [n \in DOMAIN order |-> s[order[n]]]

\* s in the order of a key for each of its positions; equal keys stay as they are.
Arranged(s, key) ==
  LET Earlier(i) == {j \in DOMAIN s : key[j] < key[i] \/ (key[j] = key[i] /\ j < i)}
  IN [n \in DOMAIN s |-> s[CHOOSE i \in DOMAIN s : Cardinality(Earlier(i)) = n - 1]]
=============================================================================
