----------------------------- MODULE MCPayments -----------------------------
(* Two orders bought by one sender, one through each provider, priced for    *)
(* two files of size 1.                                                      *)
EXTENDS Payments, TLC

CONSTANTS o1, o2

TwoFiles  == [o \in Order |-> 2]
OneOfEach == (o1 :> "stripe") @@ (o2 :> "coinbase")
=============================================================================
