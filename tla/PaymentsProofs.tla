---------------------------- MODULE PaymentsProofs ----------------------------
(***************************************************************************)
(* Proofs about Payments, for any number of orders, uploads and requests,   *)
(* any prices and any number of faults.                                    *)
(***************************************************************************)
EXTENDS Payments, FiniteSetTheorems, TLAPS

\* What a request knows of its order, at each of its steps.
Placed(r) ==
  LET o == req[r].o IN
  /\ req[r].at # "idle" => o \in Order
  /\ req[r].at \in {"charging", "charged"} =>
       /\ order[o] = "absent"
       /\ \A q \in Request : q # r => req[q].o # o
  /\ req[r].at = "creating" =>
       order[o] = "paid" /\ req[r].u \in Upload /\ req[r].n \in Size

\* An order nobody was told of has no payment.
Unannounced == \A o \in Order : order[o] = "absent" => charge[o] \in {"none", "open"}

Completed(u) ==
  /\ upload[u].state = "absent" => upload[u].o = NoOrder
  /\ upload[u].state = "complete" => upload[u].terms = upload[u].o

\* The inductive invariant.  NothingUnpaid alone is not inductive: that no
\* answer of the provider overwrites a paid order, and that a row is written
\* only for an order that was paid, rests on the requests in flight.
IInv ==
  /\ TypeOK
  /\ NothingUnpaid
  /\ Unannounced
  /\ \A u \in Upload : Completed(u)
  /\ \A r \in Request : Placed(r)

-----------------------------------------------------------------------------
LEMMA IdleType == Idle \in RequestType
BY DEF Idle, RequestType

LEMMA InitIInv == Init => IInv
BY IdleType, NoneAssumption, BoundAssumption
DEF Init, IInv, TypeOK, NothingUnpaid, Settled, Admitted, Unannounced, Completed, Placed, Idle, Absent

-----------------------------------------------------------------------------
\* Steps that change no table of the gateway; requests end or stay.
LEMMA QuietStep ==
  ASSUME IInv, TypeOK', UNCHANGED <<order, charge, cookie, upload, folders>>,
         \A r \in Request : req'[r] \in {req[r], Idle}
  PROVE  IInv'
<1>1. NothingUnpaid' /\ Unannounced'
  BY DEF IInv, NothingUnpaid, Settled, Admitted, Unannounced
<1>2. ASSUME NEW u \in Upload PROVE Completed(u)'
  BY DEF IInv, Completed
<1>3. ASSUME NEW r \in Request PROVE Placed(r)'
  <2>1. CASE req'[r] = Idle
    BY <2>1 DEF Placed, Idle
  <2>2. CASE req'[r] = req[r]
    BY <2>2, NoneAssumption DEF IInv, Placed, Idle
  <2> QED BY <2>1, <2>2
<1> QED BY <1>1, <1>2, <1>3 DEF IInv

\* An order that was announced and settled becomes paid.
LEMMA PaidStep ==
  ASSUME IInv, NEW o \in Order, order[o] # "absent", Settled(o),
         order' = [order EXCEPT ![o] = "paid"], cookie' \in {cookie, o},
         UNCHANGED <<consumed, charge, upload, folders, faults>>,
         due' \in SUBSET Order,
         req' \in [Request -> RequestType],
         \A r \in Request : req'[r] \in {req[r], Idle}
  PROVE  IInv'
<1>1. TypeOK'
  BY DEF IInv, TypeOK
<1>2. NothingUnpaid'
  BY DEF IInv, TypeOK, NothingUnpaid, Settled, Admitted
<1>3. Unannounced'
  BY DEF IInv, TypeOK, Unannounced
<1>4. ASSUME NEW u \in Upload PROVE Completed(u)'
  BY DEF IInv, Completed
<1>5. ASSUME NEW r \in Request PROVE Placed(r)'
  <2>1. CASE req'[r] = Idle
    BY <2>1 DEF Placed, Idle
  <2>2. CASE req'[r] = req[r]
    BY <2>2, NoneAssumption DEF IInv, TypeOK, Placed, Idle
  <2> QED BY <2>1, <2>2
<1> QED BY <1>1, <1>2, <1>3, <1>4, <1>5 DEF IInv

-----------------------------------------------------------------------------
\* One step per action.
LEMMA StepIInv == IInv /\ [Next]_vars => IInv'
<1> SUFFICES ASSUME IInv, [Next]_vars PROVE IInv'
    OBVIOUS
<1>1. ASSUME NEW r \in Request, NEW o \in Order, CheckoutStart(r, o)
      PROVE  IInv'
  <2>1. TypeOK'
    BY <1>1 DEF CheckoutStart, IInv, TypeOK, RequestType, Idle
  <2>2. NothingUnpaid' /\ Unannounced'
    BY <1>1 DEF CheckoutStart, IInv, NothingUnpaid, Settled, Admitted, Unannounced
  <2>3. ASSUME NEW u \in Upload PROVE Completed(u)'
    BY <1>1 DEF CheckoutStart, IInv, Completed
  <2>4. ASSUME NEW q \in Request PROVE Placed(q)'
    BY <1>1 DEF CheckoutStart, IInv, TypeOK, Placed, Idle
  <2> QED BY <2>1, <2>2, <2>3, <2>4 DEF IInv
<1>2. ASSUME NEW r \in Request, OpenCharge(r)
      PROVE  IInv'
  <2>1. PICK o \in Order : o = req[r].o /\ order[o] = "absent"
    BY <1>2 DEF OpenCharge, At, IInv, Placed
  <2>2. charge' = [charge EXCEPT ![o] = "open"]
    BY <1>2, <2>1 DEF OpenCharge
  <2>3. TypeOK'
    BY <1>2, <2>1 DEF OpenCharge, Awaits, IInv, TypeOK, RequestType
  <2>4. NothingUnpaid' /\ Unannounced'
    BY <1>2, <2>1, <2>2 DEF OpenCharge, IInv, TypeOK, NothingUnpaid, Settled, Admitted, Unannounced
  <2>5. ASSUME NEW u \in Upload PROVE Completed(u)'
    BY <1>2 DEF OpenCharge, IInv, Completed
  <2>6. ASSUME NEW q \in Request PROVE Placed(q)'
    BY <1>2 DEF OpenCharge, At, Awaits, IInv, TypeOK, Placed
  <2> QED BY <2>3, <2>4, <2>5, <2>6 DEF IInv
<1>3. ASSUME NEW r \in Request, CreateOrder(r)
      PROVE  IInv'
  <2>1. PICK o \in Order : o = req[r].o /\ order[o] = "absent"
    BY <1>3 DEF CreateOrder, At, IInv, Placed
  <2>2. \A q \in Request : q # r => req[q].o # o
    BY <1>3, <2>1 DEF CreateOrder, At, IInv, Placed
  <2>3. order' = [order EXCEPT ![o] = "pending"]
    BY <1>3, <2>1 DEF CreateOrder
  <2>4. TypeOK'
    BY <1>3, <2>1, IdleType DEF CreateOrder, Answered, IInv, TypeOK
  <2>5. NothingUnpaid' /\ Unannounced'
    BY <1>3, <2>1, <2>3 DEF CreateOrder, IInv, TypeOK, NothingUnpaid, Settled, Admitted, Unannounced
  <2>6. ASSUME NEW u \in Upload PROVE Completed(u)'
    BY <1>3 DEF CreateOrder, IInv, Completed
  <2>7. ASSUME NEW q \in Request PROVE Placed(q)'
    BY <1>3, <2>2, <2>3, NoneAssumption
    DEF CreateOrder, Answered, IInv, TypeOK, Placed, Idle
  <2> QED BY <2>4, <2>5, <2>6, <2>7 DEF IInv
<1>4. ASSUME NEW o \in Order, Pay(o)
      PROVE  IInv'
  <2>1. PICK collected \in {"short", "full"} : charge' = [charge EXCEPT ![o] = collected]
    BY <1>4 DEF Pay
  <2>2. TypeOK'
    BY <1>4, <2>1 DEF Pay, IInv, TypeOK
  <2>3. NothingUnpaid' /\ Unannounced'
    BY <1>4, <2>1 DEF Pay, IInv, TypeOK, NothingUnpaid, Settled, Admitted, Unannounced
  <2>4. ASSUME NEW u \in Upload PROVE Completed(u)'
    BY <1>4 DEF Pay, IInv, Completed
  <2>5. ASSUME NEW q \in Request PROVE Placed(q)'
    BY <1>4 DEF Pay, IInv, Placed
  <2> QED BY <2>2, <2>3, <2>4, <2>5 DEF IInv
<1>5. ASSUME NEW o \in Order, Webhook(o)
      PROVE  IInv'
  <2> PICK report \in Reports(o) :
        order' = IF order[o] # "absent" /\ Covers(report)
                 THEN [order EXCEPT ![o] = "paid"] ELSE order
    BY <1>5 DEF Webhook
  <2>1. CASE order[o] # "absent" /\ Covers(report)
    <3>1. Settled(o)
      BY <2>1 DEF Reports, Covers, Settled
    <3> QED BY <1>5, <2>1, <3>1, PaidStep DEF Webhook, IInv, TypeOK
  <2>2. CASE ~(order[o] # "absent" /\ Covers(report))
    <3>1. UNCHANGED order /\ due' \in SUBSET Order
      BY <1>5, <2>2 DEF Webhook, IInv, TypeOK
    <3>2. TypeOK'
      BY <1>5, <3>1 DEF Webhook, IInv, TypeOK
    <3> QED BY <1>5, <3>1, <3>2, QuietStep DEF Webhook
  <2> QED BY <2>1, <2>2
<1>6. ASSUME NEW r \in Request, NEW o \in Order, SessionStart(r, o)
      PROVE  IInv'
  <2>1. TypeOK'
    <3>1. [Idle EXCEPT !.at = "looking", !.o = o] \in RequestType
      BY DEF RequestType, Idle
    <3>2. CASE cookie' = o /\ UNCHANGED req
      BY <1>6, <3>2 DEF SessionStart, IInv, TypeOK
    <3>3. CASE /\ req' = [req EXCEPT ![r] = [Idle EXCEPT !.at = "looking", !.o = o]]
               /\ UNCHANGED cookie
      BY <1>6, <3>1, <3>3 DEF SessionStart, IInv, TypeOK
    <3> QED BY <1>6, <3>2, <3>3 DEF SessionStart
  <2>2. NothingUnpaid' /\ Unannounced'
    BY <1>6 DEF SessionStart, IInv, NothingUnpaid, Settled, Admitted, Unannounced
  <2>3. ASSUME NEW u \in Upload PROVE Completed(u)'
    BY <1>6 DEF SessionStart, IInv, Completed
  <2>4. ASSUME NEW q \in Request PROVE Placed(q)'
    <3>1. Placed(q) /\ order[o] # "absent" /\ UNCHANGED order
      BY <1>6 DEF SessionStart, IInv
    <3>2. CASE UNCHANGED req
      BY <3>1, <3>2 DEF Placed
    <3>3. CASE req' = [req EXCEPT ![r] = [Idle EXCEPT !.at = "looking", !.o = o]]
      BY <3>1, <3>3 DEF IInv, TypeOK, Placed, Idle
    <3> QED BY <1>6, <3>2, <3>3 DEF SessionStart
  <2> QED BY <2>1, <2>2, <2>3, <2>4 DEF IInv
<1>7. ASSUME NEW r \in Request, SessionFinish(r)
      PROVE  IInv'
  <2>1. PICK o \in Order : o = req[r].o
    BY <1>7 DEF SessionFinish, At, IInv, Placed
  <2>2. req' \in [Request -> RequestType] /\ \A q \in Request : req'[q] \in {req[q], Idle}
    BY <1>7, IdleType DEF SessionFinish, Answered, IInv, TypeOK
  <2>3. CASE (\E report \in Reports(o) : SeenPaid(report)) /\ order' = [order EXCEPT ![o] = "paid"] /\ cookie' = o
    <3>1. Settled(o) /\ order[o] # "absent"
      BY <2>3 DEF SeenPaid, Reports, Settled, IInv, Unannounced
    <3>2. due' \in SUBSET Order
      BY <1>7 DEF SessionFinish, IInv, TypeOK
    <3> QED BY <1>7, <2>2, <2>3, <3>1, <3>2, PaidStep DEF SessionFinish
  <2>4. CASE UNCHANGED <<order, cookie>>
    <3>1. TypeOK'
      BY <1>7, <2>2, <2>4 DEF SessionFinish, IInv, TypeOK
    <3> QED BY <1>7, <2>2, <2>4, <3>1, QuietStep DEF SessionFinish
  <2> QED BY <1>7, <2>1, <2>3, <2>4 DEF SessionFinish
<1>8. ASSUME NEW r \in Request, NEW u \in Upload, NEW n \in Size, InitiateStart(r, u, n)
      PROVE  IInv'
  <2>1. PICK o \in Order :
          /\ Authorised(o)
          /\ Reserve(o, n)
          /\ req' = [req EXCEPT ![r] = [at |-> "creating", o |-> o, u |-> u, n |-> n]]
    BY <1>8 DEF InitiateStart
  <2>2. TypeOK'
    BY <1>8, <2>1, SizeAssumption
    DEF InitiateStart, Reserve, IInv, TypeOK, RequestType
  <2>3. NothingUnpaid' /\ Unannounced'
    BY <1>8 DEF InitiateStart, IInv, NothingUnpaid, Settled, Admitted, Unannounced
  <2>4. ASSUME NEW v \in Upload PROVE Completed(v)'
    BY <1>8 DEF InitiateStart, IInv, Completed
  <2>5. ASSUME NEW q \in Request PROVE Placed(q)'
    BY <1>8, <2>1 DEF InitiateStart, Authorised, IInv, TypeOK, Placed
  <2> QED BY <2>2, <2>3, <2>4, <2>5 DEF IInv
<1>9. ASSUME NEW r \in Request, InitiateRow(r)
      PROVE  IInv'
  <2>1. PICK o \in Order, u \in Upload, n \in Size :
          o = req[r].o /\ u = req[r].u /\ n = req[r].n /\ order[o] = "paid"
    BY <1>9 DEF InitiateRow, At, IInv, Placed
  <2>2. upload' = [upload EXCEPT ![u] = [state |-> "active", o |-> o, n |-> n, terms |-> NoOrder]]
    BY <1>9, <2>1 DEF InitiateRow
  <2>3. TypeOK'
    BY <1>9, <2>1, <2>2, IdleType DEF InitiateRow, Answered, IInv, TypeOK
  <2>4. NothingUnpaid' /\ Unannounced'
    BY <1>9, <2>1, <2>2 DEF InitiateRow, IInv, TypeOK, NothingUnpaid, Settled, Admitted, Unannounced
  <2>5. ASSUME NEW v \in Upload PROVE Completed(v)'
    BY <1>9, <2>2 DEF InitiateRow, IInv, TypeOK, Completed
  <2>6. ASSUME NEW q \in Request PROVE Placed(q)'
    BY <1>9, NoneAssumption DEF InitiateRow, Answered, IInv, TypeOK, Placed, Idle
  <2> QED BY <2>3, <2>4, <2>5, <2>6 DEF IInv
<1>10. ASSUME NEW n \in Size, CreateFolder(n)
       PROVE  IInv'
  <2>1. PICK o \in Order :
          Authorised(o) /\ Reserve(o, n) /\ folders' = [folders EXCEPT ![o] = @ + n]
    BY <1>10 DEF CreateFolder
  <2>2. TypeOK'
    BY <1>10, <2>1, SizeAssumption DEF CreateFolder, Reserve, IInv, TypeOK
  <2>3. NothingUnpaid' /\ Unannounced'
    BY <1>10, <2>1 DEF CreateFolder, Authorised, IInv, TypeOK, NothingUnpaid, Settled, Admitted, Unannounced
  <2>4. ASSUME NEW u \in Upload PROVE Completed(u)'
    BY <1>10 DEF CreateFolder, IInv, Completed
  <2>5. ASSUME NEW q \in Request PROVE Placed(q)'
    BY <1>10 DEF CreateFolder, IInv, Placed
  <2> QED BY <2>2, <2>3, <2>4, <2>5 DEF IInv
<1>11. ASSUME NEW u \in Upload, Complete(u)
       PROVE  IInv'
  <2>1. cookie \in Order /\ upload[u].o = cookie /\ order[cookie] = "paid"
    BY <1>11 DEF Complete, MayUse, Authorised
  <2>2. TypeOK'
    <3>1. PICK w : w = [upload[u] EXCEPT !.state = "complete", !.terms = cookie]
      OBVIOUS
    <3>2. upload' = [upload EXCEPT ![u] = w]
      BY <1>11, <3>1 DEF Complete
    <3>3. upload[u] \in [state : {"absent", "active", "complete"},
                         o : Order \union {NoOrder}, n : Size \union {0},
                         terms : Order \union {NoOrder}]
      BY DEF IInv, TypeOK
    <3>4. w \in [state : {"absent", "active", "complete"},
                 o : Order \union {NoOrder}, n : Size \union {0},
                 terms : Order \union {NoOrder}]
      BY <2>1, <3>1, <3>3
    <3>5. upload' \in [Upload -> [state : {"absent", "active", "complete"},
                                  o : Order \union {NoOrder}, n : Size \union {0},
                                  terms : Order \union {NoOrder}]]
      BY <3>2, <3>4 DEF IInv, TypeOK
    <3> QED BY <1>11, <3>5 DEF Complete, IInv, TypeOK
  <2>3. \A v \in Upload : upload'[v].o = upload[v].o
    BY <1>11 DEF Complete, IInv, TypeOK
  <2>4. NothingUnpaid' /\ Unannounced'
    BY <1>11, <2>3 DEF Complete, IInv, NothingUnpaid, Settled, Admitted, Unannounced
  <2>5. ASSUME NEW v \in Upload PROVE Completed(v)'
    BY <1>11, <2>1 DEF Complete, IInv, TypeOK, Completed
  <2>6. ASSUME NEW q \in Request PROVE Placed(q)'
    BY <1>11 DEF Complete, IInv, Placed
  <2> QED BY <2>2, <2>4, <2>5, <2>6 DEF IInv
<1>12. ASSUME NEW r \in Request, Fail(r)
       PROVE  IInv'
  <2>1. TypeOK'
    BY <1>12, IdleType, BoundAssumption DEF Fail, Answered, IInv, TypeOK
  <2> QED BY <1>12, <2>1, QuietStep DEF Fail, Answered, IInv, TypeOK
<1>13. CASE Crash
  <2>1. TypeOK'
    BY <1>13, IdleType, BoundAssumption DEF Crash, IInv, TypeOK
  <2> QED BY <1>13, <2>1, QuietStep DEF Crash
<1>14. ASSUME NEW n \in Size, CrashAfterReserve(n)
       PROVE  IInv'
  <2>1. PICK o \in Order : Reserve(o, n)
    BY <1>14 DEF CrashAfterReserve
  <2>2. TypeOK'
    BY <1>14, <2>1, IdleType, BoundAssumption, SizeAssumption
    DEF CrashAfterReserve, Reserve, IInv, TypeOK
  <2> QED BY <1>14, <2>2, QuietStep DEF CrashAfterReserve
<1>16. ASSUME NEW o \in Order, Resolve(o)
       PROVE  IInv'
  <2>1. TypeOK'
    BY <1>16 DEF Resolve, IInv, TypeOK
  <2>2. NothingUnpaid' /\ Unannounced'
    BY <1>16 DEF Resolve, IInv, TypeOK, NothingUnpaid, Settled, Admitted, Unannounced
  <2>3. ASSUME NEW u \in Upload PROVE Completed(u)'
    BY <1>16 DEF Resolve, IInv, Completed
  <2>4. ASSUME NEW q \in Request PROVE Placed(q)'
    BY <1>16 DEF Resolve, IInv, Placed
  <2> QED BY <2>1, <2>2, <2>3, <2>4 DEF IInv
<1>15. CASE UNCHANGED vars
  <2>1. TypeOK'
    BY <1>15 DEF vars, IInv, TypeOK
  <2> QED BY <1>15, <2>1, QuietStep DEF vars
<1> QED
  BY <1>1, <1>2, <1>3, <1>4, <1>5, <1>6, <1>7, <1>8, <1>9, <1>10, <1>11, <1>12,
     <1>13, <1>14, <1>15, <1>16
  DEF Next, RequestStep

LEMMA Invariant == Spec => []IInv
BY InitIInv, StepIInv, PTL DEF Spec

-----------------------------------------------------------------------------
\* Orders, charges, the session cookie and the requests keep their types.
THEOREM TypeCorrect == Spec => []TypeOK
<1>1. IInv => TypeOK
  BY DEF IInv
<1> QED BY <1>1, Invariant, PTL

\* Nothing is authorised for an order that Stripe or Coinbase did not receive
\* in full and the merchant did not resolve (applyPaymentEvent, the session
\* route, requireSession, consumeOrderBudget).
THEOREM NothingUnpaidEver == Spec => []NothingUnpaid
<1>1. IInv => NothingUnpaid
  BY DEF IInv
<1> QED BY <1>1, Invariant, PTL

\* A completed upload carries the terms of the order it was charged to
\* (mayUseUpload, linkTermsFor).
THEOREM TermsFollowOrder == Spec => []TermsOfItsOrder
<1>1. IInv => TermsOfItsOrder
  BY DEF IInv, Completed, TermsOfItsOrder
<1> QED BY <1>1, Invariant, PTL
-----------------------------------------------------------------------------
(* The budget.  A sum is the number of its units: MapThenSumSet is defined *)
(* by recursion over the subsets of a finite set, which are well-founded.  *)

Units(f, S) == UNION {{x} \X (1..f[x].n) : x \in S}

LEMMA UnitsCounted ==
  ASSUME NEW f, NEW S, IsFiniteSet(S), \A x \in S : f[x].n \in Nat
  PROVE  IsFiniteSet(Units(f, S)) /\ Cardinality(Units(f, S)) \in Nat
<1>1. ASSUME NEW x \in S PROVE IsFiniteSet({x} \X (1..f[x].n))
  <2>1. IsFiniteSet({x})
    BY FS_Singleton
  <2>2. IsFiniteSet(1..f[x].n)
    BY FS_Interval
  <2> QED BY <2>1, <2>2, FS_Product
<1>2. IsFiniteSet({{x} \X (1..f[x].n) : x \in S})
  <2> DEFINE G == [x \in S |-> {x} \X (1..f[x].n)]
             T == {{x} \X (1..f[x].n) : x \in S}
  <2>1. G \in Surjection(S, T)
    BY DEF Surjection
  <2> QED BY <2>1, FS_Surjection
<1>3. IsFiniteSet(Units(f, S))
  BY <1>1, <1>2, FS_UNION DEF Units
<1> QED BY <1>3, FS_CardinalityType

LEMMA UnitsAdd ==
  ASSUME NEW f, NEW S, IsFiniteSet(S), NEW x, x \notin S,
         \A y \in S \union {x} : f[y].n \in Nat
  PROVE  Cardinality(Units(f, S \union {x})) = f[x].n + Cardinality(Units(f, S))
<1> DEFINE One == {x} \X (1..f[x].n)
<1>1. Units(f, S \union {x}) = One \union Units(f, S)
  BY DEF Units
<1>2. One \cap Units(f, S) = {}
  BY DEF Units
<1>3. IsFiniteSet(One) /\ Cardinality(One) = f[x].n
  <2>1. IsFiniteSet({x}) /\ Cardinality({x}) = 1
    BY FS_Singleton
  <2>2. IsFiniteSet(1..f[x].n) /\ Cardinality(1..f[x].n) = f[x].n
    <3>1. PICK n \in Nat : n = f[x].n
      OBVIOUS
    <3>2. IsFiniteSet(1..n) /\ Cardinality(1..n) = IF 1 > n THEN 0 ELSE n - 1 + 1
      BY FS_Interval
    <3> QED BY <3>1, <3>2
  <2>3. IsFiniteSet(One) /\ Cardinality(One) = 1 * f[x].n
    BY <2>1, <2>2, FS_Product
  <2> QED BY <2>3
<1>4. IsFiniteSet(Units(f, S)) /\ Cardinality(Units(f, S)) \in Nat
  BY UnitsCounted
<1>5. Cardinality(One \union Units(f, S)) =
        Cardinality(One) + Cardinality(Units(f, S)) - Cardinality(One \cap Units(f, S))
  BY <1>3, <1>4, FS_Union
<1>6. Cardinality({}) = 0 /\ f[x].n \in Nat
  BY FS_EmptySet
<1> HIDE DEF One
<1>7. Cardinality(One \union Units(f, S)) = f[x].n + Cardinality(Units(f, S)) - 0
  BY <1>2, <1>3, <1>5, <1>6
<1>8. ASSUME NEW c \in Nat, NEW k \in Nat PROVE k + c - 0 = k + c
  OBVIOUS
<1> QED BY <1>1, <1>4, <1>6, <1>7, <1>8

\* Of the subsets of a finite set that share a quality some are least.
LEMMA LeastSubset ==
  ASSUME NEW X, IsFiniteSet(X), NEW Bad \in SUBSET SUBSET X, Bad # {}
  PROVE  \E s \in Bad : \A t \in Bad : ~(t \subseteq s /\ t # s)
<1> DEFINE R == StrictSubsetOrdering(X)
<1>1. IsWellFoundedOn(R, SUBSET X)
  BY FS_FiniteSubsetsOfFinite, FS_StrictSubsetOrderingWellFounded
<1>2. \A s, t \in SUBSET X : t \subseteq s /\ t # s => <<t, s>> \in R
  BY DEF StrictSubsetOrdering
<1> HIDE DEF R
<1>3. PICK s \in Bad : \A t \in Bad : ~(<<t, s>> \in R)
  BY <1>1, WFMin
<1> QED BY <1>2, <1>3

LEMMA BytesAreUnits ==
  ASSUME NEW f, NEW X, IsFiniteSet(X), \A x \in X : f[x].n \in Nat
  PROVE  Bytes(f, X) = Cardinality(Units(f, X))
<1> DEFINE Pick(s) == CHOOSE x \in s : TRUE
           Step(g) == [s \in SUBSET X |-> IF s = {} THEN 0
                                          ELSE f[Pick(s)].n + g[s \ {Pick(s)}]]
           sum == CHOOSE g : g = Step(g)
           count == [s \in SUBSET X |-> Cardinality(Units(f, s))]
<1>1. Bytes(f, X) = sum[X]
  BY DEF Bytes, MapThenSumSet, MapThenFoldSet
<1>2. count = Step(count)
  <2>1. ASSUME NEW s \in SUBSET X, s # {}
        PROVE  count[s] = f[Pick(s)].n + count[s \ {Pick(s)}]
    <3>1. Pick(s) \in s
      BY <2>1
    <3> HIDE DEF Pick
    <3>2. IsFiniteSet(s \ {Pick(s)})
      BY FS_Subset
    <3>3. s = (s \ {Pick(s)}) \union {Pick(s)}
      BY <3>1
    <3> QED BY <3>1, <3>2, <3>3, UnitsAdd
  <2>2. count[{}] = 0
    BY FS_EmptySet DEF Units
  <2> QED BY <2>1, <2>2
<1>3. sum = Step(sum)
  BY <1>2
<1>4. \A s \in SUBSET X : sum[s] = count[s]
  <2> DEFINE Bad == {s \in SUBSET X : sum[s] # count[s]}
  <2> SUFFICES ASSUME Bad # {} PROVE FALSE
      OBVIOUS
  <2>1. Bad \in SUBSET SUBSET X
    OBVIOUS
  <2> HIDE DEF Bad
  <2>2. PICK s \in Bad : \A t \in Bad : ~(t \subseteq s /\ t # s)
    BY <2>1, LeastSubset
  <2> HIDE DEF sum, count
  <2>3. s # {}
    <3>1. sum[{}] = 0 /\ count[{}] = 0
      BY <1>2, <1>3
    <3> QED BY <2>2, <3>1 DEF Bad
  <2>4. Pick(s) \in s
    BY <2>3
  <2>5. s \ {Pick(s)} \notin Bad
    BY <2>2, <2>4
  <2>6. s \in SUBSET X /\ sum[s \ {Pick(s)}] = count[s \ {Pick(s)}]
    BY <2>5 DEF Bad
  <2> HIDE DEF Pick
  <2>7. sum[s] = f[Pick(s)].n + sum[s \ {Pick(s)}]
    BY <1>3, <2>3, <2>6
  <2>8. count[s] = f[Pick(s)].n + count[s \ {Pick(s)}]
    BY <1>2, <2>3, <2>6
  <2> QED BY <2>2, <2>6, <2>7, <2>8 DEF Bad
<1> QED BY <1>1, <1>4

-----------------------------------------------------------------------------
\* What an order is charged for, unit by unit: its uploads and the initiates
\* that wait for the store.
Stored(o) == Units(upload, Admitted(o))
Awaited(o) == Units(req, Starting(o))

\* The account of one order: what was admitted, awaited or foldered under it
\* has been consumed, and what is consumed was paid for.
Account(o) ==
  /\ Cardinality(Stored(o)) + Cardinality(Awaited(o)) + folders[o] <= consumed[o]
  /\ consumed[o] <= Priced[o]

\* An initiate that waits for the store holds an id nobody else has.
Held(r) ==
  At(r, "creating") =>
    /\ upload[req[r].u] = Absent
    /\ \A q \in Request : q # r => req[q].u # req[r].u

\* The strengthening of WithinBudget: what is admitted is compared with the
\* consumed bytes, which the guarded UPDATE keeps below the price, and a row
\* takes over exactly what its initiate reserved.
Budgeted ==
  /\ \A o \in Order : Account(o)
  /\ \A r \in Request : Held(r)

LEMMA Sizes ==
  ASSUME TypeOK
  PROVE  /\ \A u \in Upload : upload[u].n \in Nat
         /\ \A r \in Request : req[r].n \in Nat
<1>1. Size \union {0} \subseteq Nat
  BY SizeAssumption
<1>2. /\ \A u \in Upload : upload[u].n \in Size \union {0}
      /\ \A r \in Request : req[r].n \in Size \union {0}
  BY DEF TypeOK, RequestType
<1> QED BY <1>1, <1>2

LEMMA Finite ==
  ASSUME TypeOK, NEW o
  PROVE  /\ IsFiniteSet(Admitted(o)) /\ IsFiniteSet(Starting(o))
         /\ IsFiniteSet(Stored(o)) /\ Cardinality(Stored(o)) \in Nat
         /\ IsFiniteSet(Awaited(o)) /\ Cardinality(Awaited(o)) \in Nat
<1>1. IsFiniteSet(Admitted(o)) /\ IsFiniteSet(Starting(o))
  <2>1. Admitted(o) \in SUBSET Upload /\ Starting(o) \in SUBSET Request
    BY DEF Admitted, Starting
  <2> QED BY <2>1, FiniteAssumption, FS_Subset
<1>2. /\ \A u \in Admitted(o) : upload[u].n \in Nat
      /\ \A r \in Starting(o) : req[r].n \in Nat
  BY Sizes DEF Admitted, Starting
<1> QED BY <1>1, <1>2, UnitsCounted DEF Stored, Awaited

\* The sums fit what was paid for when the account does.
LEMMA AccountSums ==
  ASSUME TypeOK, \A o \in Order : Account(o)
  PROVE  WithinBudget
<1> SUFFICES ASSUME NEW o \in Order
             PROVE  Bytes(upload, Admitted(o)) + Bytes(req, Starting(o)) + folders[o] <= Priced[o]
    BY DEF WithinBudget
<1>1. /\ \A u \in Admitted(o) : upload[u].n \in Nat
      /\ \A r \in Starting(o) : req[r].n \in Nat
  BY Sizes DEF Admitted, Starting
<1>2. /\ Bytes(upload, Admitted(o)) = Cardinality(Stored(o))
      /\ Bytes(req, Starting(o)) = Cardinality(Awaited(o))
  BY <1>1, Finite, BytesAreUnits DEF Stored, Awaited
<1>3. consumed[o] \in Nat /\ folders[o] \in Nat /\ Priced[o] \in Nat
  BY PricedAssumption, SizeAssumption DEF TypeOK
<1> QED BY <1>2, <1>3, Finite DEF Account

\* A step that admits nothing: no unit is added and nothing is consumed back.
LEMMA AccountKept ==
  ASSUME TypeOK, NEW o \in Order, Account(o),
         Stored(o)' \subseteq Stored(o), Awaited(o)' \subseteq Awaited(o),
         folders'[o] = folders[o], consumed'[o] = consumed[o]
  PROVE  Account(o)'
<1>1. /\ Cardinality(Stored(o)') <= Cardinality(Stored(o)) /\ Cardinality(Stored(o)') \in Nat
      /\ Cardinality(Awaited(o)') <= Cardinality(Awaited(o)) /\ Cardinality(Awaited(o)') \in Nat
  BY Finite, FS_Subset, FS_CardinalityType
<1>2. consumed[o] \in Nat /\ folders[o] \in Nat /\ Priced[o] \in Nat
  BY PricedAssumption, SizeAssumption DEF TypeOK
<1> QED BY <1>1, <1>2, Finite DEF Account

\* A step that reserves n bytes for an order and puts them in one place.
LEMMA AccountReserved ==
  ASSUME TypeOK, NEW o \in Order, Account(o), NEW n \in Size, Reserve(o, n),
         Cardinality(Stored(o)') = Cardinality(Stored(o)),
         Cardinality(Awaited(o)') \in Nat, folders'[o] \in Nat,
         Cardinality(Awaited(o)') + folders'[o] <= Cardinality(Awaited(o)) + folders[o] + n
  PROVE  Account(o)'
<1>1. consumed'[o] = consumed[o] + n /\ consumed[o] + n <= Priced[o]
  BY DEF Reserve, TypeOK
<1>2. consumed[o] \in Nat /\ folders[o] \in Nat /\ Priced[o] \in Nat /\ n \in Nat
  BY PricedAssumption, SizeAssumption DEF TypeOK
<1> QED BY <1>1, <1>2, Finite DEF Account

\* A reservation of another order.
LEMMA OthersReserve ==
  ASSUME TypeOK, NEW o \in Order, NEW p \in Order, p # o, NEW n, Reserve(p, n)
  PROVE  consumed'[o] = consumed[o]
BY DEF Reserve, TypeOK

\* Requests that move on without entering or leaving the wait for the store.
LEMMA AwaitedKept ==
  ASSUME NEW o, \A r \in Request : req'[r] = req[r] \/ req'[r].at # "creating"
  PROVE  Awaited(o)' \subseteq Awaited(o)
BY DEF Awaited, Units, Starting, At

\* Steps that leave the tables of uploads and folders and the account alone.
LEMMA QuietBudget ==
  ASSUME TypeOK, Budgeted, UNCHANGED <<upload, folders, consumed>>,
         \A r \in Request :
           \/ req'[r] = req[r]
           \/ req'[r].at # "creating" /\ req'[r].u \in {req[r].u, NoUpload},
         \A r \in Request : At(r, "creating") => req[r].u \in Upload
  PROVE  Budgeted'
<1>1. ASSUME NEW o \in Order PROVE Account(o)'
  <2>1. Awaited(o)' \subseteq Awaited(o)
    BY AwaitedKept
  <2>2. Stored(o)' = Stored(o)
    BY DEF Stored, Units, Admitted
  <2> QED BY <2>1, <2>2, AccountKept DEF Budgeted
<1>2. ASSUME NEW r \in Request PROVE Held(r)'
  <2>1. CASE req'[r] = req[r]
    <3>1. SUFFICES ASSUME At(r, "creating")
                   PROVE  \A q \in Request : q # r => req'[q].u # req[r].u
      BY <2>1 DEF Budgeted, Held, At
    <3> QED BY <2>1, <3>1, NoneAssumption DEF Budgeted, Held
  <2>2. CASE req'[r].at # "creating"
    BY <2>2 DEF Held, At
  <2> QED BY <2>1, <2>2
<1> QED BY <1>1, <1>2 DEF Budgeted

LEMMA InitBudgeted == Init => Budgeted
<1> SUFFICES ASSUME Init PROVE Budgeted
    OBVIOUS
<1>1. ASSUME NEW o \in Order PROVE Account(o)
  <2>1. Admitted(o) = {} /\ Starting(o) = {}
    BY NoneAssumption DEF Init, Admitted, Absent, Starting, At, Idle
  <2>2. Stored(o) = {} /\ Awaited(o) = {}
    BY <2>1 DEF Stored, Awaited, Units
  <2>3. Priced[o] \in Nat
    BY PricedAssumption, SizeAssumption
  <2> QED BY <2>2, <2>3, FS_EmptySet DEF Init, Account
<1>2. ASSUME NEW r \in Request PROVE Held(r)
  BY DEF Init, Held, At, Idle
<1> QED BY <1>1, <1>2 DEF Budgeted

LEMMA StartBudget ==
  ASSUME IInv, Budgeted, NEW r \in Request, NEW u \in Upload, NEW n \in Size,
         InitiateStart(r, u, n)
  PROVE  Budgeted'
<1>1. PICK p \in Order :
        /\ Reserve(p, n)
        /\ req' = [req EXCEPT ![r] = [at |-> "creating", o |-> p, u |-> u, n |-> n]]
  BY DEF InitiateStart
<1>2. /\ req[r] = Idle /\ upload[u] = Absent /\ \A q \in Request : req[q].u # u
      /\ UNCHANGED <<upload, folders>> /\ TypeOK
  BY DEF InitiateStart, IInv
<1>3. ASSUME NEW o \in Order PROVE Account(o)'
  <2>1. Stored(o)' = Stored(o)
    BY <1>2 DEF Stored, Units, Admitted
  <2>2. CASE o # p
    <3>1. Awaited(o)' \subseteq Awaited(o)
      BY <1>1, <1>2, <2>2 DEF Awaited, Units, Starting, At, TypeOK
    <3> QED BY <1>1, <1>2, <2>1, <2>2, <3>1, AccountKept, OthersReserve DEF Budgeted
  <2>3. CASE o = p
    <3>1. r \notin Starting(o) /\ Starting(o)' = Starting(o) \union {r}
      BY <1>1, <1>2, <2>3 DEF Starting, At, Idle, TypeOK
    <3>2. req'[r].n = n /\ \A q \in Starting(o) : req'[q] = req[q]
      BY <1>1, <1>2, <3>1 DEF TypeOK, Starting
    <3>3. Awaited(o) = Units(req', Starting(o))
      BY <3>2 DEF Awaited, Units
    <3>4. \A q \in Starting(o) \union {r} : req'[q].n \in Nat
      <4>1. n \in Nat
        BY SizeAssumption
      <4> QED BY <1>2, <3>2, <4>1, Sizes DEF Starting
    <3>5. Cardinality(Awaited(o)') = n + Cardinality(Awaited(o))
      <4>1. Cardinality(Units(req', Starting(o) \union {r}))
              = req'[r].n + Cardinality(Units(req', Starting(o)))
        BY <1>2, <3>1, <3>4, Finite, UnitsAdd
      <4> QED BY <3>1, <3>2, <3>3, <4>1 DEF Awaited
    <3>6. Cardinality(Awaited(o)) \in Nat /\ n \in Nat /\ folders[o] \in Nat
      BY <1>2, Finite, SizeAssumption DEF TypeOK
    <3> QED BY <1>1, <1>2, <2>1, <2>3, <3>5, <3>6, AccountReserved DEF Budgeted
  <2> QED BY <2>2, <2>3
<1>4. ASSUME NEW q \in Request PROVE Held(q)'
  <2>1. CASE q = r
    BY <1>1, <1>2, <2>1 DEF Held, TypeOK
  <2>2. CASE q # r
    BY <1>1, <1>2, <2>2 DEF Budgeted, Held, At, TypeOK
  <2> QED BY <2>1, <2>2
<1> QED BY <1>3, <1>4 DEF Budgeted

LEMMA RowBudget ==
  ASSUME IInv, Budgeted, NEW r \in Request, InitiateRow(r)
  PROVE  Budgeted'
<1>1. PICK p \in Order, u \in Upload, n \in Size :
        p = req[r].o /\ u = req[r].u /\ n = req[r].n
  BY DEF InitiateRow, At, IInv, Placed
<1>2. /\ upload' = [upload EXCEPT ![u] = [state |-> "active", o |-> p, n |-> n, terms |-> NoOrder]]
      /\ req' = [req EXCEPT ![r] = Idle]
      /\ At(r, "creating") /\ UNCHANGED <<consumed, folders>>
  BY <1>1 DEF InitiateRow, Answered
<1>3. /\ upload[u] = Absent /\ \A q \in Request : q # r => req[q].u # u
      /\ TypeOK /\ n \in Nat
  BY <1>1, <1>2, SizeAssumption DEF Budgeted, Held, IInv
<1>4. ASSUME NEW o \in Order PROVE Account(o)'
  <2>1. Admitted(o)' = IF o = p THEN Admitted(o) \union {u} ELSE Admitted(o)
    BY <1>2, <1>3, NoneAssumption DEF Admitted, Absent, TypeOK
  <2>2. u \notin Admitted(o)
    BY <1>3, NoneAssumption DEF Admitted, Absent
  <2>3. \A v \in Admitted(o) : upload'[v] = upload[v]
    BY <1>2, <2>2
  <2>4. Stored(o) = Units(upload', Admitted(o))
    BY <2>3 DEF Stored, Units
  <2>5. Starting(o)' = Starting(o) \ {r} /\ \A q \in Starting(o) \ {r} : req'[q] = req[q]
    BY <1>2, <1>3 DEF Starting, At, Idle, TypeOK
  <2>6. Awaited(o)' = Units(req, Starting(o) \ {r})
    BY <2>5 DEF Awaited, Units
  <2>7. CASE o # p
    <3>1. Stored(o)' = Stored(o) /\ Awaited(o)' \subseteq Awaited(o)
      BY <2>1, <2>4, <2>6, <2>7 DEF Stored, Awaited, Units
    <3> QED BY <1>2, <1>3, <3>1, AccountKept DEF Budgeted
  <2>8. CASE o = p
    <3>1. Cardinality(Stored(o)') = n + Cardinality(Stored(o))
      <4>1. upload'[u].n = n
        BY <1>2, <1>3 DEF TypeOK
      <4>2. \A v \in Admitted(o) \union {u} : upload'[v].n \in Nat
        BY <1>3, <2>3, <4>1, Sizes DEF Admitted
      <4>3. Cardinality(Units(upload', Admitted(o) \union {u}))
              = upload'[u].n + Cardinality(Units(upload', Admitted(o)))
        BY <1>3, <2>2, <4>2, Finite, UnitsAdd
      <4> QED BY <2>1, <2>4, <2>8, <4>1, <4>3 DEF Stored
    <3>2. /\ IsFiniteSet(Starting(o) \ {r}) /\ Cardinality(Awaited(o)') \in Nat
          /\ Cardinality(Awaited(o)) = n + Cardinality(Awaited(o)')
      <4>1. /\ r \in Starting(o) /\ Starting(o) = (Starting(o) \ {r}) \union {r}
        BY <1>1, <1>2, <2>8 DEF Starting
      <4>2. IsFiniteSet(Starting(o) \ {r})
        BY <1>3, Finite, FS_RemoveElement
      <4>3. \A q \in Starting(o) : req[q].n \in Nat
        BY <1>3, Sizes DEF Starting
      <4>4. Cardinality(Units(req, (Starting(o) \ {r}) \union {r}))
              = req[r].n + Cardinality(Units(req, Starting(o) \ {r}))
        BY <4>1, <4>2, <4>3, UnitsAdd
      <4>5. Cardinality(Units(req, Starting(o) \ {r})) \in Nat
        BY <4>2, <4>3, UnitsCounted
      <4> QED BY <1>1, <2>6, <4>1, <4>2, <4>4, <4>5 DEF Awaited
    <3>3. consumed[o] \in Nat /\ folders[o] \in Nat /\ Priced[o] \in Nat
      BY <1>3, PricedAssumption, SizeAssumption DEF TypeOK
    <3>4. Account(o) /\ Cardinality(Stored(o)) \in Nat
      BY <1>3, Finite DEF Budgeted
    <3> QED BY <1>2, <1>3, <3>1, <3>2, <3>3, <3>4 DEF Account
  <2> QED BY <2>7, <2>8
<1>5. ASSUME NEW q \in Request PROVE Held(q)'
  <2>1. CASE q = r
    BY <1>2, <1>3, <2>1 DEF Held, At, Idle, TypeOK
  <2>2. CASE q # r
    <3>1. SUFFICES ASSUME At(q, "creating")
                   PROVE  /\ upload'[req[q].u] = Absent
                          /\ \A k \in Request : k # q => req'[k].u # req[q].u
      BY <1>2, <1>3, <2>2 DEF Held, At, TypeOK
    <3>2. req[q].u # u /\ req[q].u \in Upload
      BY <1>3, <2>2, <3>1 DEF IInv, Placed, At
    <3> QED BY <1>2, <1>3, <3>1, <3>2, NoneAssumption DEF Budgeted, Held, Idle, TypeOK
  <2> QED BY <2>1, <2>2
<1> QED BY <1>4, <1>5 DEF Budgeted

\* A reservation that is not for an upload: a folder's, or one lost in a crash.
LEMMA FolderBudget ==
  ASSUME IInv, Budgeted, NEW n \in Size, NEW p \in Order, Reserve(p, n), UNCHANGED upload,
         folders' = folders \/ folders' = [folders EXCEPT ![p] = @ + n],
         \A r \in Request : req'[r] \in {req[r], Idle}
  PROVE  Budgeted'
<1>1. TypeOK /\ n \in Nat
  BY SizeAssumption DEF IInv
<1>2. ASSUME NEW o \in Order PROVE Account(o)'
  <2>1. Stored(o)' = Stored(o)
    BY DEF Stored, Units, Admitted
  <2>2. Awaited(o)' \subseteq Awaited(o)
    BY AwaitedKept DEF Idle
  <2>3. CASE o # p
    <3>1. folders'[o] = folders[o]
      BY <1>1, <2>3 DEF TypeOK
    <3> QED BY <1>1, <2>1, <2>2, <2>3, <3>1, AccountKept, OthersReserve DEF Budgeted
  <2>4. CASE o = p
    <3>1. folders[o] \in Nat /\ folders'[o] \in {folders[o], folders[o] + n}
      BY <1>1, <2>4 DEF TypeOK
    <3>2. /\ Cardinality(Awaited(o)') <= Cardinality(Awaited(o))
          /\ Cardinality(Awaited(o)') \in Nat /\ Cardinality(Awaited(o)) \in Nat
      BY <1>1, <2>2, Finite, FS_Subset, FS_CardinalityType
    <3>3. Cardinality(Awaited(o)') + folders'[o] <= Cardinality(Awaited(o)) + folders[o] + n
      BY <1>1, <3>1, <3>2
    <3>4. folders'[o] \in Nat
      BY <1>1, <3>1
    <3> QED BY <1>1, <2>1, <2>4, <3>2, <3>3, <3>4, AccountReserved DEF Budgeted
  <2> QED BY <2>3, <2>4
<1>3. ASSUME NEW r \in Request PROVE Held(r)'
  <2>1. CASE req'[r] = Idle
    BY <2>1 DEF Held, At, Idle
  <2>2. CASE req'[r] = req[r]
    <3>1. SUFFICES ASSUME At(r, "creating")
                   PROVE  \A q \in Request : q # r => req'[q].u # req[r].u
      BY <2>2 DEF Budgeted, Held, At
    <3>2. req[r].u \in Upload
      BY <3>1 DEF IInv, Placed, At
    <3> QED BY <3>1, <3>2, NoneAssumption DEF Budgeted, Held, Idle
  <2> QED BY <2>1, <2>2
<1> QED BY <1>2, <1>3 DEF Budgeted

\* A handler that moves on, and keeps its upload or lets it go, is quiet.
LEMMA QuietMove ==
  ASSUME IInv, Budgeted, UNCHANGED <<upload, folders, consumed>>,
         NEW r \in Request, NEW w, w.at # "creating", w.u \in {req[r].u, NoUpload},
         req' = req \/ req' = [req EXCEPT ![r] = w]
  PROVE  Budgeted'
<1>1. TypeOK /\ DOMAIN req = Request
  BY DEF IInv, TypeOK
<1>2. \A q \in Request : At(q, "creating") => req[q].u \in Upload
  BY DEF IInv, Placed, At
<1>3. ASSUME NEW q \in Request
      PROVE  req'[q] = req[q] \/ (req'[q].at # "creating" /\ req'[q].u \in {req[q].u, NoUpload})
  <2>1. CASE req' = req
    BY <2>1
  <2>2. CASE req' = [req EXCEPT ![r] = w]
    <3>1. req'[q] = IF q = r THEN w ELSE req[q]
      BY ONLY <1>1, <1>3, <2>2
    <3> QED BY <3>1
  <2> QED BY <2>1, <2>2
<1> QED BY <1>1, <1>2, <1>3, QuietBudget

\* One step per action.
LEMMA StepBudgeted == IInv /\ Budgeted /\ [Next]_vars => Budgeted'
<1> SUFFICES ASSUME IInv, Budgeted, [Next]_vars PROVE Budgeted'
    OBVIOUS
<1>1. TypeOK /\ \A r \in Request : At(r, "creating") => req[r].u \in Upload
  BY DEF IInv, Placed, At
<1>2. ASSUME NEW r \in Request, NEW u \in Upload, NEW n \in Size, InitiateStart(r, u, n)
      PROVE  Budgeted'
  BY <1>2, StartBudget
<1>3. ASSUME NEW r \in Request, InitiateRow(r) PROVE Budgeted'
  BY <1>3, RowBudget
<1>4. ASSUME NEW n \in Size, CreateFolder(n) PROVE Budgeted'
  BY <1>4, FolderBudget DEF CreateFolder
<1>5. ASSUME NEW n \in Size, CrashAfterReserve(n) PROVE Budgeted'
  BY <1>5, FolderBudget DEF CrashAfterReserve
<1>6. ASSUME NEW u \in Upload, Complete(u) PROVE Budgeted'
  <2>1. upload[u].state = "active" /\ UNCHANGED <<req, folders, consumed>>
    BY <1>6 DEF Complete
  <2>2. \A v \in Upload : upload'[v].o = upload[v].o /\ upload'[v].n = upload[v].n
    BY <1>1, <1>6 DEF Complete, TypeOK
  <2>3. ASSUME NEW o \in Order PROVE Account(o)'
    <3>1. Stored(o)' = Stored(o) /\ Awaited(o)' = Awaited(o)
      BY <2>1, <2>2 DEF Stored, Units, Admitted, Awaited, Starting, At
    <3> QED BY <1>1, <2>1, <3>1, AccountKept DEF Budgeted
  <2>4. ASSUME NEW r \in Request PROVE Held(r)'
    <3>1. SUFFICES ASSUME At(r, "creating") PROVE upload'[req[r].u] = Absent
      BY <2>1 DEF Budgeted, Held, At
    <3>2. upload[req[r].u] = Absent /\ req[r].u # u
      BY <2>1, <3>1 DEF Budgeted, Held, Absent
    <3> QED BY <1>1, <1>6, <3>1, <3>2 DEF Complete, TypeOK
  <2> QED BY <2>3, <2>4 DEF Budgeted
<1>7. ASSUME NEW r \in Request, NEW o \in Order, CheckoutStart(r, o) PROVE Budgeted'
  <2>1. PICK w : w = [Idle EXCEPT !.at = "charging", !.o = o]
    OBVIOUS
  <2>2. w.at = "charging" /\ w.u = NoUpload
    BY <2>1 DEF Idle
  <2>3. req' = [req EXCEPT ![r] = w] /\ UNCHANGED <<upload, folders, consumed>>
    BY <1>7, <2>1 DEF CheckoutStart
  <2> QED BY <2>2, <2>3, QuietMove
<1>8. ASSUME NEW r \in Request, NEW o \in Order, SessionStart(r, o) PROVE Budgeted'
  <2>1. PICK w : w = [Idle EXCEPT !.at = "looking", !.o = o]
    OBVIOUS
  <2>2. w.at = "looking" /\ w.u = NoUpload
    BY <2>1 DEF Idle
  <2>3. /\ req' = req \/ req' = [req EXCEPT ![r] = w]
        /\ UNCHANGED <<upload, folders, consumed>>
    BY <1>8, <2>1 DEF SessionStart
  <2> QED BY <2>2, <2>3, QuietMove
<1>9. ASSUME NEW r \in Request, OpenCharge(r) PROVE Budgeted'
  <2>1. PICK w : w = [req[r] EXCEPT !.at = "charged"]
    OBVIOUS
  <2>2. req' = [req EXCEPT ![r] = w] /\ UNCHANGED <<upload, folders, consumed>>
    BY <1>9, <2>1 DEF OpenCharge, Awaits
  <2>3. w.at = "charged" /\ w.u = req[r].u
    BY <1>1, <2>1 DEF TypeOK, RequestType
  <2> QED BY <2>2, <2>3, QuietMove
<1>10. ASSUME UNCHANGED <<upload, folders, consumed>>,
              \A r \in Request : req'[r] \in {req[r], Idle}
       PROVE  Budgeted'
  BY <1>1, <1>10, QuietBudget DEF Idle
<1>11. ASSUME NEW r \in Request, CreateOrder(r) \/ SessionFinish(r) \/ Fail(r)
       PROVE  Budgeted'
  BY <1>1, <1>10, <1>11 DEF CreateOrder, SessionFinish, Fail, Answered, TypeOK
<1>12. ASSUME NEW o \in Order, Pay(o) \/ Resolve(o) \/ Webhook(o) PROVE Budgeted'
  BY <1>10, <1>12 DEF Pay, Resolve, Webhook
<1>13. CASE Crash
  BY <1>10, <1>13 DEF Crash
<1>14. CASE UNCHANGED vars
  BY <1>10, <1>14 DEF vars
<1> QED
  BY <1>2, <1>3, <1>4, <1>5, <1>6, <1>7, <1>8, <1>9, <1>11, <1>12, <1>13, <1>14
  DEF Next, RequestStep

\* The uploads, the folders and the initiates in flight of an order never
\* exceed what was paid for, for any number of tabs, any sizes and any faults:
\* the budget can be lost in a crash but is never spent twice
\* (consumeOrderBudget).
THEOREM BudgetHeld == Spec => []WithinBudget
<1>1. IInv /\ Budgeted => WithinBudget
  BY AccountSums DEF IInv, Budgeted
<1> QED BY <1>1, InitBudgeted, StepBudgeted, Invariant, PTL DEF Spec
=============================================================================
