------------------------------ MODULE Payments ------------------------------
(***************************************************************************)
(* Pay-per-gig: a priced order, the provider's charge, the two ways a       *)
(* payment is confirmed (webhook and direct lookup), the upload session a   *)
(* paid order mints, and the byte budget that session draws down.           *)
(*                                                                         *)
(* As in Uploads an action is the stretch of a handler between two awaits;  *)
(* the ceilings on active uploads are left to Uploads, the members of a     *)
(* folder to Folders.  One browser holds one session cookie and buys all    *)
(* the orders.  Bytes are counted in the units of Size; what the provider   *)
(* collected is compared with the order's amount, so a charge is "full" or  *)
(* "short" of it; "resolved" is a short one the merchant accepted.          *)
(***************************************************************************)
EXTENDS Naturals, FiniteSetsExt

CONSTANTS
  Order,       \* order ids randomUUID may mint
  Upload,      \* transfers the sender may start
  Request,     \* slots for requests the gateway has in flight
  Size,        \* sizes a sender may declare
  Priced,      \* priced_bytes of an order
  Gateway,     \* the provider an order is paid through
  MaxFaults,   \* bound on crashes, failed calls and lost answers
  NoOrder, NoUpload

ASSUME SizeAssumption == Size \subseteq Nat \ {0}
ASSUME PricedAssumption == Priced \in [Order -> Size]
ASSUME GatewayAssumption == Gateway \in [Order -> {"stripe", "coinbase"}]
ASSUME BoundAssumption == MaxFaults \in Nat
ASSUME FiniteAssumption == IsFiniteSet(Upload) /\ IsFiniteSet(Request)
ASSUME NoneAssumption == NoOrder \notin Order /\ NoUpload \notin Upload

VARIABLES
  order,      \* payment_orders.status, or "absent"
  consumed,   \* payment_orders.consumed_bytes
  charge,     \* the provider's charge or payment intent
  due,        \* webhooks the provider has yet to deliver
  cookie,     \* the order of the payment-backed session in the browser
  upload,     \* uploads: state, the order that owns it, declared size, terms
  folders,    \* bytes of the folders created under an order
  req,        \* requests in flight
  faults

vars == <<order, consumed, charge, due, cookie, upload, folders, req, faults>>

Idle == [at |-> "idle", o |-> NoOrder, u |-> NoUpload, n |-> 0]

Absent == [state |-> "absent", o |-> NoOrder, n |-> 0, terms |-> NoOrder]

Init ==
  /\ order = [o \in Order |-> "absent"]
  /\ consumed = [o \in Order |-> 0]
  /\ charge = [o \in Order |-> "none"]
  /\ due = {}
  /\ cookie = NoOrder
  /\ upload = [u \in Upload |-> Absent]
  /\ folders = [o \in Order |-> 0]
  /\ req = [r \in Request |-> Idle]
  /\ faults = 0

-----------------------------------------------------------------------------
At(r, step) == req[r].at = step
Awaits(r, step) == req' = [req EXCEPT ![r] = [@ EXCEPT !.at = step]]
Answered(r) == req' = [req EXCEPT ![r] = Idle]

\* The order has the provider's money, or the merchant's word for it.
Settled(o) ==
  \/ charge[o] = "full"
  \/ Gateway[o] = "coinbase" /\ charge[o] = "resolved"

\* What the provider says of a charge: that it is unpaid, or the amount it
\* names.  Stripe names what it received.  Coinbase names the price that was
\* asked, or none, of every charge that is confirmed or resolved.
Reports(o) ==
  IF Gateway[o] = "stripe"
  THEN {IF charge[o] \in {"short", "full"} THEN charge[o] ELSE "unpaid"}
  ELSE IF Settled(o) THEN {"full", "unsaid"} ELSE {"unpaid"}

\* Mutant: an exact payment is taken for an underpayment.
CoversStrictly(report) == report \in {"over", "unsaid"}

\* A paid event covers the order unless it names a smaller amount.
Covers(report) == report \in {"full", "unsaid"}

\* Mutant: the amount is compared on the webhook's path only.
SeenPaidAnyAmount(report) == report # "unpaid"

\* The lookup's own comparison, in the route that mints the session.
SeenPaid(report) == report \in {"full", "unsaid"}

\* requireSession for a payment-backed session.
Authorised(o) == cookie = o /\ order[o] = "paid"

\* Mutant: the delta alone is compared with the budget.
ReserveEach(o, n) ==
  /\ n <= Priced[o]
  /\ consumed' = [consumed EXCEPT ![o] = @ + n]

\* consumeOrderBudget: one guarded UPDATE.
Reserve(o, n) ==
  /\ consumed[o] + n <= Priced[o]
  /\ consumed' = [consumed EXCEPT ![o] = @ + n]

-----------------------------------------------------------------------------
\* POST /payments/checkout up to `await createCheckout`: priced, a fresh id.
CheckoutStart(r, o) ==
  /\ req[r] = Idle
  /\ order[o] = "absent" /\ charge[o] = "none"
  /\ \A q \in Request : req[q].o # o
  /\ req' = [req EXCEPT ![r] = [Idle EXCEPT !.at = "charging", !.o = o]]
  /\ UNCHANGED <<order, consumed, charge, due, cookie, upload, folders, faults>>

\* The provider opens a charge.
OpenCharge(r) ==
  /\ At(r, "charging")
  /\ charge' = [charge EXCEPT ![req[r].o] = "open"]
  /\ Awaits(r, "charged")
  /\ UNCHANGED <<order, consumed, due, cookie, upload, folders, faults>>

\* ... and the handler resumes: createOrder, answer.
CreateOrder(r) ==
  /\ At(r, "charged")
  /\ order' = [order EXCEPT ![req[r].o] = "pending"]
  /\ Answered(r)
  /\ UNCHANGED <<consumed, charge, due, cookie, upload, folders, faults>>

\* The sender pays with the secret or the URL of the answer, so only once the
\* order exists.  The provider may settle for less than was asked.
Pay(o) ==
  /\ charge[o] = "open"
  /\ order[o] # "absent"
  /\ \E collected \in {"short", "full"} : charge' = [charge EXCEPT ![o] = collected]
  /\ due' = due \union {o}
  /\ UNCHANGED <<order, consumed, cookie, upload, folders, req, faults>>

\* The merchant accepts a Coinbase charge that collected too little.
Resolve(o) ==
  /\ Gateway[o] = "coinbase"
  /\ charge[o] = "short"
  /\ charge' = [charge EXCEPT ![o] = "resolved"]
  /\ due' = due \union {o}
  /\ UNCHANGED <<order, consumed, cookie, upload, folders, req, faults>>

\* A webhook, delivered at least once: applyPaymentEvent and the answer 200,
\* which may get lost.  An event that does not cover the order is answered too.
Webhook(o) ==
  /\ o \in due
  /\ \E report \in Reports(o) :
       order' = IF order[o] # "absent" /\ Covers(report)
                THEN [order EXCEPT ![o] = "paid"] ELSE order
  /\ \/ due' = due \ {o}
     \/ UNCHANGED due
  /\ UNCHANGED <<consumed, charge, cookie, upload, folders, req, faults>>

\* POST /payments/:orderId/session: a paid order mints the session at once,
\* any other is looked up.
SessionStart(r, o) ==
  /\ req[r] = Idle
  /\ order[o] # "absent"
  /\ \/ /\ order[o] = "paid"
        /\ cookie' = o
        /\ UNCHANGED req
     \/ /\ order[o] # "paid"
        /\ req' = [req EXCEPT ![r] = [Idle EXCEPT !.at = "looking", !.o = o]]
        /\ UNCHANGED cookie
  /\ UNCHANGED <<order, consumed, charge, due, upload, folders, faults>>

\* ... and after `await lookupPaid`.  A lookup that fails, or read the charge
\* before it was paid, counts as unpaid: 402.
SessionFinish(r) ==
  /\ At(r, "looking")
  /\ \/ /\ \E report \in Reports(req[r].o) : SeenPaid(report)
        /\ order' = [order EXCEPT ![req[r].o] = "paid"]
        /\ cookie' = req[r].o
     \/ UNCHANGED <<order, cookie>>
  /\ Answered(r)
  /\ UNCHANGED <<consumed, charge, due, upload, folders, faults>>

-----------------------------------------------------------------------------
\* POST /uploads in a paid session, up to `await g.initiate`.
InitiateStart(r, u, n) ==
  /\ req[r] = Idle
  /\ upload[u] = Absent
  /\ \A q \in Request : req[q].u # u
  /\ \E o \in Order :
       /\ Authorised(o)
       /\ Reserve(o, n)
       /\ req' = [req EXCEPT ![r] = [at |-> "creating", o |-> o, u |-> u, n |-> n]]
  /\ UNCHANGED <<order, charge, due, cookie, upload, folders, faults>>

\* ... createUpload, answer.
InitiateRow(r) ==
  /\ At(r, "creating")
  /\ upload' = [upload EXCEPT ![req[r].u] =
                  [state |-> "active", o |-> req[r].o, n |-> req[r].n, terms |-> NoOrder]]
  /\ Answered(r)
  /\ UNCHANGED <<order, consumed, charge, due, cookie, folders, faults>>

\* POST /folders: the whole folder is reserved, then written.
CreateFolder(n) ==
  /\ \E o \in Order :
       /\ Authorised(o)
       /\ Reserve(o, n)
       /\ folders' = [folders EXCEPT ![o] = @ + n]
  /\ UNCHANGED <<order, charge, due, cookie, upload, req, faults>>

\* Mutant: any paid session may complete an upload.
MayUseAny(u) == \E o \in Order : Authorised(o)

\* ownUpload: the owner id is minted per order and carried by its sessions.
MayUse(u) == \E o \in Order : Authorised(o) /\ upload[u].o = o

\* POST /uploads/complete: linkTermsFor reads the order of the session that
\* completes, not the order the upload was charged to.  The cookie is the
\* request's own, so what happens while the store assembles changes nothing.
Complete(u) ==
  /\ upload[u].state = "active"
  /\ MayUse(u)
  /\ upload' = [upload EXCEPT ![u] = [@ EXCEPT !.state = "complete", !.terms = cookie]]
  /\ UNCHANGED <<order, consumed, charge, due, cookie, folders, req, faults>>

-----------------------------------------------------------------------------
\* A call to the provider or the store fails, or its answer is lost.
Fail(r) ==
  /\ ~At(r, "idle")
  /\ faults < MaxFaults
  /\ faults' = faults + 1
  /\ Answered(r)
  /\ UNCHANGED <<order, consumed, charge, due, cookie, upload, folders>>

\* The process restarts.
Crash ==
  /\ faults < MaxFaults
  /\ faults' = faults + 1
  /\ req' = [r \in Request |-> Idle]
  /\ UNCHANGED <<order, consumed, charge, due, cookie, upload, folders>>

\* ... or dies between consumeOrderBudget and createFolder.
CrashAfterReserve(n) ==
  /\ faults < MaxFaults
  /\ faults' = faults + 1
  /\ \E o \in Order : Authorised(o) /\ Reserve(o, n)
  /\ req' = [r \in Request |-> Idle]
  /\ UNCHANGED <<order, charge, due, cookie, upload, folders>>

-----------------------------------------------------------------------------
RequestStep(r) == OpenCharge(r) \/ CreateOrder(r) \/ SessionFinish(r) \/ InitiateRow(r)

Next ==
  \/ \E r \in Request :
       \/ RequestStep(r) \/ Fail(r)
       \/ \E o \in Order : CheckoutStart(r, o) \/ SessionStart(r, o)
       \/ \E u \in Upload, n \in Size : InitiateStart(r, u, n)
  \/ \E o \in Order : Pay(o) \/ Resolve(o) \/ Webhook(o)
  \/ \E n \in Size : CreateFolder(n) \/ CrashAfterReserve(n)
  \/ \E u \in Upload : Complete(u)
  \/ Crash

Spec == Init /\ [][Next]_vars

\* Node resumes an answered request; the provider repeats a webhook until it
\* is answered.
Fairness ==
  /\ \A r \in Request : WF_vars(RequestStep(r))
  /\ \A o \in Order : WF_vars(Webhook(o))

FairSpec == Spec /\ Fairness

-----------------------------------------------------------------------------
RequestType ==
  [at : {"idle", "charging", "charged", "looking", "creating"},
   o : Order \union {NoOrder}, u : Upload \union {NoUpload}, n : Size \union {0}]

TypeOK ==
  /\ order \in [Order -> {"absent", "pending", "paid"}]
  /\ consumed \in [Order -> Nat]
  /\ charge \in [Order -> {"none", "open", "short", "full", "resolved"}]
  /\ due \in SUBSET Order
  /\ cookie \in Order \union {NoOrder}
  /\ upload \in [Upload -> [state : {"absent", "active", "complete"},
                           o : Order \union {NoOrder}, n : Size \union {0},
                           terms : Order \union {NoOrder}]]
  /\ folders \in [Order -> Nat]
  /\ req \in [Request -> RequestType]
  /\ faults \in 0..MaxFaults

Admitted(o) == {u \in Upload : upload[u].o = o}
Starting(o) == {r \in Request : At(r, "creating") /\ req[r].o = o}
Bytes(f, S) == MapThenSumSet(LAMBDA x : f[x].n, S)

\* Whichever of webhook and lookup confirmed it, an order is paid only when
\* Stripe received its amount, or Coinbase did or the merchant resolved what it
\* received; and only such an order has a session, an upload or a folder.  Of
\* a resolved charge the code reads the price asked, never what was collected,
\* so an underpaid one is honoured when the merchant accepts it.
NothingUnpaid ==
  \A o \in Order :
    \/ order[o] = "paid" /\ Settled(o)
    \/ order[o] # "paid" /\ cookie # o /\ Admitted(o) = {} /\ folders[o] = 0

\* The budget bounds what is admitted, however many initiates of however many
\* tabs are in flight: uploads, folders and initiates waiting for the store
\* together fit what was paid for (consumeOrderBudget is one guarded UPDATE).
WithinBudget ==
  \A o \in Order :
    Bytes(upload, Admitted(o)) + Bytes(req, Starting(o)) + folders[o] <= Priced[o]

\* The order decides the link's terms: whatever orders the sender bought
\* between initiate and complete, a file carries the allowance and the
\* lifetime of the order it was charged to.
TermsOfItsOrder ==
  \A u \in Upload : upload[u].state = "complete" => upload[u].terms = upload[u].o

\* A sender who paid is never stuck behind the webhook: once the charge is
\* settled the order becomes paid, however often the webhook is repeated and
\* whichever lookup it races with.
PaymentIsHonoured == \A o \in Order : Settled(o) ~> (order[o] = "paid")
=============================================================================
