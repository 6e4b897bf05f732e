\* Two orders, two requests at a time, one fault.
SPECIFICATION FairSpec
CONSTANTS
  o1 = o1
  o2 = o2
  Order = {o1, o2}
  Upload = {u1, u2}
  Request = {r1, r2}
  Size = {1, 2}
  Priced <- TwoFiles
  Gateway <- OneOfEach
  MaxFaults = 1
  NoOrder = NoOrder
  NoUpload = NoUpload
INVARIANT NothingUnpaid
INVARIANT WithinBudget
INVARIANT TermsOfItsOrder
PROPERTY PaymentIsHonoured
\* Nothing has to happen once the budget is spent.
CHECK_DEADLOCK FALSE
