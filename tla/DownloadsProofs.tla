--------------------------- MODULE DownloadsProofs ---------------------------
(***************************************************************************)
(* Proofs about Downloads, for any number of files, links, browsers and    *)
(* requests, any allowances, hours and faults.                              *)
(***************************************************************************)
EXTENDS Downloads, FiniteSetTheorems, TLAPS

\* A request past the checks knows whom it serves what; one about to sign has
\* been metered, and rests on a grant or a line of its own file.
InOrder(r) ==
  req[r].at # "idle" =>
    /\ req[r].b \in Browser
    /\ req[r].f \in File
    /\ req[r].at = "signing" =>
         req[r].key \in ledger /\ RestsOn(req[r].f, req[r].key)

RequestsInOrder == \A r \in Request : InOrder(r)

\* Only the hours' lines are continued by a token.
TokensContinueHours ==
  \A b \in Browser : \A key \in tokens[b] :
    \E f \in File, h \in 0..MaxHour : key = HourKey(f, h)

\* Nothing is metered in an hour to come, and nothing was recorded in one.
PastOnly ==
  /\ \A key \in ledger : key.h <= hour
  /\ \A f \in File : Recorded(f) => created[f] <= hour

\* The inductive invariant.  WithinAllowance is inductive beside TypeOK; the
\* other two need to know what a request in flight carries to its answer.
IInv ==
  /\ TypeOK
  /\ WithinAllowance
  /\ NothingUnmetered
  /\ UrlRestsOnItsFile
  /\ RequestsInOrder
  /\ TokensContinueHours
  /\ PastOnly

-----------------------------------------------------------------------------
LEMMA KeysInType ==
  /\ \A g \in Grant : GrantKey(g) \in Keys
  /\ \A f \in File \union {NoFile}, h \in 0..MaxHour : HourKey(f, h) \in Keys
  /\ NoKey \in Keys
BY BoundsAssumption DEF Keys, GrantKey, HourKey, NoKey

LEMMA IdleInType ==
  Idle \in [at : {"idle", "listing", "signing"}, key : Keys,
            b : Browser \union {NoBrowser}, f : File \union {NoFile}]
BY KeysInType DEF Idle

\* What a claim does to the grants of every file.
LEMMA ClaimGrants ==
  ASSUME TypeOK, NEW g \in Grant, NEW f \in File, ClaimDownloadGrant(g, f)
  PROVE  /\ g \notin GrantsOf(f)
         /\ GrantsOf(f)' = GrantsOf(f) \union {g}
         /\ \A e \in File : e # f => GrantsOf(e)' = GrantsOf(e)
BY NoneAssumption DEF TypeOK, ClaimDownloadGrant, GrantsOf

LEMMA GrantsFinite ==
  \A f \in File : IsFiniteSet(GrantsOf(f)) /\ Cardinality(GrantsOf(f)) \in Nat
BY GrantsAssumption, FS_Subset, FS_CardinalityType DEF GrantsOf

\* A claim leaves every file within its allowance.
LEMMA ClaimWithinAllowance ==
  ASSUME TypeOK, WithinAllowance,
         NEW g \in Grant, NEW f \in File, Limited(f), ClaimDownloadGrant(g, f)
  PROVE  WithinAllowance'
<1> SUFFICES ASSUME NEW e \in File, Limited(e)
             PROVE  Cardinality(GrantsOf(e)') <= Allowed[Access[e]]
    BY DEF WithinAllowance, Limited
<1>1. CASE e # f
  BY <1>1, ClaimGrants DEF WithinAllowance
<1>2. CASE e = f
  <2>1. Cardinality(GrantsOf(f)') = Cardinality(GrantsOf(f)) + 1
    BY ClaimGrants, GrantsFinite, FS_AddElement
  <2>2. Cardinality(GrantsOf(f)) < Allowed[Access[f]]
    BY DEF ClaimDownloadGrant
  <2>3. Allowed[Access[f]] \in Nat
    BY AccessAssumption, AllowedAssumption DEF Limited
  <2> QED BY <1>2, <2>1, <2>2, <2>3, GrantsFinite
<1> QED BY <1>1, <1>2

\* A grant, once claimed, stays with its file.
GrantsStay == \A g \in Grant : owner[g] # NoFile => owner'[g] = owner[g]

\* A row, once written, stays; one that is written is dated now.
RowsStay == \A f \in File : created'[f] = created[f] \/ (~Recorded(f) /\ created'[f] = hour)

\* ... so what rested on either still does.
LEMMA RestsStay ==
  ASSUME GrantsStay, RowsStay, NEW f \in File, NEW key, key.h <= hour, RestsOn(f, key)
  PROVE  RestsOn(f, key)'
<1>1. CASE Limited(f) /\ \E g \in Grant : key = GrantKey(g) /\ owner[g] = f
  BY <1>1, NoneAssumption DEF GrantsStay, RestsOn, Limited
<1>2. CASE /\ Limited(f) => Early(f, key)
           /\ \E h \in 0..MaxHour : key = HourKey(f, h)
  BY <1>2 DEF RowsStay, RestsOn, Limited, Early, Recorded
<1> QED BY <1>1, <1>2 DEF RestsOn

LEMMA SameRowsStay == UNCHANGED created => RowsStay
BY DEF RowsStay

LEMMA ClaimGrantsStay ==
  ASSUME TypeOK, NEW g \in Grant, NEW f \in File, ClaimDownloadGrant(g, f)
  PROVE  GrantsStay
BY DEF TypeOK, ClaimDownloadGrant, GrantsStay

LEMMA SameGrantsStay == UNCHANGED owner => GrantsStay
BY DEF GrantsStay

-----------------------------------------------------------------------------
LEMMA InitIInv == Init => IInv
<1> SUFFICES ASSUME Init PROVE IInv
    OBVIOUS
<1>1. TypeOK
  BY KeysInType, BoundsAssumption DEF Init, TypeOK, Idle, NoKey
<1>2. WithinAllowance
  <2> SUFFICES ASSUME NEW f \in File, Limited(f)
               PROVE  Cardinality(GrantsOf(f)) <= Allowed[Access[f]]
      BY DEF WithinAllowance
  <2>1. GrantsOf(f) = {}
    BY NoneAssumption DEF Init, GrantsOf
  <2>2. Allowed[Access[f]] \in Nat
    BY AccessAssumption, AllowedAssumption DEF Limited
  <2> QED BY <2>1, <2>2, FS_EmptySet
<1>3. NothingUnmetered /\ UrlRestsOnItsFile /\ RequestsInOrder /\ TokensContinueHours
  BY DEF Init, NothingUnmetered, UrlRestsOnItsFile, RequestsInOrder,
         InOrder, TokensContinueHours, Idle
<1>4. PastOnly
  BY DEF Init, PastOnly, Recorded
<1> QED BY <1>1, <1>2, <1>3, <1>4 DEF IInv

-----------------------------------------------------------------------------
LEMMA SameAllowance ==
  ASSUME WithinAllowance, UNCHANGED owner
  PROVE  WithinAllowance'
BY DEF WithinAllowance, GrantsOf, Limited

\* What rests on a line of the ledger.
LEMMA UrlsRest ==
  ASSUME IInv, GrantsStay, RowsStay, NEW u \in urls
  PROVE  RestsOn(u.f, u.key)'
<1>1. u.f \in File /\ u.key.h <= hour /\ RestsOn(u.f, u.key)
  BY DEF IInv, TypeOK, Url, UrlRestsOnItsFile, NothingUnmetered, PastOnly
<1> QED BY <1>1, RestsStay

LEMMA RequestRests ==
  ASSUME IInv, GrantsStay, RowsStay, NEW r \in Request, req'[r] = req[r], ledger \subseteq ledger'
  PROVE  InOrder(r)'
<1>1. InOrder(r)
  BY DEF IInv, RequestsInOrder
<1>2. ASSUME req[r].at = "signing" PROVE RestsOn(req[r].f, req[r].key)'
  <2>1. req[r].f \in File /\ req[r].key.h <= hour /\ RestsOn(req[r].f, req[r].key)
    BY <1>1, <1>2 DEF IInv, InOrder, PastOnly
  <2> QED BY <2>1, RestsStay
<1> QED BY <1>1, <1>2 DEF InOrder, RestsOn, Early, Recorded, Limited

\* A step that claims, meters and answers nothing: requests are dropped or
\* kept, URLs and tokens run out.
LEMMA QuietStep ==
  ASSUME IInv, TypeOK', UNCHANGED <<owner, ledger, known>>, urls' \subseteq urls,
         RowsStay, hour' \in Nat, hour <= hour',
         \A b \in Browser : tokens'[b] \subseteq tokens[b],
         \A r \in Request : req'[r] \in {req[r], Idle}
  PROVE  IInv'
<1>1. WithinAllowance'
  BY SameAllowance DEF IInv
<1>2. NothingUnmetered' /\ TokensContinueHours'
  BY DEF IInv, NothingUnmetered, TokensContinueHours
<1>3. UrlRestsOnItsFile'
  BY UrlsRest, SameGrantsStay DEF UrlRestsOnItsFile
<1>4. ASSUME NEW r \in Request PROVE InOrder(r)'
  <2>1. CASE req'[r] = Idle
    BY <2>1 DEF InOrder, Idle
  <2>2. CASE req'[r] = req[r]
    BY <2>2, RequestRests, SameGrantsStay
  <2> QED BY <2>1, <2>2
<1>5. PastOnly'
  BY DEF IInv, TypeOK, PastOnly, RowsStay, Recorded, Keys
<1> QED BY <1>1, <1>2, <1>3, <1>4, <1>5 DEF IInv, RequestsInOrder

\* A request resolves to a line that is in the ledger and fits its file.
LEMMA ResolveStep ==
  ASSUME IInv, NEW r \in Request, NEW f \in File, NEW key \in Keys,
         At(r, "listing"), req[r].f = f, Resolves(r, key),
         UNCHANGED <<created, known, tokens, urls, dead, expired, unlocked, hour>>,
         ledger \subseteq ledger', key \in ledger', ledger' \subseteq ledger \union {key},
         key.h <= hour,
         owner' \in [Grant -> File \union {NoFile}],
         WithinAllowance', GrantsStay, RestsOn(f, key)'
  PROVE  IInv'
<1>1. TypeOK'
  BY DEF IInv, TypeOK, Resolves
<1>2. NothingUnmetered' /\ TokensContinueHours'
  BY DEF IInv, NothingUnmetered, TokensContinueHours
<1>3. UrlRestsOnItsFile'
  BY UrlsRest, SameRowsStay DEF UrlRestsOnItsFile
<1>4. ASSUME NEW q \in Request PROVE InOrder(q)'
  <2>1. CASE q = r
    BY <2>1 DEF IInv, TypeOK, Resolves, RequestsInOrder, InOrder, At, RestsOn, Early, Recorded, Limited
  <2>2. CASE q # r
    <3>1. req'[q] = req[q]
      BY <2>2 DEF IInv, TypeOK, Resolves
    <3> QED BY <3>1, RequestRests, SameRowsStay
  <2> QED BY <2>1, <2>2
<1>5. PastOnly'
  BY DEF IInv, PastOnly, Recorded
<1> QED BY <1>1, <1>2, <1>3, <1>4, <1>5 DEF IInv, RequestsInOrder

\* A request about to sign: what the browser may learn from it.
LEMMA LearnStep ==
  ASSUME IInv, NEW r \in Request, At(r, "signing"), Learn(req[r].b, req[r].key)
  PROVE  /\ known' \in [Browser -> SUBSET Grant]
         /\ tokens' \in [Browser -> SUBSET Keys]
         /\ \A b \in Browser : \A g \in known'[b] : GrantKey(g) \in ledger
         /\ \A b \in Browser : tokens'[b] \subseteq ledger
         /\ TokensContinueHours'
<1> DEFINE key == req[r].key
<1>1. /\ key \in Keys
      /\ key \in ledger
      /\ RestsOn(req[r].f, key)
  BY DEF IInv, TypeOK, RequestsInOrder, InOrder, At
<1>2. CASE \E g \in Grant : key = GrantKey(g)
  <2>1. PICK g \in Grant : key = GrantKey(g)
    BY <1>2
  <2>2. key.kind = "grant" /\ key.g = g
    BY <2>1 DEF GrantKey
  <2> QED BY <1>1, <2>1, <2>2 DEF IInv, TypeOK, NothingUnmetered, TokensContinueHours, Learn
<1>3. CASE \E f \in File, h \in 0..MaxHour : key = HourKey(f, h)
  <2>1. key.kind = "hour"
    BY <1>3 DEF HourKey
  <2>2. TokensContinueHours'
    BY <1>3, <2>1 DEF IInv, TypeOK, TokensContinueHours, Learn
  <2> QED BY <1>1, <2>1, <2>2 DEF IInv, TypeOK, NothingUnmetered, Learn
<1> QED BY <1>1, <1>2, <1>3 DEF RestsOn, IInv, RequestsInOrder, InOrder, At

-----------------------------------------------------------------------------
\* One step per action.
LEMMA StepIInv == IInv /\ [Next]_vars => IInv'
<1> SUFFICES ASSUME IInv, [Next]_vars PROVE IInv'
    OBVIOUS
<1> USE DEF IInv
<1>1. ASSUME NEW r \in Request, NEW b \in Browser, NEW f \in File, Admit(r, b, f)
      PROVE  IInv'
  <2>1. TypeOK'
    BY <1>1, KeysInType DEF Admit, TypeOK
  <2>2. WithinAllowance' /\ NothingUnmetered' /\ TokensContinueHours' /\ PastOnly'
    BY <1>1, SameAllowance DEF Admit, NothingUnmetered, TokensContinueHours, PastOnly, Recorded
  <2>4. UrlRestsOnItsFile'
    BY <1>1, UrlsRest, SameRowsStay, SameGrantsStay DEF Admit, UrlRestsOnItsFile
  <2>3. ASSUME NEW q \in Request PROVE InOrder(q)'
    <3>1. CASE q = r
      BY <1>1, <3>1 DEF Admit, TypeOK, InOrder
    <3>2. CASE q # r
      BY <1>1, <3>2, RequestRests, SameRowsStay, SameGrantsStay DEF Admit, TypeOK
    <3> QED BY <3>1, <3>2
  <2> QED BY <2>1, <2>2, <2>3, <2>4 DEF RequestsInOrder
<1>2. ASSUME NEW r \in Request, Continue(r)
      PROVE  IInv'
  <2>1. PICK g \in known[req[r].b] : Continues(g, req[r].f) /\ Resolves(r, GrantKey(g))
    BY <1>2 DEF Continue
  <2>2. req[r].b \in Browser /\ req[r].f \in File
    BY <1>2 DEF Continue, At, RequestsInOrder, InOrder
  <2>3. g \in Grant /\ GrantKey(g) \in Keys /\ GrantKey(g) \in ledger
    BY <2>1, <2>2, KeysInType DEF TypeOK, NothingUnmetered
  <2>4. GrantsStay /\ WithinAllowance'
    BY <1>2, SameAllowance DEF Continue, GrantsStay
  <2>5. ASSUME NEW e \in File, e = req[r].f PROVE RestsOn(e, GrantKey(g))'
    BY <1>2, <2>1, <2>3, <2>5 DEF Continue, Continues, RestsOn, Limited, Finite
  <2>6. GrantKey(g).h <= hour
    BY <2>3 DEF PastOnly
  <2> QED BY <1>2, <2>1, <2>2, <2>3, <2>4, <2>5, <2>6, ResolveStep DEF Continue, TypeOK
<1>3. ASSUME NEW r \in Request, Claim(r)
      PROVE  IInv'
  <2> DEFINE f == req[r].f
  <2>1. f \in File /\ Limited(f)
    BY <1>3 DEF Claim, At, RequestsInOrder, InOrder, Finite
  <2>2. PICK g \in Grant : /\ ClaimDownloadGrant(g, f)
                           /\ ledger' = ledger \union {GrantKey(g)}
                           /\ Resolves(r, GrantKey(g))
    BY <1>3 DEF Claim
  <2>3. GrantKey(g) \in Keys /\ GrantKey(g).h <= hour
    BY KeysInType DEF GrantKey, TypeOK
  <2>4. GrantsStay /\ WithinAllowance'
    BY <2>1, <2>2, ClaimGrantsStay, ClaimWithinAllowance
  <2>5. owner' \in [Grant -> File \union {NoFile}]
    BY <2>1, <2>2 DEF ClaimDownloadGrant, TypeOK
  <2>6. ASSUME NEW e \in File, e = f PROVE RestsOn(e, GrantKey(g))'
    BY <2>1, <2>2, <2>6 DEF ClaimDownloadGrant, RestsOn, Limited, TypeOK
  <2> QED BY <1>3, <2>1, <2>2, <2>3, <2>4, <2>5, <2>6, ResolveStep DEF Claim, TypeOK
<1>4. ASSUME NEW r \in Request, Exhausted(r)
      PROVE  IInv'
  <2>1. TypeOK'
    BY <1>4, IdleInType DEF Exhausted, TypeOK
  <2>2. \A q \in Request : req'[q] \in {req[q], Idle}
    BY <1>4 DEF Exhausted, TypeOK
  <2> QED BY <1>4, <2>1, <2>2, QuietStep, SameRowsStay DEF Exhausted, TypeOK
<1>5. ASSUME NEW r \in Request, Unmetered(r)
      PROVE  IInv'
  <2>1. PICK key \in tokens[req[r].b] : key.f = req[r].f /\ Resolves(r, key)
    BY <1>5 DEF Unmetered
  <2>2. req[r].b \in Browser /\ req[r].f \in File /\ ~Finite(req[r].f)
    BY <1>5 DEF Unmetered, At, RequestsInOrder, InOrder
  <2>3. /\ key \in Keys
        /\ key \in ledger
        /\ key.h <= hour
        /\ \E h \in 0..MaxHour : key = HourKey(req[r].f, h)
    BY <2>1, <2>2 DEF TypeOK, NothingUnmetered, TokensContinueHours, HourKey, PastOnly
  <2>4. GrantsStay /\ WithinAllowance'
    BY <1>5, SameAllowance DEF Unmetered, GrantsStay
  <2>5. ASSUME NEW e \in File, e = req[r].f PROVE RestsOn(e, key)'
    BY <1>5, <2>1, <2>2, <2>3, <2>5
    DEF Unmetered, RestsOn, Early, Recorded, Limited, Finite, HourKey
  <2> QED BY <1>5, <2>1, <2>2, <2>3, <2>4, <2>5, ResolveStep DEF Unmetered, TypeOK
<1>6. ASSUME NEW r \in Request, Metered(r)
      PROVE  IInv'
  <2>1. req[r].f \in File /\ ~Finite(req[r].f)
    BY <1>6 DEF Metered, At, RequestsInOrder, InOrder
  <2>2. PICK key \in Keys : key = HourKey(req[r].f, hour)
    BY <2>1, KeysInType DEF TypeOK
  <2>3. GrantsStay /\ WithinAllowance'
    BY <1>6, SameAllowance DEF Metered, GrantsStay
  <2>4. ASSUME NEW e \in File, e = req[r].f PROVE RestsOn(e, key)'
    BY <1>6, <2>1, <2>2, <2>4
    DEF Metered, RestsOn, Early, Recorded, Limited, Finite, TypeOK, HourKey
  <2>5. key.h <= hour
    BY <2>2 DEF HourKey, TypeOK
  <2> QED BY <1>6, <2>1, <2>2, <2>3, <2>4, <2>5, ResolveStep DEF Metered, TypeOK
<1>7. ASSUME NEW r \in Request, Answer(r)
      PROVE  IInv'
  <2> DEFINE u == [b |-> req[r].b, f |-> req[r].f, key |-> req[r].key]
  <2>1. /\ req[r].b \in Browser /\ req[r].f \in File /\ req[r].key \in Keys
        /\ req[r].key \in ledger /\ RestsOn(req[r].f, req[r].key)
    BY <1>7 DEF Answer, At, RequestsInOrder, InOrder, TypeOK
  <2>2. At(r, "signing") /\ Learn(req[r].b, req[r].key)
    BY <1>7 DEF Answer
  <2>3. TypeOK'
    BY <1>7, <2>1, <2>2, LearnStep, IdleInType DEF Answer, TypeOK, Url
  <2>4. WithinAllowance'
    BY <1>7, SameAllowance DEF Answer
  <2>5. NothingUnmetered' /\ TokensContinueHours'
    BY <1>7, <2>1, <2>2, LearnStep DEF Answer, NothingUnmetered
  <2>6. UrlRestsOnItsFile'
    <3>1. PICK w : w = u
      OBVIOUS
    <3>2. RowsStay /\ GrantsStay /\ urls' = urls \union {w}
      BY <1>7, <3>1, SameRowsStay, SameGrantsStay DEF Answer
    <3>3. w.f \in File /\ w.key.h <= hour /\ RestsOn(w.f, w.key)
      BY <2>1, <3>1 DEF PastOnly
    <3>4. RestsOn(w.f, w.key)'
      BY <3>2, <3>3, RestsStay
    <3>5. ASSUME NEW v \in urls PROVE RestsOn(v.f, v.key)'
      BY <3>2, UrlsRest
    <3> QED BY <3>2, <3>4, <3>5 DEF UrlRestsOnItsFile
  <2>7. ASSUME NEW q \in Request PROVE InOrder(q)'
    <3>1. CASE q = r
      BY <1>7, <3>1 DEF Answer, TypeOK, InOrder, Idle
    <3>2. CASE q # r
      BY <1>7, <3>2, RequestRests, SameRowsStay, SameGrantsStay DEF Answer, TypeOK
    <3> QED BY <3>1, <3>2
  <2>8. PastOnly'
    BY <1>7 DEF Answer, PastOnly, Recorded
  <2> QED BY <2>3, <2>4, <2>5, <2>6, <2>7, <2>8 DEF RequestsInOrder
<1>8. ASSUME NEW r \in Request, Fail(r)
      PROVE  IInv'
  <2>1. TypeOK'
    <3>1. /\ known' \in [Browser -> SUBSET Grant]
          /\ tokens' \in [Browser -> SUBSET Keys]
      BY <1>8, LearnStep DEF Fail, TypeOK
    <3> QED BY <1>8, <3>1, IdleInType DEF Fail, TypeOK
  <2>2. WithinAllowance' /\ UrlRestsOnItsFile' /\ PastOnly'
    BY <1>8, SameAllowance, UrlsRest, SameRowsStay, SameGrantsStay
    DEF Fail, UrlRestsOnItsFile, PastOnly, Recorded
  <2>3. NothingUnmetered' /\ TokensContinueHours'
    BY <1>8, LearnStep DEF Fail, NothingUnmetered, TokensContinueHours
  <2>4. ASSUME NEW q \in Request PROVE InOrder(q)'
    <3>1. CASE q = r
      BY <1>8, <3>1 DEF Fail, TypeOK, InOrder, Idle
    <3>2. CASE q # r
      BY <1>8, <3>2, RequestRests, SameRowsStay, SameGrantsStay DEF Fail, TypeOK
    <3> QED BY <3>1, <3>2
  <2> QED BY <2>1, <2>2, <2>3, <2>4 DEF RequestsInOrder
<1>9. ASSUME NEW r \in Request, CrashAfterClaim(r)
      PROVE  IInv'
  <2>1. req[r].f \in File /\ Limited(req[r].f)
    BY <1>9 DEF CrashAfterClaim, At, RequestsInOrder, InOrder, Finite
  <2>2. PICK g \in Grant : ClaimDownloadGrant(g, req[r].f)
    BY <1>9 DEF CrashAfterClaim
  <2>3. GrantsStay /\ WithinAllowance'
    BY <2>1, <2>2, ClaimGrantsStay, ClaimWithinAllowance
  <2>4. TypeOK'
    BY <1>9, <2>1, <2>2, IdleInType
    DEF CrashAfterClaim, ClaimDownloadGrant, TypeOK
  <2>5. NothingUnmetered' /\ TokensContinueHours' /\ PastOnly'
    BY <1>9 DEF CrashAfterClaim, NothingUnmetered, TokensContinueHours, PastOnly, Recorded
  <2>6. UrlRestsOnItsFile'
    BY <1>9, <2>3, UrlsRest, SameRowsStay DEF CrashAfterClaim, UrlRestsOnItsFile
  <2>7. RequestsInOrder'
    BY <1>9 DEF CrashAfterClaim, RequestsInOrder, InOrder, Idle
  <2> QED BY <2>3, <2>4, <2>5, <2>6, <2>7
<1>10. ASSUME NEW b \in Browser, NEW l \in Link, Unlock(b, l) \/ Relock(b, l)
       PROVE  IInv'
  BY <1>10, QuietStep, SameRowsStay DEF Unlock, Relock, TypeOK
<1>11. ASSUME NEW l \in Link, Die(l)
       PROVE  IInv'
  BY <1>11, QuietStep, SameRowsStay DEF Die, TypeOK
<1>12. ASSUME NEW g \in Grant, ExpireGrant(g)
       PROVE  IInv'
  BY <1>12, QuietStep, SameRowsStay DEF ExpireGrant, TypeOK
<1>13. ASSUME NEW b \in Browser, NEW key \in tokens[b], ExpireToken(b, key)
       PROVE  IInv'
  BY <1>13, QuietStep, SameRowsStay DEF ExpireToken, TypeOK
<1>14. ASSUME NEW f \in File, ExpireUrl(f)
       PROVE  IInv'
  BY <1>14, QuietStep, SameRowsStay DEF ExpireUrl, TypeOK
<1>15. ASSUME Tick
       PROVE  IInv'
  BY <1>15, QuietStep, SameRowsStay, BoundsAssumption DEF Tick, TypeOK
<1>16. ASSUME UNCHANGED vars
       PROVE  IInv'
  BY <1>16, QuietStep, SameRowsStay DEF vars, TypeOK
<1>17. ASSUME NEW f \in File, Record(f)
       PROVE  IInv'
  <2>1. RowsStay /\ TypeOK'
    BY <1>17 DEF Record, RowsStay, TypeOK
  <2> QED BY <1>17, <2>1, QuietStep DEF Record, TypeOK
<1> QED
  BY <1>1, <1>2, <1>3, <1>4, <1>5, <1>6, <1>7, <1>8, <1>9, <1>10, <1>11, <1>12,
     <1>13, <1>14, <1>15, <1>16, <1>17
  DEF Next, RequestStep

-----------------------------------------------------------------------------
LEMMA Invariance == Spec => []IInv
BY InitIInv, StepIInv, PTL DEF Spec

\* The tables, cookies and requests keep their types.
THEOREM TypeCorrect == Spec => []TypeOK
BY Invariance, PTL DEF IInv

\* No file is downloaded more often than its link allows: claimDownloadGrant
\* counts and inserts in one synchronous stretch, whatever fails around it.
THEOREM AllowanceHeld == Spec => []WithinAllowance
BY Invariance, PTL DEF IInv

\* The ledger has the line of everything that can be downloaded with.
THEOREM MeteredFirst == Spec => []NothingUnmetered
BY Invariance, PTL DEF IInv

\* A storage URL rests on a grant or a metered hour of the file it serves; of a
\* file with an allowance, only on an hour from before its row was written.
THEOREM RestsOnFile == Spec => []UrlRestsOnItsFile
BY Invariance, PTL DEF IInv

-----------------------------------------------------------------------------
\* The refinement: the state of Credits, in terms of the tables and the URLs out.
Spent == [f \in {e \in File : Limited(e)} |-> Cardinality(GrantsOf(f))]
Open == {f \in File : Limited(f) /\ \E u \in urls : u.f = f /\ ~Early(f, u.key)}

LEMMA CreditInit == Init => Credit!Init
<1> SUFFICES ASSUME Init PROVE Credit!Init
    OBVIOUS
<1>1. \A f \in File : GrantsOf(f) = {}
  BY NoneAssumption DEF Init, GrantsOf
<1> QED BY <1>1, FS_EmptySet DEF Init, Credit!Init

\* A claim spends one credit of its file.
LEMMA ClaimSpends ==
  ASSUME TypeOK, NEW g \in Grant, NEW f \in File, Limited(f), ClaimDownloadGrant(g, f),
         UNCHANGED <<created, urls>>
  PROVE  Credit!Spend(f)
<1>1. /\ Cardinality(GrantsOf(f)') = Cardinality(GrantsOf(f)) + 1
      /\ \A e \in File : e # f => GrantsOf(e)' = GrantsOf(e)
  BY ClaimGrants, GrantsFinite, FS_AddElement
<1>2. Spent' = [Spent EXCEPT ![f] = @ + 1]
  BY <1>1 DEF Spent, Limited
<1>3. Spent[f] < Allowed[Access[f]]
  BY DEF Spent, ClaimDownloadGrant
<1>4. UNCHANGED Open
  BY DEF Open, Early, Recorded, Limited
<1> QED BY <1>2, <1>3, <1>4 DEF Credit!Spend, Spent, Open, Limited

LEMMA SameOwnerSameSpent == UNCHANGED owner => UNCHANGED Spent
BY DEF Spent, Limited, GrantsOf

\* A row closes the time before it at the hour it is written in: the URLs out
\* are of that time before and after.
LEMMA RecordKeepsOpen ==
  ASSUME IInv, NEW f \in File, Record(f)
  PROVE  UNCHANGED Open
<1>1. ASSUME NEW e \in File, NEW u \in urls PROVE Early(e, u.key)' <=> Early(e, u.key)
  <2>1. u.key.h <= hour
    BY DEF IInv, NothingUnmetered, PastOnly
  <2>2. created'[e] = created[e] \/ (~Recorded(e) /\ created'[e] = hour)
    BY DEF Record, IInv, TypeOK
  <2>3. hour # NoRow
    BY NoRowAssumption DEF IInv, TypeOK
  <2> QED BY <2>1, <2>2, <2>3 DEF Early, Recorded
<1>2. UNCHANGED urls
  BY DEF Record
<1> QED BY <1>1, <1>2 DEF Open, Limited

LEMMA CreditStep == IInv /\ [Next]_vars => [Credit!Next]_<<Spent, Open>>
<1> SUFFICES ASSUME IInv, [Next]_vars PROVE [Credit!Next]_<<Spent, Open>>
    OBVIOUS
<1> USE DEF IInv
<1>1. ASSUME UNCHANGED <<created, owner, urls>>
      PROVE  UNCHANGED <<Spent, Open>>
  BY <1>1, SameOwnerSameSpent DEF Open, Limited, Early, Recorded
<1>2. ASSUME NEW r \in Request, Claim(r) \/ CrashAfterClaim(r)
      PROVE  Credit!Next
  <2>1. req[r].f \in File /\ Limited(req[r].f) /\ UNCHANGED <<created, urls>>
    BY <1>2 DEF Claim, CrashAfterClaim, At, RequestsInOrder, InOrder, Finite
  <2>2. PICK g \in Grant : ClaimDownloadGrant(g, req[r].f)
    BY <1>2 DEF Claim, CrashAfterClaim
  <2>3. Credit!Spend(req[r].f)
    BY <2>1, <2>2, ClaimSpends
  <2> QED BY <2>1, <2>3 DEF Credit!Next
<1>3. ASSUME NEW r \in Request, Answer(r)
      PROVE  Credit!Next \/ UNCHANGED <<Spent, Open>>
  <2>1. PICK f \in File : f = req[r].f /\ RestsOn(f, req[r].key)
    BY <1>3 DEF Answer, At, RequestsInOrder, InOrder
  <2>2. PICK u : u = [b |-> req[r].b, f |-> f, key |-> req[r].key]
    OBVIOUS
  <2>3. u.f = f /\ u.key = req[r].key /\ urls' = urls \union {u} /\ UNCHANGED <<created, owner>>
    BY <1>3, <2>1, <2>2 DEF Answer
  <2>4. UNCHANGED Spent
    BY <2>3, SameOwnerSameSpent
  <2>5. CASE Limited(f) /\ ~Early(f, u.key)
    <3>1. PICK g \in Grant : g \in GrantsOf(f)
      BY <2>1, <2>3, <2>5 DEF RestsOn, GrantsOf
    <3>2. Cardinality(GrantsOf(f)) > 0
      BY <2>1, <3>1, GrantsFinite, FS_EmptySet
    <3>3. Open' = Open \union {f}
      BY <2>1, <2>3, <2>5 DEF Open, Limited, Early, Recorded
    <3>4. Credit!Serve(f)
      BY <2>1, <2>4, <2>5, <3>2, <3>3 DEF Credit!Serve, Spent, Open
    <3> QED BY <2>1, <2>5, <3>4 DEF Credit!Next
  <2>6. CASE ~(Limited(f) /\ ~Early(f, u.key))
    BY <2>3, <2>4, <2>6 DEF Open, Limited, Early, Recorded
  <2> QED BY <2>5, <2>6
<1>4. ASSUME NEW f \in File, ExpireUrl(f)
      PROVE  Credit!Next \/ UNCHANGED <<Spent, Open>>
  <2>1. PICK gone \in SUBSET {u \in urls : u.f = f} : urls' = urls \ gone
    BY <1>4 DEF ExpireUrl
  <2>2. UNCHANGED Spent /\ UNCHANGED created
    BY <1>4, SameOwnerSameSpent DEF ExpireUrl
  <2>3. Open' = Open \/ (f \in Open /\ Open' = Open \ {f})
    BY <2>1, <2>2 DEF Open, Limited, Early, Recorded
  <2>4. CASE f \in Open /\ Open' = Open \ {f}
    <3>1. Limited(f)
      BY <2>4 DEF Open
    <3>2. Credit!Close(f)
      BY <2>2, <2>4 DEF Credit!Close, Spent, Open
    <3> QED BY <3>1, <3>2 DEF Credit!Next
  <2> QED BY <2>2, <2>3, <2>4
<1>5. UNCHANGED vars => UNCHANGED <<created, owner, urls>>
  BY DEF vars
<1>6. ASSUME NEW r \in Request,
             \/ Continue(r) \/ Exhausted(r) \/ Unmetered(r) \/ Metered(r) \/ Fail(r)
             \/ \E b \in Browser, f \in File : Admit(r, b, f)
      PROVE  UNCHANGED <<created, owner, urls>>
  BY <1>6 DEF Continue, Exhausted, Unmetered, Metered, Fail, Admit
<1>7. ASSUME \/ \E b \in Browser, l \in Link : Unlock(b, l) \/ Relock(b, l)
             \/ \E l \in Link : Die(l)
             \/ \E g \in Grant : ExpireGrant(g)
             \/ \E b \in Browser : \E key \in tokens[b] : ExpireToken(b, key)
             \/ Tick
      PROVE  UNCHANGED <<created, owner, urls>>
  BY <1>7 DEF Unlock, Relock, Die, ExpireGrant, ExpireToken, Tick
<1>8. ASSUME NEW f \in File, Record(f)
      PROVE  UNCHANGED <<Spent, Open>>
  <2>1. UNCHANGED Spent
    BY <1>8, SameOwnerSameSpent DEF Record
  <2> QED BY <1>8, <2>1, RecordKeepsOpen
<1> QED
  BY <1>1, <1>2, <1>3, <1>4, <1>5, <1>6, <1>7, <1>8 DEF Next, RequestStep

\* Grants, cookies and retries implement the spending of credits: a step of
\* the handler spends one credit, opens or closes a file, or is not noticed.
\* The URLs of the hours before a file's row was written open nothing.
THEOREM CreditsImplemented == Spec => CreditsKept
BY CreditInit, CreditStep, Invariance, PTL
DEF Spec, CreditsKept, Credit!Spec, Spent, Open
=============================================================================
