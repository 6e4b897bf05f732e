------------------------------ MODULE Downloads ------------------------------
(***************************************************************************)
(* GET /transfers/:id/original, the mediated download: the revocation and  *)
(* password checks, the allowance enforced by grants, the egress ledger,   *)
(* and the short-lived storage URL handed out at the end.                  *)
(*                                                                         *)
(* A file is one transfer with an object; its link is the transfer that    *)
(* governs it (accessTransferId): its folder, or itself.  The object exists *)
(* before the file's row, and may outlive a crash that leaves it without   *)
(* one: nothing governs such a file.  An action is the                     *)
(* stretch of the handler between two awaits.  The ledger is the set of    *)
(* idempotency keys of its egress lines, which are kept by                 *)
(* ON CONFLICT DO NOTHING.  Lifetimes are expiry actions; `hour` is only   *)
(* the bucket an ungranted download is metered under.  Store calls may fail *)
(* and the process may die any number of times.                            *)
(***************************************************************************)
EXTENDS Naturals, FiniteSets

CONSTANTS
  File, Link, Browser, Request,
  Sent,         \* files that have their row from the start
  Grant,        \* grant ids randomUUID may mint
  Access,       \* accessTransferId, of a file that has its row
  Folder,       \* links that are a folder's; any other is its file's own
  Allowed,      \* downloads_allowed of a link, or Unlimited
  Protected,    \* links with a password
  MaxHour,      \* bound on the hours that pass
  Unlimited, NoGrant, NoBrowser, NoFile, NoRow

ASSUME AccessAssumption == Access \in [File -> Link]
ASSUME SentAssumption == Sent \subseteq File
ASSUME AllowedAssumption == Allowed \in [Link -> Nat \union {Unlimited}]
ASSUME UnlimitedAssumption == Unlimited \notin Nat
ASSUME ProtectedAssumption == Protected \subseteq Link
ASSUME NoRowAssumption == NoRow \notin Nat
ASSUME BoundsAssumption == MaxHour \in Nat
ASSUME GrantsAssumption == IsFiniteSet(Grant)
ASSUME NoneAssumption ==
  NoGrant \notin Grant /\ NoBrowser \notin Browser /\ NoFile \notin File

VARIABLES
  created,    \* transfers.created_at of a file in hours, or NoRow
  owner,      \* download_grants: the file a grant was claimed for, or NoFile
  expired,    \* grants past expires_at
  ledger,     \* keys of the egress lines in meter_events
  known,      \* grants a browser was told of (its cookie, or ?grant=)
  tokens,     \* continuation tokens a browser holds, by the line they continue
  unlocked,   \* <<browser, link>> with a live unlock cookie
  dead,       \* links revoked or expired
  urls,       \* storage URLs handed out and still valid
  req,        \* requests in flight
  hour

vars == <<created, owner, expired, ledger, known, tokens, unlocked, dead, urls, req, hour>>

GrantKey(g) == [kind |-> "grant", g |-> g, f |-> NoFile, h |-> 0]
HourKey(f, h) == [kind |-> "hour", g |-> NoGrant, f |-> f, h |-> h]
Keys == [kind : {"grant", "hour"}, g : Grant \union {NoGrant},
         f : File \union {NoFile}, h : 0..MaxHour]

NoKey == HourKey(NoFile, 0)

Idle == [at |-> "idle", b |-> NoBrowser, f |-> NoFile, key |-> NoKey]

Init ==
  /\ created = [f \in File |-> IF f \in Sent THEN 0 ELSE NoRow]
  /\ owner = [g \in Grant |-> NoFile]
  /\ expired = {}
  /\ ledger = {}
  /\ known = [b \in Browser |-> {}]
  /\ tokens = [b \in Browser |-> {}]
  /\ unlocked = {}
  /\ dead = {}
  /\ urls = {}
  /\ req = [r \in Request |-> Idle]
  /\ hour = 0

-----------------------------------------------------------------------------
Recorded(f) == created[f] # NoRow
Limited(f) == Allowed[Access[f]] # Unlimited

\* The allowance the handler reads: an unknown transfer has none.
Finite(f) == Recorded(f) /\ Limited(f)

\* The link has a row of its own.
Exists(l) == l \in Folder \/ \E f \in File : Access[f] = l /\ Recorded(f)

\* randomUUID: which of the fresh ids it mints makes no difference.
Mint == CHOOSE g \in Grant : owner[g] = NoFile

GrantsOf(f) == {g \in Grant : owner[g] = f}

\* A grant that makes the request a continuation of a download of f.
Continues(g, f) == owner[g] = f /\ g \notin expired

\* The request presents no grant that continues a download of f: the browser
\* has none, or ?grant= names another one it knows.
Ungranted(b, f) == known[b] = {} \/ \E g \in known[b] : ~Continues(g, f)

At(r, step) == req[r].at = step

Resolves(r, key) ==
  req' = [req EXCEPT ![r] = [at |-> "signing", b |-> req[r].b, f |-> req[r].f, key |-> key]]

-----------------------------------------------------------------------------
\* Mutant: whoever knows a grant is let in without looking at the link.
AdmitKnown(r, b, f) ==
  /\ req[r] = Idle
  /\ Recorded(f) => /\ Access[f] \notin dead \/ known[b] # {}
                    /\ Access[f] \in Protected => <<b, Access[f]>> \in unlocked
  /\ req' = [req EXCEPT ![r] = [at |-> "listing", b |-> b, f |-> f, key |-> NoKey]]
  /\ UNCHANGED <<created, owner, expired, ledger, known, tokens, unlocked, dead, urls, hour>>

\* Up to `await g.listKeys`: a dead link is a 404, a locked one a 401.  A file
\* without a row is neither: "unknown transfers are NOT treated as revoked".
Admit(r, b, f) ==
  /\ req[r] = Idle
  /\ Recorded(f) => /\ Access[f] \notin dead
                    /\ Access[f] \in Protected => <<b, Access[f]>> \in unlocked
  /\ req' = [req EXCEPT ![r] = [at |-> "listing", b |-> b, f |-> f, key |-> NoKey]]
  /\ UNCHANGED <<created, owner, expired, ledger, known, tokens, unlocked, dead, urls, hour>>

\* The request carries a live grant of this file: the same download.
Continue(r) ==
  /\ At(r, "listing")
  /\ Finite(req[r].f)
  /\ \E g \in known[req[r].b] : Continues(g, req[r].f) /\ Resolves(r, GrantKey(g))
  /\ UNCHANGED <<created, owner, expired, ledger, known, tokens, unlocked, dead, urls, hour>>

\* Mutant: off by one.
ClaimOneMore(g, f) ==
  /\ owner[g] = NoFile
  /\ Cardinality(GrantsOf(f)) <= Allowed[Access[f]]
  /\ owner' = [owner EXCEPT ![g] = f]

\* claimDownloadGrant: count, then insert.
ClaimDownloadGrant(g, f) ==
  /\ owner[g] = NoFile
  /\ Cardinality(GrantsOf(f)) < Allowed[Access[f]]
  /\ owner' = [owner EXCEPT ![g] = f]

\* No live grant: one credit is claimed and the egress is metered under it.
Claim(r) ==
  /\ At(r, "listing")
  /\ LET f == req[r].f IN
       /\ Finite(f)
       /\ Ungranted(req[r].b, f)
       /\ \E g \in Grant :
            /\ ClaimDownloadGrant(g, f)
            /\ g = Mint
            /\ ledger' = ledger \union {GrantKey(g)}
            /\ Resolves(r, GrantKey(g))
  /\ UNCHANGED <<created, expired, known, tokens, unlocked, dead, urls, hour>>

\* ... or all credits are spent: 403.
Exhausted(r) ==
  /\ At(r, "listing")
  /\ LET f == req[r].f IN
       /\ Finite(f)
       /\ Ungranted(req[r].b, f)
       /\ Cardinality(GrantsOf(f)) >= Allowed[Access[f]]
  /\ req' = [req EXCEPT ![r] = Idle]
  /\ UNCHANGED <<created, owner, expired, ledger, known, tokens, unlocked, dead, urls, hour>>

\* Mutant: a grant of any file suppresses the hour's line.
UnmeteredByAnyGrant(r) ==
  /\ At(r, "listing")
  /\ ~Finite(req[r].f)
  /\ \/ \E key \in tokens[req[r].b] : key.f = req[r].f /\ Resolves(r, key)
     \/ \E g \in known[req[r].b] \ expired : Resolves(r, GrantKey(g))
  /\ UNCHANGED <<created, owner, expired, ledger, known, tokens, unlocked, dead, urls, hour>>

\* No allowance: a continuation token of this file, or the hour's line.
Unmetered(r) ==
  /\ At(r, "listing")
  /\ ~Finite(req[r].f)
  /\ \E key \in tokens[req[r].b] : key.f = req[r].f /\ Resolves(r, key)
  /\ UNCHANGED <<created, owner, expired, ledger, known, tokens, unlocked, dead, urls, hour>>

\* Mutant: any grant in the cookies suppresses the hour's line.
MeteredUnlessGranted(r) ==
  /\ At(r, "listing")
  /\ LET key == HourKey(req[r].f, hour) IN
       /\ ~Finite(req[r].f)
       /\ ledger' = IF known[req[r].b] = {} THEN ledger \union {key} ELSE ledger
       /\ Resolves(r, key)
  /\ UNCHANGED <<created, owner, expired, known, tokens, unlocked, dead, urls, hour>>

Metered(r) ==
  /\ At(r, "listing")
  /\ LET key == HourKey(req[r].f, hour) IN
       /\ ~Finite(req[r].f)
       /\ ledger' = ledger \union {key}
       /\ Resolves(r, key)
  /\ UNCHANGED <<created, owner, expired, known, tokens, unlocked, dead, urls, hour>>

\* What the browser learns from the answer: the grant, or the continuation.
Learn(b, key) ==
  IF key.kind = "grant"
  THEN /\ known' = [known EXCEPT ![b] = @ \union {key.g}]
       /\ UNCHANGED tokens
  ELSE /\ tokens' = [tokens EXCEPT ![b] = @ \union {key}]
       /\ UNCHANGED known

\* `await g.presignGet`, and the answer: the unlock cookie slides by itself.
Answer(r) ==
  /\ At(r, "signing")
  /\ Learn(req[r].b, req[r].key)
  /\ urls' = urls \union {[b |-> req[r].b, f |-> req[r].f, key |-> req[r].key]}
  /\ req' = [req EXCEPT ![r] = Idle]
  /\ UNCHANGED <<created, owner, expired, ledger, unlocked, dead, hour>>

\* The store call fails or the answer is lost.  An error answer may still
\* carry the Set-Cookie headers written before it.
Fail(r) ==
  /\ ~At(r, "idle")
  /\ \/ At(r, "signing") /\ req[r].key.kind = "grant" /\ Learn(req[r].b, req[r].key)
     \/ UNCHANGED <<known, tokens>>
  /\ req' = [req EXCEPT ![r] = Idle]
  /\ UNCHANGED <<created, owner, expired, ledger, unlocked, dead, urls, hour>>

\* The process dies between claimDownloadGrant and meter.
CrashAfterClaim(r) ==
  /\ At(r, "listing")
  /\ Finite(req[r].f)
  /\ Ungranted(req[r].b, req[r].f)
  /\ \E g \in Grant : ClaimDownloadGrant(g, req[r].f) /\ g = Mint
  /\ req' = [q \in Request |-> Idle]
  /\ UNCHANGED <<created, expired, ledger, known, tokens, unlocked, dead, urls, hour>>

-----------------------------------------------------------------------------
\* saveTransfer, some time after the object was assembled.
Record(f) ==
  /\ ~Recorded(f)
  /\ created' = [created EXCEPT ![f] = hour]
  /\ UNCHANGED <<owner, expired, ledger, known, tokens, unlocked, dead, urls, req, hour>>

\* POST /transfers/:id/unlock with the right password.
Unlock(b, l) ==
  /\ l \in Protected \ dead
  /\ Exists(l)
  /\ unlocked' = unlocked \union {<<b, l>>}
  /\ UNCHANGED <<created, owner, expired, ledger, known, tokens, dead, urls, req, hour>>

\* The link is revoked or its expiry passes.
Die(l) ==
  /\ Exists(l)
  /\ l \notin dead
  /\ dead' = dead \union {l}
  /\ UNCHANGED <<created, owner, expired, ledger, known, tokens, unlocked, urls, req, hour>>

\* GRANT_TTL_MS of a grant, the lifetimes of a token, a cookie and a URL.
ExpireGrant(g) ==
  /\ owner[g] # NoFile
  /\ g \notin expired
  /\ expired' = expired \union {g}
  /\ UNCHANGED <<created, owner, ledger, known, tokens, unlocked, dead, urls, req, hour>>

ExpireToken(b, key) ==
  /\ key \in tokens[b]
  /\ tokens' = [tokens EXCEPT ![b] = @ \ {key}]
  /\ UNCHANGED <<created, owner, expired, ledger, known, unlocked, dead, urls, req, hour>>

Relock(b, l) ==
  /\ <<b, l>> \in unlocked
  /\ unlocked' = unlocked \ {<<b, l>>}
  /\ UNCHANGED <<created, owner, expired, ledger, known, tokens, dead, urls, req, hour>>

\* Some of the URLs of a file, since each was signed at its own time.
ExpireUrl(f) ==
  /\ \E gone \in SUBSET {u \in urls : u.f = f} :
       /\ gone # {}
       /\ urls' = urls \ gone
  /\ UNCHANGED <<created, owner, expired, ledger, known, tokens, unlocked, dead, req, hour>>

Tick ==
  /\ hour < MaxHour
  /\ hour' = hour + 1
  /\ UNCHANGED <<created, owner, expired, ledger, known, tokens, unlocked, dead, urls, req>>

-----------------------------------------------------------------------------
RequestStep(r) ==
  Continue(r) \/ Claim(r) \/ Exhausted(r) \/ Unmetered(r) \/ Metered(r) \/ Answer(r)

Next ==
  \/ \E r \in Request :
       \/ RequestStep(r) \/ Fail(r) \/ CrashAfterClaim(r)
       \/ \E b \in Browser, f \in File : Admit(r, b, f)
  \/ \E b \in Browser, l \in Link : Unlock(b, l) \/ Relock(b, l)
  \/ \E l \in Link : Die(l)
  \/ \E g \in Grant : ExpireGrant(g)
  \/ \E b \in Browser : \E key \in tokens[b] : ExpireToken(b, key)
  \/ \E f \in File : Record(f) \/ ExpireUrl(f)
  \/ Tick

Spec == Init /\ [][Next]_vars

\* Node resumes an answered request; a presigned URL has a fixed lifetime.
Fairness ==
  /\ \A r \in Request : WF_vars(RequestStep(r))
  /\ \A f \in File : WF_vars(ExpireUrl(f))

FairSpec == Spec /\ Fairness

-----------------------------------------------------------------------------
Url == [b : Browser, f : File, key : Keys]

TypeOK ==
  /\ created \in [File -> 0..MaxHour \union {NoRow}]
  /\ owner \in [Grant -> File \union {NoFile}]
  /\ expired \in SUBSET Grant
  /\ ledger \in SUBSET Keys
  /\ known \in [Browser -> SUBSET Grant]
  /\ tokens \in [Browser -> SUBSET Keys]
  /\ unlocked \in SUBSET (Browser \X Link)
  /\ dead \in SUBSET Link
  /\ urls \in SUBSET Url
  /\ req \in [Request -> [at : {"idle", "listing", "signing"}, key : Keys,
                          b : Browser \union {NoBrowser}, f : File \union {NoFile}]]
  /\ hour \in 0..MaxHour

\* Every file can be downloaded at most as often as its link allows, whatever
\* the number of recipients asking at once and of requests that fail halfway
\* (claimDownloadGrant counts and inserts with nothing awaited between).
WithinAllowance ==
  \A f \in File : Limited(f) => Cardinality(GrantsOf(f)) <= Allowed[Access[f]]

\* Whatever can be downloaded with has its line in the ledger: a URL, and the
\* grant or continuation that suppresses the metering of the next request.
\* A crash between the claim and the meter leaves a grant nobody knows.
NothingUnmetered ==
  /\ \A u \in urls : u.key \in ledger
  /\ \A b \in Browser :
       /\ tokens[b] \subseteq ledger
       /\ \A g \in known[b] : GrantKey(g) \in ledger

\* A line of the hours before the file's row was written.
Early(f, key) == key.kind = "hour" /\ (Recorded(f) => key.h <= created[f])

RestsOn(f, key) ==
  \/ Limited(f) /\ \E g \in Grant : key = GrantKey(g) /\ owner[g] = f
  \/ /\ Limited(f) => Early(f, key)
     /\ \E h \in 0..MaxHour : key = HourKey(f, h)

\* A URL rests on a grant or a metered hour of the very file it serves: what
\* was paid for one file of a folder does not open another.  A file with an
\* allowance is served without a grant in one case only, on an hour that
\* began before its row was written.
UrlRestsOnItsFile == \A u \in urls : RestsOn(u.f, u.key)

\* Authorisation is live: once a link is revoked or expired, its files stop
\* being downloadable for good, after the requests in flight and the URLs out.
\* A file that never got its row is out of its link's reach.
RevokedGoesDark ==
  \A f \in File :
    [](Recorded(f) /\ Access[f] \in dead => <>[](\A u \in urls : u.f # f))

\* The allowance as the abstract specification of credits.
Credit ==
  INSTANCE Credits WITH
    File <- {f \in File : Limited(f)},
    Sold <- [f \in {e \in File : Limited(e)} |-> Allowed[Access[f]]],
    spent <- [f \in {e \in File : Limited(e)} |-> Cardinality(GrantsOf(f))],
    open <- {f \in File : Limited(f) /\ \E u \in urls : u.f = f /\ ~Early(f, u.key)}

\* Grants, cookies and retries implement the spending of credits: but for the
\* URLs of the hours before its row was written, no file is open without a
\* credit spent for it, and none beyond what was sold.
CreditsKept == Credit!Spec
=============================================================================
