# Waystation in TLA+

Waystation moves large media files from a sender to recipients through an object
store (Backblaze B2). A Node gateway (`src/gateway`) owns sessions, payments, the
upload and download control plane and all durable records (SQLite); the bytes go
between the browser and the store directly. A Python worker (`src/pipeline`) runs
the services a sender asked for on an uploaded object: instruments that measure it,
models that look at it, a poster, a summary, a delivery decision and a provenance
manifest. The browser client (`src/client`) hashes, uploads, resumes and downloads.

This directory holds a TLA+ model of the program's control logic, TLC
configurations that check it on small instances, and proofs checked by TLAPS for
every value of the constants. Paths below are relative to `src/`.

## Inventory

| Component | State it keeps | Operations | Talks to |
|---|---|---|---|
| Upload control plane (`gateway/src/routes.ts`, `db.ts`, `s3.ts`, `ownership.ts`) | `uploads`, `transfers`, `meter_events` rows | initiate, sign, list parts, complete | store; dispatch; payments for budget and terms; folders |
| Service policy (`limits.ts`, `routes.ts`, `pipeline/worker.py`) | the stored `options` of a transfer | sanitise, apply policy, gate a dispatch, read the flags | upload completion, `/events/b2`, worker |
| Folder transfers (`routes.ts`, `db.ts`, `folders.ts`) | the folder's `transfers` row, `folder_files`, the members' rows | create, initiate member, complete member, seal, revoke | uploads; purge |
| Mediated download (`routes.ts`, `db.ts`, `auth.ts`, `metering.ts`) | `download_grants`, egress lines in `meter_events`, cookies and tokens of recipients | admit, claim, continue, meter, sign a URL | store; transfers and folders for the link's life |
| Payments (`payments.ts`, `pricing.ts`, `routes.ts`, `db.ts`, `auth.ts`) | `payment_orders`, the payment-backed session cookie | quote, checkout, webhook, lookup and session, consume budget | provider; uploads, folders, link terms |
| Pipeline worker (`pipeline/worker.py`) | the local variables of a job, derivatives in the store | the steps of `run_pipeline`, metering, reporting | store; gateway's `/events/*`; all of the next four |
| Instruments (`pipeline/qc/{video,audio,broadcast,captions,imf,conformance,...}.py`) | none | measure the media with external tools | worker |
| AI quality control (`worker.py`, `qc/agentic.py`, `qc/hybrid.py`) | none (checks and a coverage table in the report) | sample, inspect in two or three passes, support checks, hybrids, coverage | a model service; worker |
| Synthetic media lane (`worker.py`, `qc/generated.py`, `qc/jury.py`) | none (ledgers and findings in the report) | plan, observe scenes, read text, jury, reduce, cover | a model service; worker |
| Interpretive run and delivery authority (`worker.py`, `qc/interpretive_run.py`, `qc/ai_authority.py`) | the calls of a run | plan, store evidence, lanes on threads, synthesis, sanitise, decide | model services; store; worker |
| Storage purge (`purge.ts`, `s3.ts`) | `purged_at`, the `running` flag | list due transfers, delete versions, mark | transfers; store |
| Sessions and access codes (`auth.ts`, `db.ts`) | `access_codes`, the signed session cookie | login, refresh, revoke, logout | every sender route |
| Recipient unlock and limits (`auth.ts`, `routes.ts`) | failure counters, limiter windows (memory) | unlock, rate limit | downloads |
| Progress events (`sse.ts`) | subscribers (memory) | publish, subscribe, token | the pages |
| Email, statistics (`email.ts`, `routes.ts`) | none | send, aggregate | an email service |
| Start-up (`server.ts`, `env.ts`, `publicOrigin.ts`) | configuration | boot, migrate | all |
| Upload engine (`client/src/uploader.ts`, `resumeStore.ts`, `fileQueue.ts`, `hashClient.ts`) | resume records, part progress, the file queue | hash, put parts, resume, finish | upload control plane; store |
| Delivery engine (`client/src/delivery.ts`, `storageSource.ts`, `ranges.ts`, `folderDelivery.ts`) | ranges on disk, the current storage URL | fetch ranges, renew the URL, resume, verify | mediated download; store |
| Hash crate, CDN worker (`crates/`, `cdn-worker/`) | none | hash tree; check a token | client; not deployed |

**How they interact.** All gateway handlers run in one Node process: a handler is
not interrupted between two `await`s, and may be overtaken by any other at each of
them. SQLite statements are synchronous and commit one by one, so a crash can
separate two writes of the same handler. The operator revokes and restores links from a
process of its own on the same database. The store answers asynchronously, may act
and lose the answer, and reports a new object by a notification that is delivered
at least once and may arrive before the handler that caused it has resumed. The
payment provider repeats a webhook until it is answered, while the sender's page
asks for a lookup of the same charge.

A worker's job is one thread that takes the steps of `run_pipeline` in order; every
step writes its result into local variables and its objects under
`derivatives/<transfer>/`. Two jobs on one transfer share nothing but those keys.
The lanes of the interpretive run are called from a pool of threads. Every model
answer is untrusted text: it is parsed, sanitised, reduced by code, and joined with
what the instruments measured.

**What is hard** is listed, line by line, under `hazards` in `PROJECT.json`. In
short: the notification overtakes the record; a crash between two durable writes;
counts and claims read before an `await` and used after it; two completions, two
seals or two claims of a last credit at once; lost answers of the store; deadlines
of a folder and of its members; one confirmation of a payment by two paths; a step
of the worker that fails half way, after an object and before its listing; a lane
that fails while others answer; one model counted twice; a model that overrules an
instrument; a budget of frames or requests that cuts off what had to be looked at.

**What makes each component correct.**

* Uploads: one completion records a transfer, and the first one; durable writes
  keep their order across crashes; jobs carry the recorded options; ceilings are
  overshot by a bounded amount; started uploads end.
* Service policy: a withheld service never runs; the gateway's gate and the
  worker's defaults agree on every stored value; the sender is told exactly what
  was taken away.
* Folders: a sent folder had every declared file; its terms are fixed by the seal
  that won; members never run QC; the purge sets out to take no file of a live folder
  that its seal and its revocation have reached, and reclaims every file of a dead one.
* Downloads: no more downloads than the link allows; nothing downloadable without
  its ledger line; a URL rests on a grant of its own file; a dead link goes dark.
* Payments: nothing admitted that the provider or its merchant did not settle, nor
  beyond the budget; a link carries the terms of its own order; a payment is honoured.
* Worker: nothing a model says softens a measured failure or warning; the report
  and the manifest agree; the manifest lists what its run stored; jobs end.
* Interpretive run: a rejection rests on two differently named models and the
  synthesis; a cited concern keeps a delivery back; every answer is billed once;
  runs end.
* AI quality control and synthetic lane: instruments outrank models, silence clears
  nothing, what was suspected stays suspected, samples stay inside the program and
  within budget.

## Modules

| Module | What it models |
|---|---|
| `ServicePolicy` | options values, `sanitizeOptions`, `applyServicePolicy`, `anyServiceOn`, the worker's `SERVICE_FLAGS`; operators only |
| `Uploads` | POST `/uploads`, POST `/uploads/complete`, POST `/events/b2`, crashes, the store's multipart life |
| `Folders` | the folder routes, member uploads, deadlines, the seal and the operator's revocation member by member, the passes of the purge |
| `Credits` | abstract specification of a download allowance |
| `Downloads` | GET `/transfers/:id/original` with grants, continuation tokens, unlock cookies and the egress ledger |
| `Payments` | checkout, charge, webhook, lookup, payment-backed session, budget, terms |
| `Delivery` | a report's recomputed status, the gate it makes and its joining with a proposal; operators only |
| `Authority` | the policy reducer `decide` over observations of the models; operators only |
| `Worker` | `run_pipeline`: one or two jobs on a transfer, step by step, with failing calls and crashes; EXTENDS `Delivery` |
| `Interpretive` | `run_explicit_interpretive`: planner, evidence, lanes on threads, synthesis, decision; EXTENDS `Authority` |
| `InterpretiveStep` | abstract specification of the interpretive run: the one step `Worker` takes it for |
| `Timeline` | orders and choices over sequences by rank, which `Review`, `Synthetic` and `Sampling` share |
| `Review` | the review plan, the evidence plan and the sanitizer around a call; operators over sequences |
| `Coverage` | the registry of risks, the sanitised passes of the agentic inspection, the coverage table |
| `Lanes` | the AI lane with its support checks and hybrids, as functions of the provider's replies; EXTENDS `Coverage` |
| `Synthetic` | the synthetic lane: plan, ledgers, reducers, text, jury, coverage |
| `Sampling` | the frames, windows and requests the lanes and the poster take from a program |
| `Rules` | puts `Review`, `Lanes`, `Synthetic`, `Sampling` and `ServicePolicy` to one question at a time and states what must be true of every answer |
| `OptionsProofs`, `UploadsProofs`, `FoldersProofs`, `DownloadsProofs`, `PaymentsProofs`, `WorkerProofs`, `InterpretiveProofs`, `RulesProofs` | theorems and their proofs |
| `MC*` | values of the constants for TLC |

`Worker` and `Interpretive` share `Delivery`: `Worker` takes any result in its
`Outcomes` in one step, `InterpretiveStep` is that step as a specification of its own,
and `Interpretive`, with its stages, threads and failures, implements it. `Worker` and
`Rules` meet in `ServicePolicy`, whose flags are the services of an order.

### Correspondence with the code

Every definition is mapped to the lines it models in `PROJECT.json` (`map`).

**Gateway.** An action is the stretch of a handler from one `await` to the next. The
requests a handler has in flight are the slots of `req`; a slot's `at` says which
`await` it is at and its other fields hold the handler's local variables. Tables are
functions from ids to row contents, restricted to the columns that guards or
properties read. Fresh UUIDs are ids nobody holds. Time is never a number: deadlines
are actions that may happen at any moment (`Age`, `OwnDeadline`, `Die`,
`ExpireGrant`), constrained only where two deadlines have a fixed order. Faults
(`Crash*`, `*Fail`, `StoreReplyLost`) are actions; in `Uploads`, `Payments` and `Worker`
they have a bound, `MaxFaults`, in `Folders` and `Downloads` they happen any number of
times.

* `Uploads`: `upload` is the `uploads` table, `row` the `transfers` table, `billed`
  the transfers with a "transfer" line in `meter_events`, `store` the bucket,
  `notified` the notifications due, `jobs` what was handed to a worker. A transfer
  has one key and one multipart upload, so one id stands for all three. Completion
  is `CompleteStart`, `ListParts`, `Assemble`, `Record`; `Record` performs
  `setUploadState`, `saveTransfer` and `meter` without an `await` between, and
  `CrashWhileRecording` any proper prefix of them. `DevTrigger` selects the inline
  dispatch of development.
* `Folders`: `claim` is `folder_files.transfer_id`; `row[m].deadline` tells whether
  a member still carries its own expiry or its folder's; `passed` are the members
  whose own expiry and the purge's grace are over. Listing and assembling are one
  store call here. The folder's row and each member's are separate commits, so
  `MarkFolderReady` in a live process is one stretch and `SealCutShort` any proper part
  of it before a crash, `torn` being the members it did not reach; the operator's
  `setRecipientState` is `SetRevoked` on the folder's row and one `SetMemberRevoked(m)`
  for each member still `behind`, and may stop anywhere. `PurgeStart` reads the list
  of `runPurge` once, into `pass`; `Purge(m)` and `PurgeFails(m)` are one transfer's
  turn, in mode `on`, whatever its row says by then. A notification may be delivered
  again at any time. `torn` is observed only.
* `Downloads`: `owner` is `download_grants`, `ledger` the idempotency keys of the
  egress lines (inserts are `ON CONFLICT DO NOTHING`), `known` and `tokens` what a
  browser can present, `urls` the storage URLs handed out and still valid. `created[f]`
  is the hour in which the file's row was written, or `NoRow`: the object is there
  before its row, and a file without a row has no link, so neither allowance, password
  nor death, until `Record`. Originals are not empty, so every claim is metered (the
  code meters when the size is positive).
* `Payments`: `order` and `consumed` are columns of `payment_orders`, `charge` the
  provider's state ("full" or "short" of the amount, "resolved" when the merchant
  accepted a short one), `due` the webhooks to deliver, `cookie` the order of the
  session in the browser. `Gateway` says which provider an order is paid through, and
  `Reports` what that provider names: Stripe the amount it received, Coinbase the price
  that was asked, or no amount, for a charge that is confirmed or resolved. `Covers` and
  `SeenPaid` accept both of those. The provider charges in the
  currency it was asked for, so the currency comparison of `applyPaymentEvent` is
  not modelled (the lookup has none). The ceilings on active uploads and the
  recovery window of `mayUseUpload` are in `Uploads`; folder members in `Folders`.

**Pipeline steps.** In `Worker` an action is a step of `run_pipeline`, the whole of
its `try` block with every branch that leaves it: the step succeeds, is skipped, or
fails and leaves what its handler leaves. A step that puts two objects is two actions
(`Thumbnail` and `Selection`, `Interpretive` and `InterpretivePut`), because the second
can fail alone and another job can write between them. A put that raises may have stored
its object (`PutLost`). `pc[j]` is the step job `j` is
about to take, `job[j]` the local variables of its call (the report, the derivatives
list, the interpretive result), `store[k]` the job that last wrote a key.
`job[j].instruments` and `.alone` are observed only: the statuses the instruments
reported, and whether another job ran on the transfer meanwhile. What the instruments
and the AI lanes report is any of a set of statuses (`DetResult`, `AiResult`), and what
the interpretive run proposes is any disposition, HOLD when the run is not complete.

**Interpretive run.** `call[s]` holds the attempts of a stage: which of the stage's
model and the fallback is being asked, how often each was tried, the answers received
and what was kept. `tried` counts
the calls of each of the two roles, which one model may fill both.
`Start` takes a stage out of the queue of the pool when a thread is free; `Answers` and
`Raises` are the two ways a call returns, `Repaired` and
`RepairRaises` those of the one repair. The planner has no fallback model but a
deterministic plan. An answer is the set of observations `sanitize_observations` keeps
of it, the empty set when nothing is usable; how text becomes observations is in
`Review`. `received` counts the provider's answers and is observed only.

**Rules.** `Review`, `Coverage`, `Lanes`, `Synthetic` and `Sampling` are pure
operators, one for each function of the code that reduces, plans or samples. Times
are in ticks of 1/20 s, rounded down. A provider's reply is what the lane reads in it,
or a value for a call that raised (`Raised`, `Failed`), for text that is no JSON
object (`Unread`, or `Failed` where the code treats both alike), or in the synthetic lane
for an object of another shape than asked for (`Malformed`), which raises where it is
read and drops the whole lane. `missing` are the places where the media tool wrote no
frame or too little sound; a request answered with nothing is unavailable. The rule
`options` takes a request body through sanitising, the deployment's policy, the stored
row and the gate to the worker. A behaviour of `Rules` applies one rule to one input, so
the invariants are evaluated over all inputs of the configuration.

## Runs

Passing runs:

* `uploads` - two transfers (one above the QC size limit), two sessions of one
  owner, two requests in flight, one fault anywhere. Two requests are what every
  race of the handlers needs: the guards look at one other request at most. A
  second transfer makes the quotas bite. Sessions and requests are symmetric.
* `uploads_live` - three transfers under a ceiling of one, with the inline trigger
  of development. Three are the least with which two initiates can overshoot a
  ceiling of one by more than the bound of `ExposureBounded`. `FairSpec`, no
  symmetry.
* `folders` - one path sent twice by two members, two requests in flight, seals with
  and without a password, an operator who revokes and restores, both kinds of deadline,
  purge passes, and any number of crashes and failed calls (212,071 states). `FairSpec`,
  no symmetry. Paths interact only through `Missing`, which is a conjunction over paths,
  so one path and a superseded member reach the interesting cases of claims and seals.
  One path lists one member, so a seal or a revocation that reached some members and not
  others is in this instance only as all or none; the theorems cover the rest (two paths
  with three members exceed eleven million states).
* `downloads` - two files of a protected folder with a credit each, one of them not
  recorded at first, one browser with two requests in flight, two grants to mint, two
  hours of metering, any number of crashes and failed calls (587,636 states).
  `FairSpec`. Checks the refinement of `Credits` and that a dead link goes dark. Several
  recipients and files without an allowance from the start are not in this instance: the
  theorems cover them for all safety properties. (The file without a row exercises the
  branch without an allowance.)
* `payments` - two orders of two units bought in one browser, one through each provider,
  files and folders of one or two units, two requests in flight, one fault (92,163
  states). `FairSpec`.
* `worker` - orders for seven sets of services, with and without a key and the
  deployment's gate, in the three authority modes; three results of the instruments
  and two of a lane; one job, or two for an order that writes every object outside the
  interpretive run; one failing call, put with a lost reply or crash anywhere. `FairSpec`.
* `interpretive` - four deployments: a jury whose model is also the fallback, on two
  threads; a jury of its own with two attempts a stage on one thread; no jury and a
  fallback that cannot be called; no provider. Two risks, one that the models may
  reject for and one they may only hold for. Every lane can fail, answer nothing,
  clear or raise a defect; the synthesis has eight answers, among them one that
  cites nothing, two that omit a risk (one of them while it agrees with a defect) and
  one that did not look. `FairSpec`. Checks the refinement of `InterpretiveStep`.
* `rules` - about 390,000 inputs. Planner replies of up to three
  requests under small budgets; AI replies that are absent, unreadable, hostile or
  plausible beside readings of the instruments; pairs and triples of answers to be
  judged; ledgers and readings of text in any order, with replies of the wrong shape to
  each call; shots and anomalies at every subset of chosen times, requests inside, at and
  past the end, places that give nothing; request bodies (each service absent, true,
  false or junk, as far as `RawBodies` has them) under every combination of deployment
  switches and both sizes.

Runs that show a disagreement between the code and what its documents or comments
say (each is a `finding` with the quotation):

* `uploads_race` - the object-created notification is handled between
  `CompleteMultipartUpload` and `saveTransfer`. A missing row means "every service
  on", so a transfer-only upload is dispatched to QC. No fault is needed.
* `worker_cleared` - with the instruments off, the triage step opens a report whose
  status is pass; finalize finds no instrument's check in it and keeps pass, and the
  reducer takes it for a deterministic pass. A delivery nothing measured is READY.
* `interpretive_failure` - a lane whose provider failed is passed over when another
  lane answered: the run completes on the rest and the delivery is READY, although the
  documentation promises a hold for any provider failure.
* `rules_anchors` - over budget the timeline of the blind sweep is cut from its end, so
  an anchor or a flagged place is lost although all of them fit in the budget, where the
  comment says they are always retained.

Every property has a mutant, a plausible bug in one mapped definition, which makes
TLC find the property violated (`mutants` in `PROJECT.json`; the mutated forms stand
next to the definitions and are used by nothing else).

### Bounds

`MaxFaults` bounds crashes, failed calls and lost answers of `Uploads`, `Payments` and
`Worker`; one is enough in the runs because every handler writes in one stretch, every
step of a job forgets the failure
of the one before, and a second fault starts from a state the first could have left.
`MaxHour` bounds the hours a download is metered under. `MaxAttempts` bounds the
configured attempts of a stage; two are the least that retry. `MaxCrops` is the
configured number of text crops. `MaxActive`, `MaxJobs`, `MaxDaily` are the program's
own limits at small values. All other sets are ids: transfers, members, grants,
sessions, browsers, requests, jobs, models, evidence. The proofs do not depend on any
of them. The inputs of `rules` are chosen so that every branch of every rule is
reached; nothing beyond them is claimed.

### Fairness

* A handler whose awaited call was answered resumes: weak fairness of `RequestStep`
  (Node's event loop). The store answers: the store's steps are part of it.
* The sender's page asks for completion until it is told ok: strong fairness of
  `Retry`, because a slot for the request is free again and again but not for ever.
  It is assumed of the page, and only for `UnfaultedCompletes`.
* The bucket's lifecycle rule sweeps unfinished multipart uploads, the store
  delivers notifications, the provider repeats webhooks until answered: weak
  fairness of `Sweep`, `Notify`, `Webhook`.
* Time passes: weak fairness of `OwnDeadline`, `ExpireUrl`. The purge runs on a timer
  and tries a transfer again in every pass: weak fairness of `PurgeStart`, and strong
  fairness of `Purge(m)`, because a crash or a version that cannot be deleted takes a
  transfer off the list of a pass; the assumption is that this does not happen to it
  for ever.
* A job is a thread, and every call it makes returns or raises: weak fairness of
  `Take(j)`. Calls to model services have timeouts; that ffmpeg and the other media
  tools come to an end on a file is an assumption, since most of them run without
  one. Nothing is assumed of `Accept` and `Crash`.
* A stage's call returns or raises, a queued stage gets a thread of the pool when one
  is free, and the run's own thread goes on: weak fairness of each `Call(s)` and of
  `Run`.

No fairness is assumed of users (initiating, paying, downloading, revoking).

## Proofs

Every safety invariant and every action property of the passing runs is a theorem, for
any values of the constants that satisfy the assumptions the modules name:

* `Downloads`, `Uploads`, `Folders`, `Payments`, `Worker`, `Interpretive`: types of the
  parameters, and "none" values outside their sets. `Uploads` and `Payments` also assume
  that transfers, uploads and requests are finitely many (`FiniteAssumption`), and that
  ceilings, sizes and prices are positive (`BoundsAssumption`, `SizeAssumption`), since
  their bounds count; `Downloads` that the grants are.
* `Rules` assumes what makes an input one the code can be called with: `PlanAssumption`
  (numbers for duration and budgets; the requests a planner's reply is parsed into;
  instrument packets that ask for stills and clips inside the program, never for
  sequences), `ReportAssumption`, `JudgeAssumption`, `AssetAssumption` (the shape of
  replies that are not `Malformed`, and of readings), `FrameAssumption` (a program and a
  budget that are not empty, finitely many cuts and anomalies, requests with a type, a
  place and a span), `BodiesAssumption` (entries that are settings or junk). None of them
  bounds a length or a number.

By module:

* `DownloadsProofs`: `TypeCorrect`, `AllowanceHeld`, `MeteredFirst`, `RestsOnFile`,
  and `CreditsImplemented`: `Downloads` implements `Credits`. `WithinAllowance` is
  nearly inductive by itself (count and insert are one step); `NothingUnmetered` is
  not: a handler waiting for the store carries a key that it will hand out, so the
  invariant `RequestsInOrder` says that such a key is already in the ledger and
  belongs to the request's own file, and `TokensContinueHours` that a token is the line
  of an hour. A file with an allowance may have been served without a grant before it
  had its row; `PastOnly` (no line and no row is of an hour to come) is what keeps
  such a line apart from later ones. The refinement maps "open" to the files with a URL
  out, those of the hours before the row left aside, and "spent" to the number of
  grants; every step spends, opens, closes or stutters.
* `UploadsProofs`: `TypeCorrect`, `OneCallRecords`, `WritesInOrder`,
  `FirstCallRecorded`, `JobsRecorded`. The durable order is inductive only together
  with `RequestsPlaced`, which says what every request in flight has seen: that one
  request at most holds an assembled transfer rests on the store refusing to assemble
  a multipart upload twice. `ExposureHeld`
  bounds the overshoot of the ceilings; beside that invariant it needs no other, but each
  step is a fact about cardinalities (`SetsCounted`): an initiate that passes the quota
  was counted with fewer others than there are requests, a row takes the place of the
  request that waited for it, a record that of the active upload its request holds, and
  every other step only takes away (`Recedes`).
* `FoldersProofs`: `TypeCorrect`, `EveryPathIsSent`, `TermsStay`, `OnlyOvertakingRuns`,
  `PurgeSparesLive`. The check for missing paths reads uploads and rows of members, so
  `EveryPathWasSent` is inductive only with `Claimed` (the member a path names uploaded
  that very path) and `Placed` (one request at most creates a member or holds it
  assembled, so no row is overwritten). That the purge spares a live folder rests on
  `RowInOrder`: once a folder is ready, a listed member's row carries the folder's
  deadline, or came late, or was not reached by a seal that was cut short; and it is
  revoked only with the folder, or while the operator's process has yet to reach it.
  The statement is about what a pass puts on its list, for the list is not looked at
  again.
* `PaymentsProofs`: `TypeCorrect`, `NothingUnpaidEver`, `TermsFollowOrder`, `BudgetHeld`. The
  strengthening (`Placed`, `Unannounced`) says that an order in checkout has one
  handler and no payment, so the insert cannot overwrite a paid order, and that an
  upload row is written only for an order that was paid. "Paid" is settled as the
  code reads it: Stripe received the amount, or Coinbase did, or the merchant resolved
  the charge, whatever it had collected. `WithinBudget` does not mention
  `consumed`, which is what the guarded UPDATE compares with the price, so it is not
  inductive: `Budgeted` says of each order that what it admitted, awaits or has in folders
  was consumed and what is consumed was paid for, and of each initiate that waits that it
  holds an upload id nobody else has, so that the row takes over exactly what was
  reserved. Sums over a set of uploads are counted as a set of units (upload and number),
  whose cardinality the library's theorems handle.
* `OptionsProofs`: `WithheldStaysOff`, `GateAndWorkerAgree`, `EventIsHonest`,
  `PolicyOnlyTakesAway`, for every set of bodies. They are facts about
  `ServicePolicy`: the gate reads what the worker reads (`GateIsWorkerReading`), and the
  policy takes away what it reports (`PolicyTakesWhatItReports`).
* `WorkerProofs`: `TypeCorrect`, `InstrumentsAlwaysDecide`, `ManifestListsItsRun` and
  `DocumentsAlwaysAgree`, for any number of jobs, any results of the lanes and any number
  of faults. `InstrumentsAlwaysDecide` rests on two facts about the reducer
  alone: `JoinNeverSoftens` (what is joined with a proposal is at least as strict as the
  gate, in every mode) and `HoldModeNeverRejects`. `InstrumentsDecide` speaks of what is
  published and says nothing of the steps in between, so it is not inductive. The
  invariant adds where the instruments' statuses are: until finalize the report holds a
  check for each of them, whatever the lanes add, since `Opened` only adds; when
  the interpretive run begins the report's status counts their failures and warnings,
  because capping a model's failure leaves the instruments' checks alone; and every
  disposition a report or a result already carries is one that those statuses allow.
  `ManifestListsItsRun` and `DocumentsAlwaysAgree` follow from
  `StoreInOrder`, which relates the list of a job to the store: what an undisturbed job
  listed it also holds, what it holds and did not list is the poster whose selection
  is next, or the trace of a fault (a step that failed half way, a put whose reply was
  lost) and never a report beside a manifest, and a job that has not yet put the interpretive
  document does not list it. One lemma (`WritesKeep`) covers all steps, each given as
  the keys it stores and the keys it lists.
* `InterpretiveProofs`: `TypeCorrect`, `SpendIsAlwaysExact`, `TwoModelsAlwaysReject`,
  `CitedConcernAlwaysKeepsBack`, for any policy, models, answers and evidence, and
  `StepImplemented`: `Interpretive` implements `InterpretiveStep`. The
  invariant says of each call that its answers, attempts and outcome fit its state
  (`CallsInOrder`: a stage that never asked kept nothing, and what it kept names the
  model it used), of the run which stages can be under way in which phase
  (`PhasesInOrder`), and that `received` is the sum of the answers; `SpendIsExact` bounds
  the calls of each role of a stage, since one model may fill both. From it the two
  properties of the decision follow by what the reducer accepts: observations of two
  distinct sources come from two lanes whose used models differ, because all
  observations of one lane name one model. The refinement maps "returned" to the decision
  of a run that is done; storing evidence, deciding and raising are the three abstract
  steps, and every call of a stage is a stutter.
* `RulesProofs`: seven theorems about the answers of the rules, for inputs of any length.
  A behaviour of `Rules` applies one rule to one input, so its invariant (`AlwaysApplied`)
  only says that the input is one of the rule's, and each theorem is a fact about
  operators:
  * `InstrumentsAlwaysOutrank` and `SilenceNeverClears` follow the coverage table case by
    case; the second needs that no lane makes a passing check of an unreadable reply.
  * `RejectsOnlySupported`: an observation that enforces a rejection comes from an item
    the sanitizer left as a concern, and the two lanes that agree are two sources.
  * `SuspicionAlwaysSurvives`: a lane that comes to its end was asked the same with and
    without a juror, whose reply reaches neither the findings nor the table; among readings
    that are all legible and not all equal two neighbours differ. A lane is lost only to a
    reply of the wrong shape (`LostToShape`).
  * `SweepLosesOnlyItsEnd` (no run's property: what is true of the sweep where
    `AnchorsRetained`, the comment's claim, is violated): thinning keeps a time or one
    less than a gap before it, and
    keeps what it kept when it thins again; what has to be looked at passes two thinnings
    before the budget cuts the list, hence two gaps.
  * `SamplesAlwaysInside`: every list of samples is a set of times inside the program,
    thinned or strided, so it is in order and apart. A request is cut to what is left
    of the program before its stills are spread over it, and a place past the end gives
    nothing.
  * `ContinuityAlwaysSampled`: a sequence that is put first, or stands among as many
    pictures as there are frames for, is within the budget when the same requests are
    taken out, because the first requests of a list only move forward; putting them in
    the order of time comes after. A planner's reply that was kept has no more pictures
    than frames, and the deterministic plan leads with its sequence.

  The orders and thinnings of `Timeline` and `Sampling` are proved without the induction
  theorems of the library: numbers and finite sets have a least counterexample
  (`LeastNumber`), and the lemmas say of it that the one before is a counterexample too.

Two attempts that failed were findings about the model. `LossIsAtTheEnd`, which
`SweepLosesOnlyItsEnd` proves, used to say that
what the sweep has to look at has a frame within one gap before it; with cuts {62},
anomalies <<70, 72>> and <<76, 80>>, a budget of three and a program of 200 ticks, an
anomaly gives way to another and that one to a shot. Two gaps (14 ticks) is what the code
gives, and what the property now says. The proof of `ContinuityIsSampled` showed that it
depends on the policy having the temporal risk, which its statement had left to the
instance.

Only model-checked: the liveness properties (`UnfaultedCompletes`, `EveryMemberReclaimed`,
`RevokedGoesDark`, `PaymentIsHonoured`, `EveryJobDelivers`, `EveryRunEnds`), since the
prover handles neither fairness nor ENABLED. Each is checked on the instances above only.
No module declares a RECURSIVE operator.

## Not modelled

* The instruments: they turn a file into numbers by external tools and thresholds.
  `Worker` takes any set of statuses they can report, `Coverage` any checks.
* In the worker: the shadow interpretive lane (an opt-in that adds informational
  checks only), the prompts, the readings of triage beyond which lanes it leaves on,
  progress events and the metering posted to the gateway.
* In the synthetic lane: the passport, the diagnostics and the handoff packets, which
  annotate findings and change none.
* In the purge: the deletes of single versions, which are one step of `Folders` that
  succeeds or leaves the transfer to the next pass, and the limit on the length of a
  pass. Transfers outside folders are reclaimed by the same code.
* Sessions and access codes, unlock limits: a signed cookie with a clock, and counters
  in memory. `Uploads` and `Payments` take a session as given, `Downloads` an unlock
  cookie.
* The price arithmetic, path and manifest validators: pure functions of one input.
* The client's engines: their requests are the arbitrary requests of `Uploads` and
  `Downloads`; part scheduling, resume and range arithmetic are not modelled.
* Signatures, hashes, passwords and rate limits as such: a signed value is
  something only the gateway makes. Signing of part URLs changes no state.
* Progress events, email, statistics, start-up: display, one outbound call,
  read-only aggregates, configuration.

### Known limits of the code

What the modelling met and no run checks as a property; most are behaviours of the
models.

Gateway:

* The store assembled the object and its answer was lost, or the process died: every
  retry of the completion lists a multipart upload that no longer exists and fails
  (`gateway/src/routes.ts:831`; `Assemble`, `StoreReplyLost` of `Uploads`).
* The process can die between `setUploadState` and `saveTransfer`; every retry is
  then answered `alreadyComplete` and nothing records the transfer
  (`gateway/src/routes.ts:832`). `WriteOrder` says no more than that the record is
  never ahead.
* Between assembly and record a file is an unknown transfer, and an unknown transfer is
  not revoked and has neither password nor allowance: a member opens before its folder is
  ready, and a file that is to be protected or limited opens without password or credit
  (`gateway/src/db.ts:351`, `routes.ts:1043`; `Admit` and `Finite` of `Downloads`). After a
  crash between the two it stays so.
* A second initiate of a path, in flight while the first upload completes and the
  folder is sealed, takes the path away from the file that was sent; the folder opens
  without it (`gateway/src/routes.ts:701`). `EveryPathWasSent` says what is left: every
  path was sent once, by some member.
* A member of a folder carries its own expiry from its completion until the seal. A
  folder sealed after that expiry and the purge's grace opens without those files
  (`gateway/src/db.ts:575`).
* A seal that a crash cut short leaves members on their own expiry. The retry is answered
  `alreadyComplete` and writes nothing, so the purge takes those files of a live folder when
  their own expiry is over (`gateway/src/db.ts:573`; `SealCutShort` of `Folders`).
* The operator's revocation writes the folder and then each member. Stopped in between, the
  link is dead and its other members are not reclaimed until they expire; a restoration
  stopped in between leaves revoked members in a live folder, which the purge takes
  (`gateway/src/db.ts:322`; `SetRevoked`, `SetMemberRevoked`).
* The purge reads its list once and does not look at a row again: a link restored
  meanwhile loses its file all the same (`gateway/src/purge.ts:51`).
* The budget of an order is consumed before the store is asked for a multipart upload.
  When that call fails, the file that was paid for no longer fits
  (`gateway/src/routes.ts:679`).
* A grant whose answer is lost was spent: with no grant to present, the retry spends a
  second credit (`gateway/src/routes.ts:1051`).
* The count of wrong passwords is read before the body is awaited, so more guesses
  than the limit can be in flight (`gateway/src/routes.ts:953`).
* A job is posted once; when the worker is down the failure is logged and nothing
  posts it again (`gateway/src/pipeline.ts:23`).
* The active-upload ceiling can be overshot by the initiates in flight;
  `ExposureBounded` gives the exact measure.
* A Coinbase event carries the amount that was asked, not the amount collected, and a
  charge the merchant resolved counts as paid (`gateway/src/payments.ts:217`): an
  underpaid order the merchant accepts is honoured in full. `NothingUnpaid` counts such a
  charge as settled.
* The operator's SQL of `docs/demo-script.md:319` revokes without `revoked_at`, which
  the purge asks for, and touches only the folder's row, never its members'.

Pipeline:

* The coarse evidence of the synthetic lane, called full-timeline, loses its tail when it
  is over budget (`pipeline/worker.py:2448`), as the blind sweep's does (`rules_anchors`).
* A reply of a synthetic call that parses and has the wrong shape raises where it is read
  and drops the whole lane with the findings it had; the juror's, who is to confirm them,
  too (`pipeline/worker.py:3184`). `SuspicionSurvives` says what holds of a lane that comes
  to its end.
* Readings of a text with an illegible one in between ("open", blank, "0pen") are compared
  with their neighbours only and give no finding (`pipeline/qc/generated.py:378`).
* The support check of captions is not guarded: its exception throws away what the other
  calls of the lane had answered (`pipeline/worker.py:2342`; `Lanes`).
* A concern whose cited evidence was all rejected drops out of what the reducer looks at
  (`pipeline/qc/ai_authority.py:151`); `CitedConcernKeepsBack` is about cited ones.
* When the interpretive document cannot be stored, the report says HOLD and the manifest
  still embeds a complete run (`pipeline/worker.py:3244`); `DocumentsAgree` leaves that
  case out.
* A readable escalation reply that gives no verdict passes
  (`pipeline/worker.py:1955`).
* The jury sees the first twelve prior observations only
  (`pipeline/qc/interpretive_run.py:551`), and the models the first eighty cues
  (`pipeline/worker.py:1463`).
* The manifest shows the agent steps as succeeded when the critic was skipped
  (`pipeline/worker.py:3376`).
* A handoff packet looks for assertion ids that no finding carries, so it never names a
  clause (`pipeline/worker.py:2601`).

## Plan

1. `Sessions`: login, sliding refresh, revocation and logout against requests in
   flight; `Unlock`: failure windows and limiters against concurrent guesses.
2. `UploadEngine` and the delivery engine of the client: part scheduling, retries and
   resume; ranged download with renewal of the URL; composed with `Uploads` and
   `Downloads` through their routes.
3. Proofs: the invariants of the modules of 1 and 2; that `WritesInOrder` survives its
   composition with the upload engine.
