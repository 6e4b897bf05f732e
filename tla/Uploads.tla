------------------------------- MODULE Uploads -------------------------------
(***************************************************************************)
(* The life of a single-file transfer on the control plane: initiate,      *)
(* complete, and the object-created notification that may dispatch QC.     *)
(*                                                                         *)
(* The gateway is one Node process.  A handler runs without interruption   *)
(* between two awaits, so an action is the stretch of a handler from one   *)
(* await to the next; the requests in flight are the slots of `req`.  Every *)
(* SQLite statement commits on its own, so a crash can fall between the    *)
(* writes of one stretch (CrashWhileRecording).                            *)
(*                                                                         *)
(* Transfer ids are fresh UUIDs and a transfer has one object key and one  *)
(* multipart upload, so one identifier stands for all of them.  The bytes  *)
(* go from the browser to the store directly and are not modelled here:    *)
(* "parts" is a multipart upload the sender may ask to complete.           *)
(***************************************************************************)
EXTENDS Naturals, FiniteSets, ServicePolicy

CONSTANTS
  Transfer,     \* transfer ids randomUUID may mint
  Session,      \* sessions of ONE owner (a new login is a new session)
  Request,      \* slots for requests the gateway has in flight
  Choice,       \* what a page may send along: options, recipient password
  Oversized,    \* transfers whose assembled bytes exceed MAX_QC_BYTES
  Deploy,       \* the deployment's service switches
  MaxActive,    \* MAX_ACTIVE_UPLOADS_PER_SESSION
  MaxJobs,      \* MAX_JOBS_PER_SESSION
  MaxDaily,     \* MAX_DAILY_JOBS
  MaxFaults,    \* bound on crashes and lost store replies
  DevTrigger,   \* DEV_TRIGGER_ON_COMPLETE: no notifications, dispatch inline
  NoRow, NoTransfer, NoSession, NoChoice

Terms == [options : Options, protected : BOOLEAN]

ASSUME ChoiceAssumption == Choice \subseteq Terms /\ Choice # {}
ASSUME OversizedAssumption == Oversized \subseteq Transfer
ASSUME DeployAssumption == Deploy \in Deployment /\ DevTrigger \in BOOLEAN
\* A ceiling that is not positive is read as the default (limits.ts, num).
ASSUME BoundsAssumption ==
  /\ MaxActive \in Nat \ {0} /\ MaxJobs \in Nat \ {0} /\ MaxDaily \in Nat \ {0}
  /\ MaxFaults \in Nat
ASSUME FiniteAssumption == IsFiniteSet(Transfer) /\ IsFiniteSet(Request)
ASSUME NoneAssumption ==
  /\ NoRow \notin Terms
  /\ NoTransfer \notin Transfer
  /\ NoSession \notin Session
  /\ NoChoice \notin Choice

VARIABLES
  upload,     \* uploads: lifecycle state, owning session, older than a day
  row,        \* transfers: the recorded terms, or NoRow
  billed,     \* transfers with a "transfer" line in meter_events
  store,      \* the object store: "nothing", "parts" or "object"
  acked,      \* transfers whose completion was answered with ok
  req,        \* requests in flight
  notified,   \* object-created notifications the store has yet to deliver
  jobs,       \* options of every job handed to a worker, per transfer
  faults      \* crashes and lost replies so far

durable == <<upload, row, billed>>
vars == <<upload, row, billed, store, acked, req, notified, jobs, faults>>

Idle == [at |-> "idle", t |-> NoTransfer, s |-> NoSession, ask |-> NoChoice]

Steps == {"creating", "created", "listing", "assembling", "assembled"}

Init ==
  /\ upload = [t \in Transfer |-> [state |-> "absent", s |-> NoSession, old |-> FALSE]]
  /\ row = [t \in Transfer |-> NoRow]
  /\ billed = {}
  /\ store = [t \in Transfer |-> "nothing"]
  /\ acked = {}
  /\ req = [r \in Request |-> Idle]
  /\ notified = {}
  /\ jobs = [t \in Transfer |-> {}]
  /\ faults = 0

-----------------------------------------------------------------------------
\* The counts behind the cost controls.  Both look back one day: the day of
\* the job caps and the default active-upload window are the same 24 hours.
ActiveUploads(s) ==
  {t \in Transfer : upload[t].state = "active" /\ upload[t].s = s /\ ~upload[t].old}

CompletedToday ==
  {t \in Transfer : upload[t].state = "complete" /\ ~upload[t].old}

DoneToday(s) == {t \in CompletedToday : upload[t].s = s}

\* Mutant: the active-upload ceiling is not checked.
QuotaIgnoresActive(s) ==
  /\ Cardinality(DoneToday(s)) < MaxJobs
  /\ Cardinality(CompletedToday) < MaxDaily

QuotaAllows(s) ==
  /\ Cardinality(DoneToday(s)) < MaxJobs
  /\ Cardinality(CompletedToday) < MaxDaily
  /\ Cardinality(ActiveUploads(s)) < MaxActive

\* A UUID nobody holds.
Fresh ==
  {t \in Transfer : /\ upload[t].state = "absent"
                    /\ store[t] = "nothing"
                    /\ \A r \in Request : req[r].t # t}

\* Another session of the same owner may take an upload over, for a day.
MayUse(s, t) ==
  /\ upload[t].state # "absent"
  /\ upload[t].s = s \/ ~upload[t].old

Moves(r, from, to) ==
  /\ req[r].at = from
  /\ req' = [req EXCEPT ![r] = [@ EXCEPT !.at = to]]

-----------------------------------------------------------------------------
\* POST /uploads up to `await g.initiate`: the checks, and a fresh id.
InitiateStart(r, s) ==
  /\ req[r] = Idle
  /\ QuotaAllows(s)
  /\ \E t \in Fresh :
       req' = [req EXCEPT ![r] =
                 [at |-> "creating", t |-> t, s |-> s, ask |-> NoChoice]]
  /\ UNCHANGED <<durable, store, acked, notified, jobs, faults>>

\* The store creates the multipart upload.
StoreCreate(r) ==
  /\ Moves(r, "creating", "created")
  /\ store' = [store EXCEPT ![req[r].t] = "parts"]
  /\ UNCHANGED <<durable, acked, notified, jobs, faults>>

\* ... and the handler resumes: createUpload, answer.
InitiateRow(r) ==
  /\ req[r].at = "created"
  /\ upload' = [upload EXCEPT ![req[r].t] =
                  [state |-> "active", s |-> req[r].s, old |-> FALSE]]
  /\ req' = [req EXCEPT ![r] = Idle]
  /\ UNCHANGED <<row, billed, store, acked, notified, jobs, faults>>

\* The store refuses, or its answer is lost: the handler fails with no row.
InitiateFail(r) ==
  /\ req[r].at \in {"creating", "created"}
  /\ faults < MaxFaults
  /\ faults' = faults + 1
  /\ req' = [req EXCEPT ![r] = Idle]
  /\ UNCHANGED <<durable, store, acked, notified, jobs>>

-----------------------------------------------------------------------------
\* Mutant: the job quotas are checked at completion too.
CompleteUnderQuota(r, s, t) ==
  /\ req[r] = Idle
  /\ MayUse(s, t)
  /\ upload[t].state = "active" => QuotaAllows(s)
  /\ \/ /\ upload[t].state = "complete"
        /\ acked' = acked \union {t}
        /\ UNCHANGED req
     \/ /\ upload[t].state = "active"
        /\ \E c \in Choice :
             req' = [req EXCEPT ![r] = [at |-> "listing", t |-> t, s |-> s, ask |-> c]]
        /\ UNCHANGED acked
  /\ UNCHANGED <<durable, store, notified, jobs, faults>>

\* POST /uploads/complete up to `await g.complete`.  Every call brings its own
\* selections: a page that was reopened may send others than the first did.
CompleteStart(r, s, t) ==
  /\ req[r] = Idle
  /\ MayUse(s, t)
  /\ \/ /\ upload[t].state = "complete"          \* alreadyComplete
        /\ acked' = acked \union {t}
        /\ UNCHANGED req
     \/ /\ upload[t].state = "active"
        /\ \E c \in Choice :
             req' = [req EXCEPT ![r] =
                       [at |-> "listing", t |-> t, s |-> s, ask |-> c]]
        /\ UNCHANGED acked
  /\ UNCHANGED <<durable, store, notified, jobs, faults>>

\* ListParts answers for an unfinished multipart upload only.
ListParts(r) ==
  /\ Moves(r, "listing", "assembling")
  /\ store[req[r].t] = "parts"
  /\ UNCHANGED <<durable, store, acked, notified, jobs, faults>>

\* CompleteMultipartUpload: the object appears and its notification is due.
Assemble(r) ==
  /\ Moves(r, "assembling", "assembled")
  /\ store[req[r].t] = "parts"
  /\ store' = [store EXCEPT ![req[r].t] = "object"]
  /\ notified' = IF DevTrigger THEN notified ELSE notified \union {req[r].t}
  /\ UNCHANGED <<durable, acked, jobs, faults>>

\* Mutant: NoSuchUpload is taken to mean "assembled already" and recorded.
RefusalTolerated(r) ==
  /\ req[r].at \in {"listing", "assembling"}
  /\ store[req[r].t] # "parts"
  /\ req' = [req EXCEPT ![r] = [@ EXCEPT !.at = "assembled"]]
  /\ UNCHANGED <<durable, store, acked, notified, jobs, faults>>

\* The multipart upload is gone (assembled by another call, or swept): the
\* store answers NoSuchUpload and the handler ends with an error.
StoreRefuses(r) ==
  /\ req[r].at \in {"listing", "assembling"}
  /\ store[req[r].t] # "parts"
  /\ req' = [req EXCEPT ![r] = Idle]
  /\ UNCHANGED <<durable, store, acked, notified, jobs, faults>>

\* A store call of g.complete fails on the network, or its answer is lost
\* after the store acted: the handler ends with an error either way.
StoreReplyLost(r) ==
  /\ req[r].at \in {"listing", "assembling", "assembled"}
  /\ faults < MaxFaults
  /\ faults' = faults + 1
  /\ req' = [req EXCEPT ![r] = Idle]
  /\ UNCHANGED <<durable, store, acked, notified, jobs>>

\* What the handler stores: the page's selections under the policy.
RecordedTerms(t, ask) ==
  [ask EXCEPT !.options = ApplyServicePolicy(Deploy, @, t \in Oversized)]

\* saveTransfer: an upsert whose COALESCEs keep what is already there when the
\* new value is NULL.
SavedRow(t, ask) ==
  LET new == RecordedTerms(t, ask)
      old == row[t]
  IN IF old = NoRow THEN new
     ELSE [options   |-> IF new.options.given THEN new.options ELSE old.options,
           protected |-> new.protected \/ old.protected]

\* Mutant: the transfer is saved before the upload is marked complete.
WritesSwapped(t, ask, n) ==
  /\ row'    = IF n >= 1 THEN [row EXCEPT ![t] = SavedRow(t, ask)] ELSE row
  /\ upload' = IF n >= 2 THEN [upload EXCEPT ![t] = [@ EXCEPT !.state = "complete"]] ELSE upload
  /\ billed' = IF n >= 3 THEN billed \union {t} ELSE billed

\* The first n of the three durable writes that follow g.complete:
\* setUploadState, saveTransfer, meter.
Writes(t, ask, n) ==
  /\ upload' = IF n >= 1 THEN [upload EXCEPT ![t] = [@ EXCEPT !.state = "complete"]] ELSE upload
  /\ row'    = IF n >= 2 THEN [row EXCEPT ![t] = SavedRow(t, ask)] ELSE row
  /\ billed' = IF n >= 3 THEN billed \union {t} ELSE billed

\* Handing a job to the worker is fire and forget: it may never arrive.
Dispatch(t, options) ==
  IF AnyServiceOn(options)
  THEN \/ jobs' = [jobs EXCEPT ![t] = @ \union {options}]
       \/ UNCHANGED jobs
  ELSE UNCHANGED jobs

\* The rest of /uploads/complete: all three writes and the answer.
Record(r) ==
  /\ req[r].at = "assembled"
  /\ LET t == req[r].t IN
       /\ Writes(t, req[r].ask, 3)
       /\ acked' = acked \union {t}
       /\ IF DevTrigger THEN Dispatch(t, RecordedTerms(t, req[r].ask).options) ELSE UNCHANGED jobs
  /\ req' = [req EXCEPT ![r] = Idle]
  /\ UNCHANGED <<store, notified, faults>>

-----------------------------------------------------------------------------
\* Mutant: the handler reads options kept in memory, lost by a restart.
NotifyForgetful(t) ==
  /\ t \in notified
  /\ Dispatch(t, IF row[t] = NoRow \/ faults > 0 THEN NoOptions ELSE row[t].options)
  /\ \/ notified' = notified \ {t}
     \/ UNCHANGED notified
  /\ UNCHANGED <<durable, store, acked, req, faults>>

\* POST /events/b2.  The store delivers at least once: a notification whose
\* acknowledgement is lost stays due.
Notify(t) ==
  /\ t \in notified
  /\ Dispatch(t, IF row[t] = NoRow THEN NoOptions ELSE row[t].options)
  /\ \/ notified' = notified \ {t}
     \/ UNCHANGED notified
  /\ UNCHANGED <<durable, store, acked, req, faults>>

\* The process dies and restarts: requests in flight are gone, rows are not.
Crash ==
  /\ faults < MaxFaults
  /\ faults' = faults + 1
  /\ req' = [r \in Request |-> Idle]
  /\ UNCHANGED <<durable, store, acked, notified, jobs>>

\* The process dies between two of the writes of Record.
CrashWhileRecording(r) ==
  /\ req[r].at = "assembled"
  /\ faults < MaxFaults
  /\ faults' = faults + 1
  /\ \E n \in 1..2 : Writes(req[r].t, req[r].ask, n)
  /\ req' = [q \in Request |-> Idle]
  /\ UNCHANGED <<store, acked, notified, jobs>>

\* A day passes for an upload.
Age(t) ==
  /\ upload[t].state # "absent"
  /\ ~upload[t].old
  /\ upload' = [upload EXCEPT ![t] = [@ EXCEPT !.old = TRUE]]
  /\ UNCHANGED <<row, billed, store, acked, req, notified, jobs, faults>>

\* The bucket's lifecycle rule removes multipart uploads a day old; one with
\* no row belongs to an initiate that failed.
Sweep(t) ==
  /\ store[t] = "parts"
  /\ \/ upload[t].old
     \/ upload[t].state = "absent" /\ \A r \in Request : req[r].t # t
  /\ store' = [store EXCEPT ![t] = "nothing"]
  /\ UNCHANGED <<durable, acked, req, notified, jobs, faults>>

-----------------------------------------------------------------------------
RequestStep(r) ==
  \/ StoreCreate(r) \/ InitiateRow(r)
  \/ ListParts(r) \/ Assemble(r) \/ StoreRefuses(r) \/ Record(r)

Next ==
  \/ \E r \in Request :
       \/ RequestStep(r)
       \/ InitiateFail(r) \/ StoreReplyLost(r) \/ CrashWhileRecording(r)
       \/ \E s \in Session : InitiateStart(r, s)
       \/ \E s \in Session, t \in Transfer : CompleteStart(r, s, t)
  \/ \E t \in Transfer : Notify(t) \/ Age(t) \/ Sweep(t)
  \/ Crash

Spec == Init /\ [][Next]_vars

\* Node resumes a handler whose store call has been answered, the store
\* answers, and the sender's page asks for completion again until told ok.
Retry(t) == \E r \in Request, s \in Session : t \notin acked /\ CompleteStart(r, s, t)

Fairness ==
  /\ \A r \in Request : WF_vars(RequestStep(r))
  /\ \A t \in Transfer : SF_vars(Retry(t)) /\ WF_vars(Sweep(t)) /\ WF_vars(Notify(t))

FairSpec == Spec /\ Fairness

-----------------------------------------------------------------------------
RequestType ==
  [at : Steps \union {"idle"}, t : Transfer \union {NoTransfer},
   s : Session \union {NoSession}, ask : Choice \union {NoChoice}]

TypeOK ==
  /\ upload \in [Transfer -> [state : {"absent", "active", "complete"},
                             s : Session \union {NoSession}, old : BOOLEAN]]
  /\ row \in [Transfer -> Terms \union {NoRow}]
  /\ billed \in SUBSET Transfer
  /\ store \in [Transfer -> {"nothing", "parts", "object"}]
  /\ acked \in SUBSET Transfer
  /\ req \in [Request -> RequestType]
  /\ notified \in SUBSET Transfer
  /\ jobs \in [Transfer -> SUBSET Options]
  /\ faults \in 0..MaxFaults

Initiating(t) ==
  {r \in Request : req[r].at \in {"creating", "created"} /\ req[r].t = t}

Recording(t) == {r \in Request : req[r].at = "assembled" /\ req[r].t = t}

\* However many completions of one transfer are in flight (a retry while the
\* first call still runs, two tabs), at most one of them gets past the store,
\* and it is the first ever: only it may record and meter the transfer.
OneAssembler ==
  \A t \in Transfer :
    /\ Cardinality(Recording(t)) <= 1
    /\ Recording(t) # {} => upload[t].state = "active" /\ row[t] = NoRow

\* The durable writes keep their order across a crash: an upload marked
\* complete has its object, a recorded transfer is marked complete, and a
\* metered transfer is recorded.
WriteOrder ==
  \A t \in Transfer :
    /\ upload[t].state = "complete" => store[t] = "object"
    /\ row[t] # NoRow => upload[t].state = "complete"
    /\ t \in billed => row[t] # NoRow

\* "The first call wins": once recorded, no later or concurrent completion
\* changes a transfer's options or its password.
FirstCallWins ==
  [][\A t \in Transfer : row[t] # NoRow => row'[t] = row[t]]_vars

\* After a restart too, a job dispatched for a recorded transfer carries the
\* recorded options, which is why they are stored and not kept in memory.
JobsFollowTheRecord ==
  [][\A t \in Transfer :
       row'[t] # NoRow =>
         \A o \in jobs'[t] \ jobs[t] : o = row'[t].options /\ AnyServiceOn(o)]_vars

InFlightInitiates(s) ==
  {r \in Request : req[r].at \in {"creating", "created"} /\ req[r].s = s}

\* The ceilings are read before `await g.initiate` and the row is written after
\* it, so they can be overshot, but only by the initiates in flight.
ExposureBounded ==
  \A s \in Session :
    LET active == Cardinality(ActiveUploads(s)) + Cardinality(InFlightInitiates(s))
        done   == Cardinality(DoneToday(s))
    IN /\ active <= (MaxActive - 1) + Cardinality(Request)
       /\ active + done <= (MaxJobs - 1) + (MaxActive - 1) + Cardinality(Request)

\* Without crashes and lost replies every started upload ends: acknowledged as
\* complete, or its parts swept by the bucket's lifecycle rule.
UnfaultedCompletes ==
  \A t \in Transfer :
    upload[t].state = "active" ~> (t \in acked \/ store[t] = "nothing" \/ faults > 0)

\* README and ARCHITECTURE: with every service flag off no job is dispatched.
\* The notification can overtake the record (see the finding).
AllOffMeansNoJob ==
  \A t \in Transfer :
    row[t] # NoRow /\ ~AnyServiceOn(row[t].options) => jobs[t] = {}
=============================================================================
