------------------------------- MODULE Worker -------------------------------
(***************************************************************************)
(* The pipeline worker (pipeline/worker.py): run_pipeline as one action    *)
(* per step, from the download of the master to the provenance manifest,   *)
(* with what each step leaves in the report, in the derivatives list and   *)
(* in the object store when it succeeds and when it fails.                 *)
(*                                                                         *)
(* The store can deliver a notification twice: two jobs then run on one    *)
(* transfer and write the same keys.  A failing external call, the loss of *)
(* the process included, is a fault; MaxFaults bounds them.  A put that    *)
(* raises may have stored its object: what was lost is then the reply.     *)
(***************************************************************************)
EXTENDS Delivery

CONSTANTS
  Job,        \* runs of the pipeline on one transfer
  Order,      \* what a sender can ask for and a deployment allow (OrderType)
  Duplicated, \* the orders whose notification is delivered twice
  DetResult,  \* the sets of statuses the instruments can report
  AiResult,   \* the sets of statuses an AI lane can report
  MaxFaults,
  NoReport, NoResult, Nobody

Service == {"thumbnail", "qc_av", "qc_captions", "qc_ai", "qc_synthetic",
            "ai_interpretive", "summarize"}

\* key: GMI_API_KEY is set.  gate: AI_INTERPRETIVE_RUN_ENABLED.
OrderType == [services : SUBSET Service, key : BOOLEAN, gate : BOOLEAN, mode : Mode]

\* The objects a run writes under derivatives/<transfer>/; "evidence" stands
\* for the frames and clips of the interpretive run.
Key == {"evidence", "interpretive", "thumb", "selection", "report", "manifest"}

Step == {"fetch", "probe", "qc", "triage", "ai", "synthetic", "finalize",
         "interpretive", "interpretive_put", "thumbnail", "selection",
         "report", "summarize", "manifest"}
Steps == Step \cup {"waiting", "done", "dead"}

\* status is "none" until a report is finalized, and disposition until an
\* interpretive run decided.
ReportType ==
  [checks : SUBSET [source : Sources, status : Status],
   status : Status \cup {"none"}, disposition : Disposition \cup {"none"}]

ResultType == [complete : BOOLEAN, disposition : Disposition]

\* instruments is what run_qc reported and alone is FALSE once another job
\* worked beside this one or after it: both are only observed.
JobType ==
  [probed : BOOLEAN, sidecar : BOOLEAN, instruments : DetResult \cup {{}},
   report : ReportType \cup {NoReport}, run : SUBSET {"qc_ai", "qc_synthetic"},
   result : ResultType \cup {NoResult}, derivatives : SUBSET Key, alone : BOOLEAN]

ASSUME WorkerAssumption ==
  /\ Order \subseteq OrderType /\ Duplicated \subseteq Order
  /\ DetResult \subseteq (SUBSET Status) \ {{}}
  /\ AiResult \subseteq SUBSET Status
  /\ MaxFaults \in Nat
  /\ NoReport \notin ReportType /\ NoResult \notin ResultType /\ Nobody \notin Job

VARIABLES
  order,   \* the sender's services under the worker's deployment
  pc,      \* pc[j]: the step job j is about to take
  job,     \* job[j]: the local variables of run_pipeline (JobType)
  store,   \* store[k]: the job that last wrote key k
  faults

vars == <<order, pc, job, store, faults>>

TypeOK ==
  /\ order \in Order
  /\ pc \in [Job -> Steps]
  /\ job \in [Job -> JobType]
  /\ store \in [Key -> Job \cup {Nobody}]
  /\ faults \in 0..MaxFaults

-----------------------------------------------------------------------------
Asked(s) == s \in order.services

Blank ==
  [probed |-> FALSE, sidecar |-> FALSE, instruments |-> {}, report |-> NoReport,
   run |-> {}, result |-> NoResult, derivatives |-> {}, alone |-> TRUE]

Running(j) == pc[j] \in Step

Init ==
  /\ order \in Order
  /\ pc = [j \in Job |-> "waiting"]
  /\ job = [j \in Job |-> Blank]
  /\ store = [k \in Key |-> Nobody]
  /\ faults = 0

At(j, s) == pc[j] = s
Goto(j, s) == pc' = [pc EXCEPT ![j] = s]
Fault == faults < MaxFaults /\ faults' = faults + 1
Smooth == faults' = faults
Put(k, j) == store' = [store EXCEPT ![k] = j]
Die(j) == Goto(j, "dead") /\ Fault

\* A put whose caller sees an exception.
PutLost(k, j) == Put(k, j) \/ UNCHANGED store

\* A report opened by an AI lane holds that lane's checks only.
Opened(report, checks) ==
  IF report = NoReport
  THEN [checks |-> checks, status |-> "none", disposition |-> "none"]
  ELSE [report EXCEPT !.checks = @ \cup checks]

From(source, statuses) == {[source |-> source, status |-> s] : s \in statuses}

-----------------------------------------------------------------------------
(* Up to the deterministic report.                                         *)

\* POST /jobs.  The job runs in the background; a second one on the same
\* transfer starts whatever the first is doing.
Accept(j) ==
  LET others == {i \in Job \ {j} : pc[i] # "waiting"}
  IN /\ At(j, "waiting")
     /\ others = {} \/ order \in Duplicated
     /\ job' = [i \in Job |->
          IF i = j THEN [job[i] EXCEPT !.alone = \A o \in others : ~Running(o)]
          ELSE [job[i] EXCEPT !.alone = @ /\ i \notin others]]
     /\ Goto(j, "fetch")
     /\ UNCHANGED <<order, store, faults>>

\* Nothing catches a failed download.
Fetch(j) ==
  /\ At(j, "fetch")
  /\ \/ Goto(j, "probe") /\ Smooth
     \/ Die(j)
  /\ UNCHANGED <<order, job, store>>

\* An unreadable master leaves empty metadata.  The listing of the transfer's
\* folder tells whether a generation manifest was sent beside it.
Probe(j) ==
  /\ At(j, "probe")
  /\ \E ok, sidecar \in BOOLEAN :
       job' = [job EXCEPT ![j] = [@ EXCEPT !.probed = ok, !.sidecar = sidecar]]
  /\ Goto(j, "qc")
  /\ UNCHANGED <<order, store, faults>>

\* Without a video stream the audiovisual checks contain a failure.  A crash
\* of the orchestrator itself leaves no report.
Qc(j) ==
  /\ At(j, "qc")
  /\ \/ /\ ~Asked("qc_av") /\ ~Asked("qc_captions")
        /\ UNCHANGED <<job, faults>>
     \/ /\ Asked("qc_av") \/ Asked("qc_captions")
        /\ \E d \in DetResult :
             /\ Asked("qc_av") /\ ~job[j].probed => "fail" \in d
             /\ job' = [job EXCEPT ![j] =
                  [@ EXCEPT !.instruments = d,
                            !.report = [checks |-> From("deterministic", d),
                                        status |-> Worst(d),
                                        disposition |-> "none"]]]
        /\ Smooth
     \/ /\ Asked("qc_av") \/ Asked("qc_captions")
        /\ Fault /\ UNCHANGED job
  /\ Goto(j, "triage")
  /\ UNCHANGED <<order, store>>

-----------------------------------------------------------------------------
(* The AI lanes.                                                           *)

Requested == order.services \cap {"qc_ai", "qc_synthetic"}

\* The lanes the router may leave running: it narrows what was asked for, and
\* a generation manifest keeps the synthetic lane.  With no answer from the
\* model, or no key, everything requested runs.
Routed(sidecar) ==
  IF order.key
  THEN {run \in SUBSET Requested :
          sidecar /\ "qc_synthetic" \in Requested => "qc_synthetic" \in run}
  ELSE {Requested}

Triaged(report) ==
  IF Requested # {} /\ order.key THEN Opened(report, From("ai_support", {"info"})) ELSE report

\* Sampling the router's frames is outside its own error handling.
Triage(j) ==
  /\ At(j, "triage")
  /\ \/ /\ \E run \in Routed(job[j].sidecar) :
             job' = [job EXCEPT ![j] =
               [@ EXCEPT !.run = run, !.report = Triaged(job[j].report)]]
        /\ Goto(j, "ai") /\ Smooth
     \/ /\ Requested # {} /\ order.key
        /\ Die(j) /\ UNCHANGED job
  /\ UNCHANGED <<order, store>>

\* A lane that cannot run leaves a warning when there is no report yet.
Unavailable(report) ==
  IF report = NoReport THEN Opened(NoReport, From("ai_support", {"warn"})) ELSE report

AiQc(j) ==
  /\ At(j, "ai")
  /\ \/ /\ "qc_ai" \notin job[j].run
        /\ UNCHANGED <<job, faults>>
     \/ /\ ~order.key /\ "qc_ai" \in job[j].run
        /\ job' = [job EXCEPT ![j] = [@ EXCEPT !.report = Unavailable(job[j].report)]]
        /\ Smooth
     \/ /\ order.key /\ "qc_ai" \in job[j].run
        /\ \E a \in AiResult, source \in {"agentic_ai", "ai_support", "hybrid"} :
             job' = [job EXCEPT ![j] = [@ EXCEPT !.report = Opened(job[j].report, From(source, a))]]
        /\ Smooth
     \/ /\ order.key /\ "qc_ai" \in job[j].run
        /\ Fault
        /\ job' = [job EXCEPT ![j] = [@ EXCEPT !.report = Unavailable(job[j].report)]]
  /\ Goto(j, "synthetic")
  /\ UNCHANGED <<order, store>>

Synthetic(j) ==
  /\ At(j, "synthetic")
  /\ \/ /\ ~order.key \/ "qc_synthetic" \notin job[j].run
        /\ UNCHANGED <<job, faults>>
     \/ /\ order.key /\ "qc_synthetic" \in job[j].run
        /\ \E a \in AiResult :
             job' = [job EXCEPT ![j] =
               [@ EXCEPT !.report = Opened(job[j].report, From("synthetic_ai", a))]]
        /\ Smooth
     \/ /\ order.key /\ "qc_synthetic" \in job[j].run
        /\ Fault /\ UNCHANGED job
  /\ Goto(j, "finalize")
  /\ UNCHANGED <<order, store>>

\* The status is recomputed from the instruments' checks alone.
Finalized(report) ==
  [report EXCEPT !.checks = Capped(report.checks),
                 !.status = FinalStatus(report.checks)]

FinalReport(report) == IF report = NoReport THEN NoReport ELSE Finalized(report)

Finalize(j) ==
  /\ At(j, "finalize")
  /\ job' = [job EXCEPT ![j] =
       [@ EXCEPT !.report = FinalReport(job[j].report)]]
  /\ Goto(j, "interpretive")
  /\ UNCHANGED <<order, store, faults>>

-----------------------------------------------------------------------------
(* The explicit interpretive run.                                          *)

ReportStatus(j) == IF job[j].report = NoReport THEN "none" ELSE job[j].report.status

Decided(report, disposition) ==
  IF report = NoReport THEN NoReport ELSE [report EXCEPT !.disposition = disposition]

\* The decision of a run that did not finish.
FailedDecision(j) == Join(Gate(ReportStatus(j)), "HOLD", order.mode)

SkipInterpretive(j) ==
  /\ At(j, "interpretive")
  /\ ~Asked("ai_interpretive") \/ ~order.gate
  /\ Goto(j, "thumbnail")
  /\ UNCHANGED <<order, job, store, faults>>

\* The run stores its evidence and returns a decision (InterpretiveStep).  The
\* evidence is listed as soon as the run returns.
Interpretive(j) ==
  /\ At(j, "interpretive")
  /\ Asked("ai_interpretive") /\ order.gate
  /\ \E result \in Outcomes(ReportStatus(j), order.mode), kept \in SUBSET {"evidence"} :
       /\ job' = [job EXCEPT ![j] =
            [@ EXCEPT !.result = result, !.derivatives = job[j].derivatives \cup kept]]
       /\ store' = [k \in Key |-> IF k \in kept THEN j ELSE store[k]]
  /\ Goto(j, "interpretive_put")
  /\ UNCHANGED <<order, faults>>

\* An exception anywhere in the run loses its result, not its uploads.
InterpretiveRaises(j) ==
  /\ At(j, "interpretive")
  /\ Asked("ai_interpretive") /\ order.gate
  /\ Fault
  /\ PutLost("evidence", j)
  /\ job' = [job EXCEPT ![j] = [@ EXCEPT !.report = Decided(job[j].report, FailedDecision(j))]]
  /\ Goto(j, "thumbnail")
  /\ UNCHANGED order

\* Mutant: the report keeps its deterministic authority.
InterpretivePutAlone(j) ==
  /\ At(j, "interpretive_put")
  /\ Put("interpretive", j)
  /\ job' = [job EXCEPT ![j] = [@ EXCEPT !.derivatives = job[j].derivatives \cup {"interpretive"}]]
  /\ Goto(j, "thumbnail")
  /\ UNCHANGED <<order, faults>>

InterpretivePut(j) ==
  /\ At(j, "interpretive_put")
  /\ Put("interpretive", j)
  /\ job' = [job EXCEPT ![j] =
       [@ EXCEPT !.derivatives = job[j].derivatives \cup {"interpretive"},
                 !.report = Decided(job[j].report, job[j].result.disposition)]]
  /\ Goto(j, "thumbnail")
  /\ UNCHANGED <<order, faults>>

\* Mutant: the artifact is listed before it is stored.
InterpretiveListed(j) ==
  /\ At(j, "interpretive_put")
  /\ Fault
  /\ job' = [job EXCEPT ![j] =
       [@ EXCEPT !.derivatives = job[j].derivatives \cup {"interpretive"},
                 !.report = Decided(job[j].report, FailedDecision(j))]]
  /\ Goto(j, "thumbnail")
  /\ UNCHANGED <<order, store>>

\* The variable that holds the result keeps it.
InterpretivePutFails(j) ==
  /\ At(j, "interpretive_put")
  /\ Fault
  /\ PutLost("interpretive", j)
  /\ job' = [job EXCEPT ![j] = [@ EXCEPT !.report = Decided(job[j].report, FailedDecision(j))]]
  /\ Goto(j, "thumbnail")
  /\ UNCHANGED order

-----------------------------------------------------------------------------
(* The poster, the report, the summary and the manifest.                   *)

\* Mutant: a step that was not asked for is waited for.
ThumbnailAwaited(j) ==
  /\ At(j, "thumbnail") /\ Asked("thumbnail")
  /\ Put("thumb", j) /\ Goto(j, "selection") /\ Smooth
  /\ UNCHANGED <<order, job>>

\* A master with no picture has no candidate frame.
Thumbnail(j) ==
  /\ At(j, "thumbnail")
  /\ \/ /\ Asked("thumbnail")
        /\ Put("thumb", j) /\ Goto(j, "selection") /\ Smooth
     \/ /\ UNCHANGED <<store, faults>> /\ Goto(j, "report")
     \/ /\ Asked("thumbnail") /\ job[j].probed
        /\ PutLost("thumb", j) /\ Fault /\ Goto(j, "report")
  /\ UNCHANGED <<order, job>>

\* Poster and selection are listed together, once both are stored.
Selection(j) ==
  /\ At(j, "selection")
  /\ \/ /\ Put("selection", j)
        /\ job' = [job EXCEPT ![j] =
             [@ EXCEPT !.derivatives = job[j].derivatives \cup {"thumb", "selection"}]]
        /\ Smooth
     \/ /\ PutLost("selection", j) /\ Fault /\ UNCHANGED job
  /\ Goto(j, "report")
  /\ UNCHANGED order

\* A report that cannot be stored ends the job.
PutReport(j) ==
  /\ At(j, "report")
  /\ \/ /\ job[j].report = NoReport
        /\ Goto(j, "summarize") /\ UNCHANGED <<job, store, faults>>
     \/ /\ job[j].report # NoReport
        /\ Put("report", j)
        /\ job' = [job EXCEPT ![j] = [@ EXCEPT !.derivatives = job[j].derivatives \cup {"report"}]]
        /\ Goto(j, "summarize") /\ Smooth
     \/ /\ job[j].report # NoReport
        /\ PutLost("report", j) /\ Die(j) /\ UNCHANGED job
  /\ UNCHANGED order

\* The summary goes into the manifest; its failure is reported and forgotten.
Summarize(j) ==
  /\ At(j, "summarize")
  /\ \/ Smooth
     \/ Asked("summarize") /\ order.key /\ Fault
  /\ Goto(j, "manifest")
  /\ UNCHANGED <<order, job, store>>

\* The manifest lists the derivatives with their hashes, embeds the
\* interpretive run and carries its disposition.  The context is job[j].
PutManifest(j) ==
  /\ At(j, "manifest")
  /\ \/ Put("manifest", j) /\ Goto(j, "done") /\ Smooth
     \/ PutLost("manifest", j) /\ Die(j)
  /\ UNCHANGED <<order, job>>

\* The process ends; nothing resumes a job.
Crash ==
  /\ \E j \in Job : Running(j)
  /\ Fault
  /\ pc' = [j \in Job |-> IF Running(j) THEN "dead" ELSE pc[j]]
  /\ UNCHANGED <<order, job, store>>

Take(j) ==
  \/ Fetch(j) \/ Probe(j) \/ Qc(j) \/ Triage(j) \/ AiQc(j) \/ Synthetic(j)
  \/ Finalize(j) \/ SkipInterpretive(j) \/ Interpretive(j)
  \/ InterpretiveRaises(j) \/ InterpretivePut(j) \/ InterpretivePutFails(j)
  \/ Thumbnail(j) \/ Selection(j) \/ PutReport(j) \/ Summarize(j)
  \/ PutManifest(j)

Next == Crash \/ \E j \in Job : Accept(j) \/ Take(j)

Spec == Init /\ [][Next]_vars

\* A job is a thread of the process: it goes on until it ends.
FairSpec == Spec /\ \A j \in Job : WF_vars(Take(j))

-----------------------------------------------------------------------------
(* Properties.                                                             *)

Manifest == store["manifest"]

\* What the recipient reads: the dispositions of the report and the manifest.
Published(j) ==
  {d \in Disposition :
     \/ "report" \in job[j].derivatives /\ job[j].report.disposition = d
     \/ Manifest = j /\ job[j].result # NoResult /\ job[j].result.disposition = d}

\* No lane of models, and no failure of one, softens what the instruments
\* found: a measured failure rejects the delivery, a measured warning keeps it
\* back, in every mode and in both documents (finalize and decide).
InstrumentsDecide ==
  \A j \in Job : \A d \in Published(j) :
    /\ "fail" \in job[j].instruments => d = "REJECT"
    /\ "warn" \in job[j].instruments => d # "READY"

\* Unless another job worked on the transfer during the run or after it, what the
\* manifest in the store lists is what its run put beside it.  Only a failure
\* makes it leave an object out: a poster without its selection, the evidence of
\* an interpretive run that raised, an object whose put lost its reply; never the
\* report (put_object, build_manifest).
ManifestIsExact ==
  Manifest # Nobody /\ job[Manifest].alone =>
    \A k \in Key \ {"manifest"} :
      IF k \in job[Manifest].derivatives THEN store[k] = Manifest
      ELSE store[k] = Manifest => faults > 0 /\ k # "report"

\* The report and the manifest give one disposition, unless the put of the
\* interpretive run's document failed: the report then says HOLD for a run the
\* manifest still shows complete.
DocumentsAgree ==
  \A j \in Job :
    Manifest = j /\ "report" \in job[j].derivatives /\ job[j].result # NoResult
      => \/ job[j].report.disposition = job[j].result.disposition
         \/ "interpretive" \notin job[j].derivatives

\* A job that is accepted ends, and nothing but the failures no step catches
\* keeps its manifest from the store: with no job dead, every one has written
\* one (the try blocks of run_pipeline).
EveryJobDelivers ==
  \A j \in Job :
    (pc[j] = "fetch") ~> (pc[j] = "dead" \/ (pc[j] = "done" /\ Manifest # Nobody))

\* "It decides spend only; it never clears or fails media" (run_ai_triage),
\* and a missing deterministic status holds the delivery (_deterministic_gate):
\* only instruments that reported can make it READY.
AiNeverClears ==
  \A j \in Job : "READY" \in Published(j) => job[j].instruments # {}
=============================================================================
