---------------------------- MODULE WorkerProofs ----------------------------
(***************************************************************************)
(* Proofs about Worker, for any number of jobs and faults, any orders and  *)
(* whatever the instruments and the AI lanes report.                       *)
(***************************************************************************)
EXTENDS Worker, TLAPS

\* A disposition that does not soften what the instruments reported.
Keeps(measured, d) ==
  /\ "fail" \in measured => d = "REJECT"
  /\ "warn" \in measured => d # "READY"

\* A status the gate cannot soften either.
Measured(measured, status) ==
  /\ "fail" \in measured => status = "fail"
  /\ "warn" \in measured => status \in {"warn", "fail"}

\* What a job knows at its step: nothing before the instruments reported; after
\* that a report which keeps their checks, a status that counts them once it is
\* finalized, and dispositions that follow from it.
InOrder(r, p) ==
  /\ p \in {"waiting", "fetch", "probe", "qc"} =>
       /\ r.instruments = {} /\ r.report = NoReport /\ r.result = NoResult
       /\ "report" \notin r.derivatives
  /\ r.instruments # {} =>
       /\ r.report # NoReport
       /\ From("deterministic", r.instruments) \subseteq r.report.checks
  /\ p \in {"interpretive", "interpretive_put"} /\ r.instruments # {} =>
       Measured(r.instruments, r.report.status)
  /\ p = "interpretive_put" => r.result # NoResult
  /\ r.result # NoResult => Keeps(r.instruments, r.result.disposition)
  /\ r.report # NoReport /\ r.report.disposition # "none" =>
       Keeps(r.instruments, r.report.disposition)
  /\ "report" \in r.derivatives => r.report # NoReport

\* The inductive invariant: InstrumentsDecide speaks of what is published, and
\* is kept by what every job knows on its way there.
IInv == TypeOK /\ \A j \in Job : InOrder(job[j], pc[j])

-----------------------------------------------------------------------------
(* The decision.                                                           *)

LEMMA JoinType ==
  ASSUME NEW gate \in Disposition, NEW proposed \in Disposition, NEW mode \in Mode
  PROVE  Join(gate, proposed, mode) \in Disposition
BY DEF Join, NormalizeMode, Stricter, Strictness, Disposition, Mode

LEMMA GateType == \A status : Gate(status) \in Disposition
BY DEF Gate, Disposition

\* Joining never softens the gate of the report (decide of ai_authority.py):
\* what the models propose can only make a disposition stricter.
THEOREM JoinNeverSoftens ==
  ASSUME NEW gate \in Disposition, NEW proposed \in Disposition, NEW mode \in Mode
  PROVE  Strictness(Join(gate, proposed, mode)) >= Strictness(gate)
BY DEF Join, NormalizeMode, Stricter, Strictness, Disposition, Mode

\* Models that may only hold do not reject: in hold mode a delivery is rejected
\* on the report alone, in shadow mode nothing they propose counts.
THEOREM HoldModeNeverRejects ==
  ASSUME NEW gate \in Disposition, NEW proposed \in Disposition
  PROVE  /\ Join(gate, proposed, "hold") = "REJECT" <=> gate = "REJECT"
         /\ Join(gate, proposed, "shadow") = gate
BY DEF Join, NormalizeMode, Stricter, Strictness, Disposition, Mode

LEMMA JoinKeeps ==
  ASSUME NEW measured, NEW status, Measured(measured, status),
         NEW proposed \in Disposition, NEW mode \in Mode
  PROVE  Keeps(measured, Join(Gate(status), proposed, mode))
BY DEF Measured, Keeps, Join, Gate, NormalizeMode, Stricter, Strictness, Disposition, Mode

-----------------------------------------------------------------------------
(* The report.                                                             *)

LEMMA FromType ==
  ASSUME NEW source \in Sources, NEW statuses \in SUBSET Status
  PROVE  From(source, statuses) \in SUBSET [source : Sources, status : Status]
BY DEF From

LEMMA WorstType == \A statuses : Worst(statuses) \in Status
BY DEF Worst, Status

LEMMA OpenedType ==
  ASSUME NEW report \in ReportType \cup {NoReport},
         NEW checks \in SUBSET [source : Sources, status : Status]
  PROVE  /\ Opened(report, checks) \in ReportType
         /\ report # NoReport =>
              /\ report.checks \subseteq Opened(report, checks).checks
              /\ Opened(report, checks).disposition = report.disposition
         /\ report = NoReport => Opened(report, checks).disposition = "none"
BY DEF Opened, ReportType

LEMMA CappedType ==
  ASSUME NEW checks \in SUBSET [source : Sources, status : Status]
  PROVE  Capped(checks) \in SUBSET [source : Sources, status : Status]
<1>1. \A c \in [source : Sources, status : Status] :
        CapAiAdvisory(c) \in [source : Sources, status : Status]
  BY DEF CapAiAdvisory, Status
<1> QED
  BY <1>1 DEF Capped

\* Finalizing changes no check of an instrument and counts every one.
LEMMA FinalizedKeeps ==
  ASSUME NEW report \in ReportType, NEW measured \in SUBSET Status,
         From("deterministic", measured) \subseteq report.checks
  PROVE  /\ Finalized(report) \in ReportType
         /\ Finalized(report).disposition = report.disposition
         /\ From("deterministic", measured) \subseteq Finalized(report).checks
         /\ Measured(measured, Finalized(report).status)
<1> DEFINE det(s) == [source |-> "deterministic", status |-> s]
<1>1. Finalized(report) \in ReportType
  <2>1. Capped(report.checks) \in SUBSET [source : Sources, status : Status]
    BY CappedType DEF ReportType
  <2>2. FinalStatus(report.checks) \in Status
    BY WorstType DEF FinalStatus
  <2> QED
    BY <2>1, <2>2 DEF Finalized, ReportType
<1>2. /\ Finalized(report).disposition = report.disposition
      /\ Finalized(report).checks = Capped(report.checks)
      /\ Finalized(report).status = FinalStatus(report.checks)
  BY DEF Finalized, ReportType
<1>3. \A s \in measured : det(s) \in report.checks
  BY DEF From
<1>4. \A s \in measured : ~IsAiOrigin(det(s)) /\ CapAiAdvisory(det(s)) = det(s)
  BY DEF IsAiOrigin, CapAiAdvisory, AiSources
<1>5. From("deterministic", measured) \subseteq Capped(report.checks)
  BY <1>3, <1>4 DEF Capped, From
<1>6. \A s \in measured : det(s) \in Canonical(report.checks)
  BY <1>3, <1>4 DEF Canonical
<1>7. ASSUME NEW s \in measured
      PROVE  s \in {c.status : c \in Canonical(report.checks)}
  <2>1. det(s).status = s
    OBVIOUS
  <2> HIDE DEF det
  <2> QED
    BY <1>6, <2>1
<1>8. Measured(measured, FinalStatus(report.checks))
  BY <1>7 DEF Measured, FinalStatus, Worst
<1> QED
  BY <1>1, <1>2, <1>5, <1>8

-----------------------------------------------------------------------------
(* One step of one job.                                                    *)

\* A step of job j that leaves the others alone keeps the invariant when it
\* leaves j in order.
LEMMA Moves ==
  ASSUME IInv, NEW j \in Job,
         order' = order, faults' \in 0..MaxFaults, store' \in [Key -> Job \cup {Nobody}],
         job' \in [Job -> JobType], pc' \in [Job -> Steps],
         \A i \in Job \ {j} : job'[i] = job[i] /\ pc'[i] = pc[i],
         InOrder(job'[j], pc'[j])
  PROVE  IInv'
<1>1. TypeOK'
  BY DEF IInv, TypeOK
<1>2. ASSUME NEW i \in Job
      PROVE  InOrder(job'[i], pc'[i])
  <2>1. CASE i = j
    BY <2>1
  <2>2. CASE i # j
    BY <2>2 DEF IInv
  <2> QED
    BY <2>1, <2>2
<1> QED
  BY <1>1, <1>2 DEF IInv

LEMMA Counters ==
  ASSUME TypeOK
  PROVE  /\ Fault => faults' \in 0..MaxFaults
         /\ Smooth => faults' \in 0..MaxFaults
         /\ UNCHANGED faults => faults' \in 0..MaxFaults
         /\ \A k \in Key, j \in Job : Put(k, j) => store' \in [Key -> Job \cup {Nobody}]
         /\ \A k \in Key, j \in Job : PutLost(k, j) => store' \in [Key -> Job \cup {Nobody}]
         /\ UNCHANGED store => store' \in [Key -> Job \cup {Nobody}]
BY WorkerAssumption DEF TypeOK, Fault, Smooth, Put, PutLost

LEMMA FetchKeeps ==
  ASSUME IInv, NEW j \in Job, Fetch(j)
  PROVE  IInv'
<1> USE DEF IInv
<1>1. /\ pc' \in [Job -> Steps] /\ pc'[j] \in {"probe", "dead"}
      /\ \A i \in Job \ {j} : pc'[i] = pc[i]
      /\ job' = job /\ order' = order /\ pc[j] = "fetch"
  BY DEF Fetch, At, Goto, Die, TypeOK, Steps, Step
<1>2. faults' \in 0..MaxFaults /\ store' \in [Key -> Job \cup {Nobody}]
  BY Counters DEF Fetch, Die
<1>3. InOrder(job[j], "fetch")
  BY <1>1
<1>4. InOrder(job'[j], pc'[j])
  BY <1>1, <1>3 DEF InOrder
<1> QED
  BY <1>1, <1>2, <1>4, Moves DEF TypeOK

LEMMA ProbeKeeps ==
  ASSUME IInv, NEW j \in Job, Probe(j)
  PROVE  IInv'
<1> USE DEF IInv
<1>1. PICK ok \in BOOLEAN, sidecar \in BOOLEAN :
        job' = [job EXCEPT ![j] = [@ EXCEPT !.probed = ok, !.sidecar = sidecar]]
  BY DEF Probe
<1>2. /\ pc' \in [Job -> Steps] /\ pc'[j] = "qc" /\ pc[j] = "probe"
      /\ \A i \in Job \ {j} : pc'[i] = pc[i]
  BY DEF Probe, At, Goto, TypeOK, Steps, Step
<1>3. /\ job' \in [Job -> JobType]
      /\ \A i \in Job \ {j} : job'[i] = job[i]
      /\ \A f \in {"instruments", "report", "result", "derivatives"} : job'[j][f] = job[j][f]
  <2>1. PICK new : new = [job[j] EXCEPT !.probed = ok, !.sidecar = sidecar]
    OBVIOUS
  <2>2. job[j] \in JobType
    BY DEF TypeOK
  <2>3. new \in JobType
    BY <2>1, <2>2 DEF JobType
  <2>4. \A f \in {"instruments", "report", "result", "derivatives"} : new[f] = job[j][f]
    BY <2>1, <2>2 DEF JobType
  <2>5. job' = [job EXCEPT ![j] = new]
    BY <1>1, <2>1
  <2> QED
    BY <2>3, <2>4, <2>5 DEF TypeOK
<1>4. InOrder(job'[j], pc'[j])
  BY <1>2, <1>3 DEF InOrder
<1> QED
  BY <1>2, <1>3, <1>4, Moves, Counters DEF Probe, TypeOK

\* A report of the instruments is where the invariant begins.
LEMMA QcKeeps ==
  ASSUME IInv, NEW j \in Job, Qc(j)
  PROVE  IInv'
<1> USE DEF IInv
<1>1. /\ pc' \in [Job -> Steps] /\ pc'[j] = "triage" /\ pc[j] = "qc"
      /\ \A i \in Job \ {j} : pc'[i] = pc[i]
      /\ order' = order /\ store' = store
  BY DEF Qc, At, Goto, TypeOK, Steps, Step
<1>2. faults' \in 0..MaxFaults
  BY Counters DEF Qc
<1>3. CASE job' = job
  <2>1. InOrder(job'[j], pc'[j])
    BY <1>1, <1>3 DEF InOrder
  <2> QED
    BY <1>1, <1>2, <1>3, <2>1, Moves DEF TypeOK
<1>4. CASE job' # job
  <2>1. PICK d \in DetResult :
          job' = [job EXCEPT ![j] =
                  [@ EXCEPT !.instruments = d,
                            !.report = [checks |-> From("deterministic", d),
                                        status |-> Worst(d),
                                        disposition |-> "none"]]]
    BY <1>4 DEF Qc
  <2> DEFINE report == [checks |-> From("deterministic", d), status |-> Worst(d),
                        disposition |-> "none"]
  <2>2. report \in ReportType /\ report.checks = From("deterministic", d)
        /\ report.disposition = "none"
    BY FromType, WorstType, WorkerAssumption DEF ReportType, Sources
  <2>3. report # NoReport
    BY <2>2, WorkerAssumption
  <2> HIDE DEF report
  <2>4. job' = [job EXCEPT ![j] = [@ EXCEPT !.instruments = d, !.report = report]]
    BY <2>1 DEF report
  <2>5. /\ job' \in [Job -> JobType]
        /\ \A i \in Job \ {j} : job'[i] = job[i]
        /\ job'[j].instruments = d /\ job'[j].report = report
        /\ job'[j].result = job[j].result /\ job'[j].derivatives = job[j].derivatives
    <3>1. job[j] \in JobType
      BY DEF TypeOK
    <3>2. /\ [job[j] EXCEPT !.instruments = d, !.report = report] \in JobType
          /\ [job[j] EXCEPT !.instruments = d, !.report = report].instruments = d
          /\ [job[j] EXCEPT !.instruments = d, !.report = report].report = report
          /\ [job[j] EXCEPT !.instruments = d, !.report = report].result = job[j].result
          /\ [job[j] EXCEPT !.instruments = d, !.report = report].derivatives = job[j].derivatives
      BY <2>2, <3>1 DEF JobType
    <3> QED
      BY <2>4, <3>2 DEF TypeOK
  <2>6. InOrder(job'[j], pc'[j])
    BY <1>1, <2>2, <2>3, <2>5 DEF InOrder
  <2> QED
    BY <1>1, <1>2, <2>5, <2>6, Moves, Counters DEF TypeOK
<1> QED
  BY <1>3, <1>4

\* A report that opened for a lane keeps what the instruments put in it.
LEMMA OpenedInOrder ==
  ASSUME NEW r \in JobType, NEW q \in JobType, NEW p, NEW next,
         NEW checks \in SUBSET [source : Sources, status : Status],
         InOrder(r, p), p \in {"triage", "ai", "synthetic"},
         next \in {"ai", "synthetic", "finalize"},
         q.report \in {r.report, Opened(r.report, checks)},
         q.instruments = r.instruments, q.result = r.result, q.derivatives = r.derivatives
  PROVE  InOrder(q, next)
<1>1. /\ Opened(r.report, checks) \in ReportType
      /\ r.report # NoReport =>
           /\ r.report.checks \subseteq Opened(r.report, checks).checks
           /\ Opened(r.report, checks).disposition = r.report.disposition
      /\ r.report = NoReport => Opened(r.report, checks).disposition = "none"
  BY OpenedType DEF JobType
<1>2. Opened(r.report, checks) # NoReport
  BY <1>1, WorkerAssumption
<1> QED
  BY <1>1, <1>2 DEF InOrder

LEMMA TriageKeeps ==
  ASSUME IInv, NEW j \in Job, Triage(j)
  PROVE  IInv'
<1> USE DEF IInv
<1>1. /\ pc' \in [Job -> Steps] /\ pc[j] = "triage"
      /\ \A i \in Job \ {j} : pc'[i] = pc[i]
      /\ order' = order /\ store' = store
  BY DEF Triage, At, Goto, Die, TypeOK, Steps, Step
<1>2. faults' \in 0..MaxFaults
  BY Counters DEF Triage, Die
<1>3. CASE pc'[j] = "dead" /\ job' = job
  <2>1. InOrder(job'[j], pc'[j])
    BY <1>1, <1>3 DEF InOrder
  <2> QED
    BY <1>1, <1>2, <1>3, <2>1, Moves DEF TypeOK
<1>4. CASE ~(pc'[j] = "dead" /\ job' = job)
  <2> DEFINE checks == From("ai_support", {"info"})
             report == Triaged(job[j].report)
             new(run) == [job[j] EXCEPT !.run = run, !.report = report]
  <2>1. checks \in SUBSET [source : Sources, status : Status]
    BY FromType DEF Sources, AiSources, Status
  <2>2. PICK run \in Routed(job[j].sidecar) : job' = [job EXCEPT ![j] = new(run)]
    BY <1>1, <1>4 DEF Triage, Die, Goto, TypeOK
  <2>3. pc'[j] = "ai"
    BY <1>1, <1>4 DEF Triage, Die, Goto, TypeOK
  <2>4. run \in SUBSET {"qc_ai", "qc_synthetic"}
    BY <2>2 DEF Routed, Requested
  <2>5. report \in {job[j].report, Opened(job[j].report, checks)}
    BY DEF Triaged
  <2>6. report \in ReportType \cup {NoReport} /\ job[j] \in JobType
    BY <2>1, <2>5, OpenedType DEF TypeOK, JobType
  <2> HIDE DEF report
  <2>7. /\ job' \in [Job -> JobType]
        /\ \A i \in Job \ {j} : job'[i] = job[i]
        /\ job'[j].report = report
        /\ \A f \in {"instruments", "result", "derivatives"} : job'[j][f] = job[j][f]
    <3>1. /\ new(run) \in JobType /\ new(run).report = report
          /\ new(run).instruments = job[j].instruments /\ new(run).result = job[j].result
          /\ new(run).derivatives = job[j].derivatives
      BY <2>4, <2>6 DEF JobType
    <3> HIDE DEF new
    <3> QED
      BY <2>2, <3>1 DEF TypeOK
  <2>8. InOrder(job'[j], pc'[j])
    <3>1. job[j] \in JobType /\ job'[j] \in JobType /\ InOrder(job[j], "triage")
      BY <1>1, <2>7 DEF TypeOK
    <3> QED
      BY <2>1, <2>3, <2>5, <2>7, <3>1, OpenedInOrder
  <2> QED
    BY <1>1, <1>2, <2>7, <2>8, Moves, Counters DEF TypeOK
<1> QED
  BY <1>3, <1>4

\* A lane that adds checks of its own, opening a report when there is none.
LEMMA LaneKeeps ==
  ASSUME IInv, NEW j \in Job, NEW next \in {"synthetic", "finalize"},
         pc[j] \in {"ai", "synthetic"}, Goto(j, next),
         NEW checks \in SUBSET [source : Sources, status : Status],
         NEW report \in {job[j].report, Opened(job[j].report, checks)},
         job' = [job EXCEPT ![j] = [@ EXCEPT !.report = report]],
         order' = order, store' = store, faults' \in 0..MaxFaults
  PROVE  IInv'
<1> DEFINE new == [job[j] EXCEPT !.report = report]
<1>1. job[j] \in JobType /\ InOrder(job[j], pc[j])
  BY DEF IInv, TypeOK
<1>2. report \in ReportType \cup {NoReport}
  BY <1>1, OpenedType DEF JobType
<1>3. /\ new \in JobType /\ new.report = report
      /\ new.instruments = job[j].instruments /\ new.result = job[j].result
      /\ new.derivatives = job[j].derivatives
  BY <1>1, <1>2 DEF JobType
<1>4. job' = [job EXCEPT ![j] = new]
  OBVIOUS
<1> HIDE DEF new
<1>5. /\ job' \in [Job -> JobType] /\ job'[j] = new
      /\ \A i \in Job \ {j} : job'[i] = job[i]
  BY <1>3, <1>4 DEF IInv, TypeOK
<1>6. /\ pc' \in [Job -> Steps] /\ pc'[j] = next
      /\ \A i \in Job \ {j} : pc'[i] = pc[i]
  BY DEF Goto, IInv, TypeOK, Steps, Step
<1>7. InOrder(job'[j], pc'[j])
  BY <1>1, <1>3, <1>5, <1>6, OpenedInOrder
<1> QED
  BY <1>5, <1>6, <1>7, Moves DEF IInv, TypeOK

\* A step that changes neither the job nor what is asked of its status.
LEMMA OnwardKeeps ==
  ASSUME IInv, NEW j \in Job, NEW next \in Steps,
         Goto(j, next), job' = job,
         pc[j] \notin {"waiting", "fetch", "probe", "qc"},
         next \notin {"waiting", "fetch", "probe", "qc", "interpretive", "interpretive_put"},
         order' = order, store' \in [Key -> Job \cup {Nobody}], faults' \in 0..MaxFaults
  PROVE  IInv'
<1>1. /\ pc' \in [Job -> Steps] /\ pc'[j] = next
      /\ \A i \in Job \ {j} : pc'[i] = pc[i]
  BY DEF Goto, IInv, TypeOK
<1>2. InOrder(job[j], pc[j])
  BY DEF IInv
<1>3. InOrder(job'[j], pc'[j])
  BY <1>1, <1>2 DEF InOrder
<1> QED
  BY <1>1, <1>3, Moves DEF IInv, TypeOK

LEMMA AiQcKeeps ==
  ASSUME IInv, NEW j \in Job, AiQc(j)
  PROVE  IInv'
<1>1. /\ pc[j] = "ai" /\ Goto(j, "synthetic") /\ order' = order /\ store' = store
      /\ TypeOK
  BY DEF AiQc, At, IInv
<1>2. faults' \in 0..MaxFaults
  BY <1>1, Counters DEF AiQc
<1>3. CASE job' = job
  BY <1>1, <1>2, <1>3, OnwardKeeps, Counters DEF Steps, Step
<1>4. CASE job' = [job EXCEPT ![j] = [@ EXCEPT !.report = Unavailable(job[j].report)]]
  <2> DEFINE checks == From("ai_support", {"warn"})
             report == Unavailable(job[j].report)
  <2>1. checks \in SUBSET [source : Sources, status : Status]
    BY FromType DEF Sources, AiSources, Status
  <2>2. report \in {job[j].report, Opened(job[j].report, checks)}
    BY DEF Unavailable
  <2>3. job' = [job EXCEPT ![j] = [@ EXCEPT !.report = report]]
    BY <1>4
  <2> HIDE DEF checks, report
  <2> QED
    BY <1>1, <1>2, <2>1, <2>2, <2>3, LaneKeeps
<1>5. CASE ~(job' = job) /\ ~(job' = [job EXCEPT ![j] = [@ EXCEPT !.report = Unavailable(job[j].report)]])
  <2>1. PICK a \in AiResult, source \in {"agentic_ai", "ai_support", "hybrid"} :
          job' = [job EXCEPT ![j] = [@ EXCEPT !.report = Opened(job[j].report, From(source, a))]]
    BY <1>5 DEF AiQc
  <2> DEFINE checks == From(source, a)
             report == Opened(job[j].report, checks)
  <2>2. checks \in SUBSET [source : Sources, status : Status]
    BY FromType, WorkerAssumption DEF Sources, AiSources
  <2>3. job' = [job EXCEPT ![j] = [@ EXCEPT !.report = report]]
    BY <2>1
  <2>4. report \in {job[j].report, Opened(job[j].report, checks)}
    OBVIOUS
  <2> HIDE DEF checks, report
  <2> QED
    BY <1>1, <1>2, <2>2, <2>3, <2>4, LaneKeeps
<1> QED
  BY <1>3, <1>4, <1>5

LEMMA SyntheticKeeps ==
  ASSUME IInv, NEW j \in Job, Synthetic(j)
  PROVE  IInv'
<1>1. /\ pc[j] = "synthetic" /\ Goto(j, "finalize") /\ order' = order /\ store' = store
      /\ TypeOK
  BY DEF Synthetic, At, IInv
<1>2. faults' \in 0..MaxFaults
  BY <1>1, Counters DEF Synthetic
<1>3. CASE job' = job
  BY <1>1, <1>2, <1>3, OnwardKeeps, Counters DEF Steps, Step
<1>4. CASE ~(job' = job)
  <2>1. PICK a \in AiResult :
          job' = [job EXCEPT ![j] = [@ EXCEPT !.report = Opened(job[j].report, From("synthetic_ai", a))]]
    BY <1>4 DEF Synthetic
  <2> DEFINE checks == From("synthetic_ai", a)
             report == Opened(job[j].report, checks)
  <2>2. checks \in SUBSET [source : Sources, status : Status]
    BY FromType, WorkerAssumption DEF Sources, AiSources
  <2>3. job' = [job EXCEPT ![j] = [@ EXCEPT !.report = report]]
    BY <2>1
  <2>4. report \in {job[j].report, Opened(job[j].report, checks)}
    OBVIOUS
  <2> HIDE DEF checks, report
  <2> QED
    BY <1>1, <1>2, <2>2, <2>3, <2>4, LaneKeeps
<1> QED
  BY <1>3, <1>4

\* The status of a finalized report counts what the instruments reported.
LEMMA FinalizeKeeps ==
  ASSUME IInv, NEW j \in Job, Finalize(j)
  PROVE  IInv'
<1> DEFINE report == FinalReport(job[j].report)
           new == [job[j] EXCEPT !.report = report]
<1>1. /\ pc[j] = "finalize" /\ TypeOK /\ job[j] \in JobType /\ InOrder(job[j], pc[j])
      /\ order' = order /\ store' = store /\ faults' = faults
  BY DEF Finalize, At, IInv, TypeOK
<1>2. job[j].instruments \in SUBSET Status
  BY <1>1, WorkerAssumption DEF JobType
<1>3. new \in JobType /\ InOrder(new, "interpretive")
  <2>1. CASE job[j].report = NoReport
    <3>1. report = NoReport /\ job[j].instruments = {}
      BY <1>1, <2>1 DEF InOrder, FinalReport
    <3> HIDE DEF report
    <3>2. /\ new \in JobType /\ new.report = NoReport /\ new.instruments = {}
          /\ new.result = job[j].result /\ new.derivatives = job[j].derivatives
      BY <1>1, <3>1 DEF JobType
    <3> HIDE DEF new
    <3> QED
      BY <1>1, <2>1, <3>1, <3>2 DEF InOrder
  <2>2. CASE job[j].report # NoReport
    <3>1. /\ report = Finalized(job[j].report)
          /\ job[j].report \in ReportType
      BY <1>1, <2>2 DEF JobType, FinalReport
    <3>2. job[j].instruments # {} =>
            From("deterministic", job[j].instruments) \subseteq job[j].report.checks
      BY <1>1 DEF InOrder
    <3>3. From("deterministic", {}) \subseteq job[j].report.checks
      BY DEF From
    <3>4. From("deterministic", job[j].instruments) \subseteq job[j].report.checks
      BY <3>2, <3>3
    <3>5. /\ report \in ReportType
          /\ report.disposition = job[j].report.disposition
          /\ From("deterministic", job[j].instruments) \subseteq report.checks
          /\ Measured(job[j].instruments, report.status)
      BY <1>2, <3>1, <3>4, FinalizedKeeps
    <3>6. report # NoReport
      BY <3>5, WorkerAssumption
    <3> HIDE DEF report
    <3>7. /\ new \in JobType /\ new.report = report
          /\ new.instruments = job[j].instruments
          /\ new.result = job[j].result /\ new.derivatives = job[j].derivatives
      BY <1>1, <3>5 DEF JobType
    <3> HIDE DEF new
    <3> QED
      BY <1>1, <2>2, <3>5, <3>6, <3>7 DEF InOrder
  <2> QED
    BY <2>1, <2>2
<1>4. job' = [job EXCEPT ![j] = new]
  BY DEF Finalize
<1> HIDE DEF new
<1>5. /\ job' \in [Job -> JobType] /\ job'[j] = new
      /\ \A i \in Job \ {j} : job'[i] = job[i]
  BY <1>1, <1>3, <1>4 DEF TypeOK
<1>6. /\ pc' \in [Job -> Steps] /\ pc'[j] = "interpretive"
      /\ \A i \in Job \ {j} : pc'[i] = pc[i]
  BY <1>1 DEF Finalize, Goto, TypeOK, Steps, Step
<1> QED
  BY <1>1, <1>3, <1>5, <1>6, Moves, Counters

-----------------------------------------------------------------------------
(* The interpretive run.                                                   *)

LEMMA StatusKeeps ==
  ASSUME IInv, NEW j \in Job, pc[j] \in {"interpretive", "interpretive_put"},
         NEW proposed \in Disposition
  PROVE  /\ Join(Gate(ReportStatus(j)), proposed, order.mode) \in Disposition
         /\ Keeps(job[j].instruments, Join(Gate(ReportStatus(j)), proposed, order.mode))
<1>1. order.mode \in Mode
  BY WorkerAssumption DEF IInv, TypeOK, OrderType
<1>2. InOrder(job[j], pc[j])
  BY DEF IInv
<1>3. Measured(job[j].instruments, ReportStatus(j))
  BY <1>2 DEF InOrder, Measured, ReportStatus
<1> QED
  BY <1>1, <1>3, JoinKeeps, JoinType, GateType

\* A disposition that follows from the status is written in the report and the
\* job goes on.
LEMMA DecidedKeeps ==
  ASSUME IInv, NEW j \in Job, pc[j] \in {"interpretive", "interpretive_put"},
         Goto(j, "thumbnail"), NEW d \in Disposition, Keeps(job[j].instruments, d),
         NEW listed \in {job[j].derivatives, job[j].derivatives \cup {"interpretive"}},
         job' = [job EXCEPT ![j] = [@ EXCEPT !.derivatives = listed,
                                             !.report = Decided(job[j].report, d)]],
         order' = order, faults' \in 0..MaxFaults, store' \in [Key -> Job \cup {Nobody}]
  PROVE  IInv'
<1> DEFINE report == Decided(job[j].report, d)
           new == [job[j] EXCEPT !.derivatives = listed, !.report = report]
<1>1. /\ job[j] \in JobType /\ InOrder(job[j], pc[j]) /\ job[j].derivatives \in SUBSET Key
      /\ listed \in SUBSET Key
      /\ "report" \in listed => "report" \in job[j].derivatives
  BY DEF IInv, TypeOK, JobType, Key
<1>2. /\ report \in ReportType \cup {NoReport}
      /\ report = NoReport <=> job[j].report = NoReport
      /\ report # NoReport => report.disposition = d /\ report.checks = job[j].report.checks
  <2>1. CASE job[j].report = NoReport
    BY <2>1 DEF Decided
  <2>2. CASE job[j].report # NoReport
    <3>1. job[j].report \in ReportType
      BY <1>1, <2>2 DEF JobType
    <3>2. /\ report \in ReportType /\ report.disposition = d
          /\ report.checks = job[j].report.checks
      BY <2>2, <3>1 DEF Decided, ReportType
    <3> QED
      BY <2>2, <3>2, WorkerAssumption
  <2> QED
    BY <2>1, <2>2
<1> HIDE DEF report
<1>3. /\ new \in JobType /\ new.report = report /\ new.derivatives = listed
      /\ new.instruments = job[j].instruments /\ new.result = job[j].result
  BY <1>1, <1>2 DEF JobType
<1>4. job' = [job EXCEPT ![j] = new]
  BY DEF report
<1> HIDE DEF new
<1>5. /\ job' \in [Job -> JobType] /\ job'[j] = new
      /\ \A i \in Job \ {j} : job'[i] = job[i]
  BY <1>3, <1>4 DEF IInv, TypeOK
<1>6. /\ pc' \in [Job -> Steps] /\ pc'[j] = "thumbnail"
      /\ \A i \in Job \ {j} : pc'[i] = pc[i]
  BY DEF Goto, IInv, TypeOK, Steps, Step
<1>7. InOrder(job'[j], pc'[j])
  BY <1>1, <1>2, <1>3, <1>5, <1>6 DEF InOrder
<1> QED
  BY <1>5, <1>6, <1>7, Moves

\* The run returns with a decision that follows from the report's status.
LEMMA InterpretiveKeeps ==
  ASSUME IInv, NEW j \in Job, Interpretive(j)
  PROVE  IInv'
<1>1. /\ pc[j] = "interpretive" /\ TypeOK /\ job[j] \in JobType /\ InOrder(job[j], pc[j])
      /\ order' = order /\ faults' = faults
  BY DEF Interpretive, At, IInv, TypeOK
<1>2. PICK result \in Outcomes(ReportStatus(j), order.mode), kept \in SUBSET {"evidence"} :
        /\ job' = [job EXCEPT ![j] =
             [@ EXCEPT !.result = result, !.derivatives = job[j].derivatives \cup kept]]
        /\ store' = [k \in Key |-> IF k \in kept THEN j ELSE store[k]]
  BY DEF Interpretive
<1>3. PICK proposed \in Disposition :
        \/ result = [complete |-> TRUE,
                     disposition |-> Join(Gate(ReportStatus(j)), proposed, order.mode)]
        \/ result = [complete |-> FALSE,
                     disposition |-> Join(Gate(ReportStatus(j)), proposed, order.mode)]
  BY <1>2 DEF Outcomes, Disposition
<1> DEFINE listed == job[j].derivatives \cup kept
           new == [job[j] EXCEPT !.result = result, !.derivatives = listed]
<1>4. /\ result \in ResultType /\ Keeps(job[j].instruments, result.disposition)
      /\ listed \in SUBSET Key
  <2>1. PICK d \in Disposition : /\ d = Join(Gate(ReportStatus(j)), proposed, order.mode)
                                /\ Keeps(job[j].instruments, d)
    BY <1>1, StatusKeeps
  <2>2. result.disposition = d /\ result \in ResultType
    <3>1. PICK complete \in BOOLEAN : result = [complete |-> complete, disposition |-> d]
      BY <1>3, <2>1
    <3> QED
      BY <3>1 DEF ResultType
  <2>3. Keeps(job[j].instruments, result.disposition)
    BY <2>1, <2>2
  <2>4. listed \in SUBSET Key
    BY <1>1 DEF JobType, Key
  <2> QED
    BY <2>2, <2>3, <2>4
<1>5. result # NoResult
  BY <1>4, WorkerAssumption
<1>6. job' = [job EXCEPT ![j] = new]
  BY <1>2
<1>7. "report" \in listed => "report" \in job[j].derivatives
  OBVIOUS
<1> HIDE DEF listed
<1>8. /\ new \in JobType /\ new.result = result /\ new.derivatives = listed
      /\ new.instruments = job[j].instruments /\ new.report = job[j].report
  BY <1>1, <1>4 DEF JobType
<1> HIDE DEF new
<1>9. /\ job' \in [Job -> JobType] /\ job'[j] = new
      /\ \A i \in Job \ {j} : job'[i] = job[i]
  BY <1>1, <1>6, <1>8 DEF TypeOK
<1>10. /\ pc' \in [Job -> Steps] /\ pc'[j] = "interpretive_put"
       /\ \A i \in Job \ {j} : pc'[i] = pc[i]
  BY <1>1 DEF Interpretive, Goto, TypeOK, Steps, Step
<1>11. InOrder(job'[j], pc'[j])
  BY <1>1, <1>4, <1>5, <1>7, <1>8, <1>9, <1>10 DEF InOrder
<1>12. store' \in [Key -> Job \cup {Nobody}]
  BY <1>1, <1>2 DEF TypeOK
<1> QED
  BY <1>1, <1>9, <1>10, <1>11, <1>12, Moves, Counters

LEMMA FailedKeeps ==
  ASSUME IInv, NEW j \in Job, InterpretiveRaises(j) \/ InterpretivePutFails(j)
  PROVE  IInv'
<1>1. /\ pc[j] \in {"interpretive", "interpretive_put"} /\ TypeOK
      /\ order' = order /\ Goto(j, "thumbnail") /\ Fault
  BY DEF InterpretiveRaises, InterpretivePutFails, At, IInv
<1>2. PICK d \in Disposition : d = FailedDecision(j) /\ Keeps(job[j].instruments, d)
  BY <1>1, StatusKeeps DEF FailedDecision, Disposition
<1>3. job' = [job EXCEPT ![j] = [@ EXCEPT !.report = Decided(job[j].report, d)]]
  BY <1>2 DEF InterpretiveRaises, InterpretivePutFails
<1>4. job[j] \in JobType
  BY <1>1 DEF TypeOK
<1>5. [job[j] EXCEPT !.report = Decided(job[j].report, d)]
        = [job[j] EXCEPT !.derivatives = job[j].derivatives, !.report = Decided(job[j].report, d)]
  <2> DEFINE report == Decided(job[j].report, d)
  <2> HIDE DEF report
  <2>1. [job[j] EXCEPT !.report = report]
          = [job[j] EXCEPT !.derivatives = job[j].derivatives, !.report = report]
    BY <1>4 DEF JobType
  <2> QED
    BY <2>1 DEF report
<1>6. job' = [job EXCEPT ![j] = [@ EXCEPT !.derivatives = job[j].derivatives,
                                          !.report = Decided(job[j].report, d)]]
  BY <1>3, <1>5
<1>7. store' \in [Key -> Job \cup {Nobody}] /\ faults' \in 0..MaxFaults
  BY <1>1, Counters DEF InterpretiveRaises, InterpretivePutFails, Key
<1> QED
  BY <1>1, <1>2, <1>6, <1>7, DecidedKeeps

LEMMA InterpretivePutKeeps ==
  ASSUME IInv, NEW j \in Job, InterpretivePut(j)
  PROVE  IInv'
<1>1. /\ pc[j] = "interpretive_put" /\ TypeOK /\ job[j] \in JobType
      /\ order' = order /\ Goto(j, "thumbnail") /\ faults' = faults
  BY DEF InterpretivePut, At, IInv, TypeOK
<1>2. store' \in [Key -> Job \cup {Nobody}] /\ faults' \in 0..MaxFaults
  BY <1>1, Counters DEF InterpretivePut, Key
<1>3. CASE job[j].result \in ResultType
  <2>1. PICK d \in Disposition : d = job[j].result.disposition
    BY <1>3 DEF ResultType
  <2>2. Keeps(job[j].instruments, d)
    BY <1>3, <2>1, WorkerAssumption DEF IInv, InOrder
  <2>3. job' = [job EXCEPT ![j] = [@ EXCEPT !.derivatives = job[j].derivatives \cup {"interpretive"},
                                            !.report = Decided(job[j].report, d)]]
    BY <2>1 DEF InterpretivePut
  <2> QED
    BY <1>1, <1>2, <2>2, <2>3, DecidedKeeps
<1> QED
  BY <1>1, <1>3 DEF IInv, InOrder, JobType

-----------------------------------------------------------------------------
(* The poster, the report, the summary and the manifest.                   *)

\* Steps that leave the job as it is.
LEMMA QuietKeeps ==
  ASSUME IInv, NEW j \in Job,
         SkipInterpretive(j) \/ Thumbnail(j) \/ Summarize(j) \/ PutManifest(j)
  PROVE  IInv'
<1>1. TypeOK
  BY DEF IInv
<1>2. /\ order' = order /\ job' = job
      /\ pc[j] \in {"interpretive", "thumbnail", "summarize", "manifest"}
  BY DEF SkipInterpretive, Thumbnail, Summarize, PutManifest, At
<1>3. store' \in [Key -> Job \cup {Nobody}] /\ faults' \in 0..MaxFaults
  BY <1>1, Counters DEF SkipInterpretive, Thumbnail, Summarize, PutManifest, Die, Key
<1>4. PICK next \in {"thumbnail", "selection", "report", "manifest", "done", "dead"} : Goto(j, next)
  BY DEF SkipInterpretive, Thumbnail, Summarize, PutManifest, Die
<1> QED
  BY <1>2, <1>3, <1>4, OnwardKeeps DEF Steps, Step

\* What is listed is stored; a report is listed when there is one.
LEMMA ListedKeeps ==
  ASSUME IInv, NEW j \in Job, pc[j] \in {"selection", "report"},
         NEW next \in {"report", "summarize"}, Goto(j, next),
         NEW listed \in SUBSET Key,
         "report" \in listed => "report" \in job[j].derivatives \/ job[j].report # NoReport,
         job' = [job EXCEPT ![j] = [@ EXCEPT !.derivatives = listed]],
         order' = order, faults' \in 0..MaxFaults, store' \in [Key -> Job \cup {Nobody}]
  PROVE  IInv'
<1> DEFINE new == [job[j] EXCEPT !.derivatives = listed]
<1>1. job[j] \in JobType /\ InOrder(job[j], pc[j])
  BY DEF IInv, TypeOK
<1>2. /\ new \in JobType /\ new.derivatives = listed /\ new.report = job[j].report
      /\ new.instruments = job[j].instruments /\ new.result = job[j].result
  BY <1>1 DEF JobType
<1>3. job' = [job EXCEPT ![j] = new]
  OBVIOUS
<1> HIDE DEF new
<1>4. /\ job' \in [Job -> JobType] /\ job'[j] = new
      /\ \A i \in Job \ {j} : job'[i] = job[i]
  BY <1>2, <1>3 DEF IInv, TypeOK
<1>5. /\ pc' \in [Job -> Steps] /\ pc'[j] = next
      /\ \A i \in Job \ {j} : pc'[i] = pc[i]
  BY DEF Goto, IInv, TypeOK, Steps, Step
<1>6. InOrder(job'[j], pc'[j])
  BY <1>1, <1>2, <1>4, <1>5 DEF InOrder
<1> QED
  BY <1>4, <1>5, <1>6, Moves

LEMMA SelectionKeeps ==
  ASSUME IInv, NEW j \in Job, Selection(j)
  PROVE  IInv'
<1>1. /\ TypeOK /\ pc[j] = "selection" /\ Goto(j, "report") /\ order' = order
      /\ job[j].derivatives \in SUBSET Key
  BY DEF Selection, At, IInv, TypeOK, JobType
<1>2. store' \in [Key -> Job \cup {Nobody}] /\ faults' \in 0..MaxFaults
  BY <1>1, Counters DEF Selection, Key
<1>3. CASE job' = job
  BY <1>1, <1>2, <1>3, OnwardKeeps DEF Steps, Step
<1>4. CASE job' # job
  <2>1. PICK listed \in SUBSET Key : listed = job[j].derivatives \cup {"thumb", "selection"}
    BY <1>1 DEF Key
  <2>2. job' = [job EXCEPT ![j] = [@ EXCEPT !.derivatives = listed]]
    BY <1>4, <2>1 DEF Selection
  <2> QED
    BY <1>1, <1>2, <2>1, <2>2, ListedKeeps
<1> QED
  BY <1>3, <1>4

LEMMA PutReportKeeps ==
  ASSUME IInv, NEW j \in Job, PutReport(j)
  PROVE  IInv'
<1>1. /\ TypeOK /\ pc[j] = "report" /\ order' = order
      /\ job[j].derivatives \in SUBSET Key
  BY DEF PutReport, At, IInv, TypeOK, JobType
<1>2. store' \in [Key -> Job \cup {Nobody}] /\ faults' \in 0..MaxFaults
  BY <1>1, Counters DEF PutReport, Die, Key
<1>3. CASE job' = job
  <2>1. PICK next \in {"summarize", "dead"} : Goto(j, next)
    BY DEF PutReport, Die
  <2> QED
    BY <1>1, <1>2, <1>3, <2>1, OnwardKeeps DEF Steps, Step
<1>4. CASE job' # job
  <2>1. PICK listed \in SUBSET Key : listed = job[j].derivatives \cup {"report"}
    BY <1>1 DEF Key
  <2>2. /\ job' = [job EXCEPT ![j] = [@ EXCEPT !.derivatives = listed]]
        /\ job[j].report # NoReport /\ Goto(j, "summarize")
    BY <1>4, <2>1 DEF PutReport
  <2> QED
    BY <1>1, <1>2, <2>1, <2>2, ListedKeeps
<1> QED
  BY <1>3, <1>4

-----------------------------------------------------------------------------
(* Jobs beside one another.                                                *)

\* A job that starts marks itself and those before it, and knows nothing yet.
LEMMA AcceptKeeps ==
  ASSUME IInv, NEW j \in Job, Accept(j)
  PROVE  IInv'
<1> DEFINE others == {i \in Job \ {j} : pc[i] # "waiting"}
           alone(i) == IF i = j THEN \A o \in others : ~Running(o)
                       ELSE job[i].alone /\ i \notin others
<1>1. /\ TypeOK /\ pc[j] = "waiting" /\ order' = order /\ store' = store /\ faults' = faults
      /\ pc' = [pc EXCEPT ![j] = "fetch"]
  BY DEF Accept, At, Goto, IInv
<1>2. ASSUME NEW i \in Job
      PROVE  \E b \in BOOLEAN : job'[i] = [job[i] EXCEPT !.alone = b]
  <2>1. CASE i = j
    <3>1. job'[i] = [job[i] EXCEPT !.alone = \A o \in others : ~Running(o)]
      BY <2>1 DEF Accept
    <3> HIDE DEF others
    <3> QED
      BY <3>1
  <2>2. CASE i # j
    <3>1. job'[i] = [job[i] EXCEPT !.alone = job[i].alone /\ i \notin others]
      BY <2>2 DEF Accept
    <3> HIDE DEF others
    <3> QED
      BY <3>1
  <2> QED
    BY <2>1, <2>2
<1>3. ASSUME NEW i \in Job
      PROVE  /\ job'[i] \in JobType
             /\ \A f \in {"instruments", "report", "result", "derivatives"} : job'[i][f] = job[i][f]
  <2>1. PICK b \in BOOLEAN : job'[i] = [job[i] EXCEPT !.alone = b]
    BY <1>2
  <2>2. job[i] \in JobType
    BY <1>1 DEF TypeOK
  <2> QED
    BY <2>1, <2>2 DEF JobType
<1>4. job' \in [Job -> JobType]
  <2>1. job' = [i \in Job |-> job'[i]]
    BY DEF Accept
  <2> QED
    BY <1>3, <2>1
<1>5. pc' \in [Job -> Steps] /\ pc'[j] = "fetch" /\ \A i \in Job \ {j} : pc'[i] = pc[i]
  BY <1>1 DEF TypeOK, Steps, Step
<1>6. ASSUME NEW i \in Job
      PROVE  InOrder(job'[i], pc'[i])
  <2>1. InOrder(job[i], pc[i])
    BY DEF IInv
  <2>2. CASE i = j
    BY <1>1, <1>3, <1>5, <2>1, <2>2 DEF InOrder
  <2>3. CASE i # j
    BY <1>3, <1>5, <2>1, <2>3 DEF InOrder
  <2> QED
    BY <2>2, <2>3
<1> QED
  BY <1>1, <1>4, <1>5, <1>6 DEF IInv, TypeOK

LEMMA CrashKeeps ==
  ASSUME IInv, Crash
  PROVE  IInv'
<1>1. /\ TypeOK /\ order' = order /\ store' = store /\ job' = job
      /\ pc' = [j \in Job |-> IF Running(j) THEN "dead" ELSE pc[j]]
  BY DEF Crash, IInv
<1>2. faults' \in 0..MaxFaults
  BY <1>1, Counters DEF Crash
<1>3. ASSUME NEW j \in Job
      PROVE  pc'[j] \in {"dead", pc[j]}
  BY <1>1
<1>4. ASSUME NEW j \in Job
      PROVE  InOrder(job'[j], pc'[j])
  BY <1>1, <1>3 DEF IInv, InOrder
<1>5. TypeOK'
  BY <1>1, <1>2, <1>3 DEF TypeOK, Steps
<1> QED
  BY <1>4, <1>5 DEF IInv

-----------------------------------------------------------------------------
(* The theorems.                                                           *)

LEMMA InitInOrder == Init => IInv
<1> SUFFICES ASSUME Init
             PROVE  IInv
  OBVIOUS
<1>1. Blank \in JobType
  BY DEF Blank, JobType
<1>2. /\ Blank.instruments = {} /\ Blank.report = NoReport /\ Blank.result = NoResult
      /\ Blank.derivatives = {}
  BY DEF Blank
<1>3. TypeOK
  BY <1>1, WorkerAssumption DEF Init, TypeOK, Steps
<1>4. ASSUME NEW j \in Job
      PROVE  InOrder(job[j], pc[j])
  BY <1>2 DEF Init, InOrder
<1> QED
  BY <1>3, <1>4 DEF IInv

LEMMA StepInOrder == IInv /\ [Next]_vars => IInv'
<1> SUFFICES ASSUME IInv, [Next]_vars
             PROVE  IInv'
  OBVIOUS
<1>1. CASE Crash
  BY <1>1, CrashKeeps
<1>2. ASSUME NEW j \in Job, Accept(j)
      PROVE  IInv'
  BY <1>2, AcceptKeeps
<1>3. ASSUME NEW j \in Job, Take(j)
      PROVE  IInv'
  BY <1>3, FetchKeeps, ProbeKeeps, QcKeeps, TriageKeeps, AiQcKeeps, SyntheticKeeps,
     FinalizeKeeps, InterpretiveKeeps, FailedKeeps, InterpretivePutKeeps, QuietKeeps,
     SelectionKeeps, PutReportKeeps
  DEF Take
<1>4. CASE UNCHANGED vars
  BY <1>4 DEF vars, IInv, TypeOK, InOrder
<1> QED
  BY <1>1, <1>2, <1>3, <1>4 DEF Next

\* Every job's local state, and what is in the store, keeps its type
\* (run_pipeline).
THEOREM TypeCorrect == Spec => []TypeOK
<1>1. IInv => TypeOK
  BY DEF IInv
<1> QED
  BY <1>1, InitInOrder, StepInOrder, PTL DEF Spec

LEMMA InOrderDecides == IInv => InstrumentsDecide
<1> SUFFICES ASSUME IInv, NEW j \in Job, NEW d \in Published(j)
             PROVE  Keeps(job[j].instruments, d)
  BY DEF InstrumentsDecide, Keeps
<1>1. InOrder(job[j], pc[j])
  BY DEF IInv
<1>2. d # "none"
  BY DEF Published, Disposition
<1>3. CASE "report" \in job[j].derivatives /\ job[j].report.disposition = d
  BY <1>1, <1>2, <1>3 DEF InOrder
<1>4. CASE job[j].result # NoResult /\ job[j].result.disposition = d
  BY <1>1, <1>4 DEF InOrder
<1> QED
  BY <1>3, <1>4 DEF Published

\* What the instruments found is published as strictly as they found it: no AI
\* lane, no interpretive run and no failure of either softens it, in any mode,
\* with any number of jobs and faults (finalize, decide).
THEOREM InstrumentsAlwaysDecide == Spec => []InstrumentsDecide
BY InitInOrder, StepInOrder, InOrderDecides, PTL DEF Spec

-----------------------------------------------------------------------------
(* What the jobs leave in the object store: what a manifest lists, and the *)
(* two documents that carry a disposition.                                 *)

\* The steps before the document of the interpretive run is stored.
Early == {"waiting", "fetch", "probe", "qc", "triage", "ai", "synthetic", "finalize",
          "interpretive", "interpretive_put"}

Agree(r) ==
  r.report # NoReport /\ r.result # NoResult => r.report.disposition = r.result.disposition

Started(j) == pc[j] # "waiting"

\* What the store and the list of job j say of one another.
StoreInOrder(j) ==
  /\ ~Started(j) => job[j].derivatives = {} /\ \A k \in Key : store[k] # j
  /\ Started(j) /\ job[j].alone =>
       /\ \A i \in Job \ {j} : ~Running(i)
       /\ \A k \in job[j].derivatives : store[k] = j
       /\ pc[j] = "selection" => store["thumb"] = j
  /\ \A k \in Key \ {"manifest"} :
       store[k] = j /\ k \notin job[j].derivatives =>
         /\ faults > 0 \/ (k = "thumb" /\ pc[j] = "selection")
         /\ k = "report" => pc[j] = "dead" /\ store["manifest"] # j
  /\ store["manifest"] = j => pc[j] \in {"done", "dead"}
  /\ pc[j] \in Early => "interpretive" \notin job[j].derivatives
  /\ "interpretive" \in job[j].derivatives => Agree(job[j])

SInv == \A j \in Job : StoreInOrder(j)

-----------------------------------------------------------------------------
(* One step of one job, as the store and the list see it.                  *)

\* Job j stores the keys in wrote and lists those in listed.
Writes(j, wrote, listed) ==
  /\ Running(j) /\ pc'[j] # "waiting"
  /\ \A i \in Job \ {j} : pc'[i] = pc[i] /\ job'[i] = job[i]
  /\ store' = [k \in Key |-> IF k \in wrote THEN j ELSE store[k]]
  /\ job'[j].derivatives = job[j].derivatives \cup listed
  /\ job'[j].alone = job[j].alone
  /\ faults > 0 => faults' > 0
  /\ "manifest" \in wrote => pc'[j] \in {"done", "dead"}
  /\ listed \subseteq wrote \/ (pc[j] = "selection" /\ listed \subseteq wrote \cup {"thumb"})
  /\ \A k \in wrote \ (listed \cup {"manifest"}) :
       /\ faults' > 0 \/ (k = "thumb" /\ pc'[j] = "selection")
       /\ k = "report" => pc'[j] = "dead" /\ "manifest" \notin wrote
  /\ pc[j] = "selection" => "thumb" \in listed \/ faults' > 0
  /\ pc'[j] = "selection" => "thumb" \in wrote
  /\ "interpretive" \in listed => pc'[j] \notin Early /\ Agree(job'[j])
  /\ pc[j] \notin Early =>
       /\ job'[j].report = job[j].report /\ job'[j].result = job[j].result
       /\ pc'[j] \notin Early

LEMMA WritesKeep ==
  ASSUME TypeOK, TypeOK', SInv, NEW j \in Job, NEW wrote \in SUBSET Key,
         NEW listed \in SUBSET Key, Writes(j, wrote, listed)
  PROVE  SInv'
<1>1. Started(j) /\ "waiting" \in Early /\ StoreInOrder(j)
  BY DEF Writes, Running, Started, Step, Early, SInv
<1>2. \A k \in Key : store'[k] = IF k \in wrote THEN j ELSE store[k]
  BY DEF Writes
<1>3. ASSUME NEW i \in Job \ {j}
      PROVE  StoreInOrder(i)'
  <2>1. StoreInOrder(i) /\ pc'[i] = pc[i] /\ job'[i] = job[i]
    BY DEF SInv, Writes
  <2>2. ~(Started(i) /\ job[i].alone)
    BY <2>1 DEF StoreInOrder, Writes
  <2>3. \A k \in Key : store'[k] = i => store[k] = i
    BY <1>2
  <2>4. faults > 0 => faults' > 0
    BY DEF Writes
  <2> QED
    BY <2>1, <2>2, <2>3, <2>4 DEF StoreInOrder, Started, Key
<1>4. StoreInOrder(j)'
  <2>1. Started(j)' /\ ~Started(j)' = FALSE
    BY DEF Writes, Started
  <2>2. ASSUME job'[j].alone
        PROVE  /\ \A i \in Job \ {j} : ~Running(i)'
               /\ \A k \in job'[j].derivatives : store'[k] = j
               /\ pc'[j] = "selection" => store'["thumb"] = j
    <3>1. /\ \A i \in Job \ {j} : ~Running(i)
          /\ \A k \in job[j].derivatives : store[k] = j
          /\ pc[j] = "selection" => store["thumb"] = j
      BY <1>1, <2>2 DEF StoreInOrder, Writes
    <3>2. \A i \in Job \ {j} : ~Running(i)'
      BY <3>1 DEF Writes, Running
    <3>3. \A k \in job'[j].derivatives : store'[k] = j
      BY <1>2, <3>1 DEF Writes, TypeOK, JobType
    <3>4. pc'[j] = "selection" => store'["thumb"] = j
      BY <1>2 DEF Writes, Key
    <3> QED
      BY <3>2, <3>3, <3>4
  <2>3. ASSUME NEW k \in Key \ {"manifest"}, store'[k] = j, k \notin job'[j].derivatives
        PROVE  /\ faults' > 0 \/ (k = "thumb" /\ pc'[j] = "selection")
               /\ k = "report" => pc'[j] = "dead" /\ store'["manifest"] # j
    <3>1. store["manifest"] # j /\ pc[j] # "dead"
      BY <1>1 DEF Writes, StoreInOrder, Running, Step
    <3>2. CASE k \in wrote
      BY <1>2, <2>3, <3>1, <3>2 DEF Writes, Key
    <3>3. CASE k \notin wrote
      BY <1>1, <1>2, <2>3, <3>1, <3>3 DEF Writes, StoreInOrder
    <3> QED
      BY <3>2, <3>3
  <2>4. store'["manifest"] = j => pc'[j] \in {"done", "dead"}
    BY <1>1, <1>2 DEF Writes, StoreInOrder, Running, Step, Key
  <2>5. pc'[j] \in Early => "interpretive" \notin job'[j].derivatives
    BY <1>1 DEF Writes, StoreInOrder
  <2>6. "interpretive" \in job'[j].derivatives => Agree(job'[j])
    BY <1>1 DEF Writes, StoreInOrder, Agree
  <2> QED
    BY <2>1, <2>2, <2>3, <2>4, <2>5, <2>6 DEF StoreInOrder
<1> QED
  BY <1>3, <1>4 DEF SInv

-----------------------------------------------------------------------------
(* The steps of run_pipeline.                                              *)

LEMMA FaultsCount ==
  ASSUME TypeOK
  PROVE  /\ Fault => faults' > 0
         /\ Smooth \/ UNCHANGED faults => faults' = faults
         /\ faults' \in {faults, faults + 1} => (faults > 0 => faults' > 0)
BY WorkerAssumption DEF TypeOK, Fault, Smooth

LEMMA PutWrites ==
  ASSUME TypeOK, NEW j \in Job, NEW k \in Key, Put(k, j)
  PROVE  store' = [x \in Key |-> IF x \in {k} THEN j ELSE store[x]]
BY DEF TypeOK, Put

\* A step before the interpretive document: the list stays as it is.
LEMMA EarlyWrites ==
  ASSUME TypeOK, NEW j \in Job, pc[j] \in Early \ {"waiting"},
         NEW next \in Steps \ {"waiting", "selection"}, Goto(j, next),
         NEW new, job' = [job EXCEPT ![j] = new],
         new.derivatives = job[j].derivatives, new.alone = job[j].alone,
         NEW wrote \in SUBSET {"evidence", "interpretive"},
         store' = [x \in Key |-> IF x \in wrote THEN j ELSE store[x]],
         faults' \in {faults, faults + 1}, wrote # {} => faults' > 0
  PROVE  Writes(j, wrote, {})
<1>1. /\ Running(j) /\ pc[j] \in Early /\ pc[j] # "selection"
      /\ pc'[j] = next /\ \A i \in Job \ {j} : pc'[i] = pc[i]
  BY DEF Running, Early, Step, Goto, TypeOK
<1>2. job'[j] = new /\ \A i \in Job \ {j} : job'[i] = job[i]
  BY DEF TypeOK
<1>3. "manifest" \notin wrote /\ "report" \notin wrote
  OBVIOUS
<1>4. faults > 0 => faults' > 0
  BY FaultsCount
<1> QED
  BY <1>1, <1>2, <1>3, <1>4 DEF Writes

LEMMA NothingWritten ==
  ASSUME TypeOK, UNCHANGED store, NEW j
  PROVE  store' = [x \in Key |-> IF x \in {} THEN j ELSE store[x]]
BY DEF TypeOK

\* The job as a record, and what a step that only assigns other fields leaves.
LEMMA Assigned ==
  ASSUME NEW r \in JobType, NEW a, NEW b, NEW c
  PROVE  /\ [r EXCEPT !.probed = a, !.sidecar = b].derivatives = r.derivatives
         /\ [r EXCEPT !.probed = a, !.sidecar = b].alone = r.alone
         /\ [r EXCEPT !.instruments = a, !.report = b].derivatives = r.derivatives
         /\ [r EXCEPT !.instruments = a, !.report = b].alone = r.alone
         /\ [r EXCEPT !.run = a, !.report = b].derivatives = r.derivatives
         /\ [r EXCEPT !.run = a, !.report = b].alone = r.alone
         /\ [r EXCEPT !.report = a].derivatives = r.derivatives
         /\ [r EXCEPT !.report = a].alone = r.alone
BY DEF JobType

LEMMA MeasuringWrites ==
  ASSUME TypeOK, NEW j \in Job,
         Fetch(j) \/ Probe(j) \/ Qc(j) \/ Triage(j) \/ AiQc(j) \/ Synthetic(j)
           \/ Finalize(j) \/ SkipInterpretive(j)
  PROVE  Writes(j, {}, {})
<1>1. /\ pc[j] \in Early \ {"waiting"} /\ UNCHANGED store
      /\ job[j] \in JobType /\ faults' \in {faults, faults + 1}
  BY DEF Fetch, Probe, Qc, Triage, AiQc, Synthetic, Finalize, SkipInterpretive, At,
         Early, TypeOK, Fault, Smooth, Die
<1>2. PICK next \in Steps \ {"waiting", "selection"} : Goto(j, next)
  BY DEF Fetch, Probe, Qc, Triage, AiQc, Synthetic, Finalize, SkipInterpretive, Die,
         Steps, Step
<1>3. \E new : /\ job' = [job EXCEPT ![j] = new]
               /\ new.derivatives = job[j].derivatives /\ new.alone = job[j].alone
  <2>1. CASE UNCHANGED job
    <3>1. job' = [job EXCEPT ![j] = job[j]]
      BY <2>1 DEF TypeOK
    <3> QED
      BY <3>1
  <2>2. CASE \E a, b : job' = [job EXCEPT ![j] = [@ EXCEPT !.probed = a, !.sidecar = b]]
    <3>1. PICK a, b : job' = [job EXCEPT ![j] = [@ EXCEPT !.probed = a, !.sidecar = b]]
      BY <2>2
    <3>2. PICK new : new = [job[j] EXCEPT !.probed = a, !.sidecar = b]
      OBVIOUS
    <3>3. new.derivatives = job[j].derivatives /\ new.alone = job[j].alone
      BY <1>1, <3>2, Assigned
    <3>4. job' = [job EXCEPT ![j] = new]
      BY <3>1, <3>2
    <3> QED
      BY <3>3, <3>4
  <2>3. CASE \E a, b : job' = [job EXCEPT ![j] = [@ EXCEPT !.instruments = a, !.report = b]]
    <3>1. PICK a, b : job' = [job EXCEPT ![j] = [@ EXCEPT !.instruments = a, !.report = b]]
      BY <2>3
    <3>2. PICK new : new = [job[j] EXCEPT !.instruments = a, !.report = b]
      OBVIOUS
    <3>3. new.derivatives = job[j].derivatives /\ new.alone = job[j].alone
      BY <1>1, <3>2, Assigned
    <3>4. job' = [job EXCEPT ![j] = new]
      BY <3>1, <3>2
    <3> QED
      BY <3>3, <3>4
  <2>4. CASE \E a, b : job' = [job EXCEPT ![j] = [@ EXCEPT !.run = a, !.report = b]]
    <3>1. PICK a, b : job' = [job EXCEPT ![j] = [@ EXCEPT !.run = a, !.report = b]]
      BY <2>4
    <3>2. PICK new : new = [job[j] EXCEPT !.run = a, !.report = b]
      OBVIOUS
    <3>3. new.derivatives = job[j].derivatives /\ new.alone = job[j].alone
      BY <1>1, <3>2, Assigned
    <3>4. job' = [job EXCEPT ![j] = new]
      BY <3>1, <3>2
    <3> QED
      BY <3>3, <3>4
  <2>5. CASE \E a : job' = [job EXCEPT ![j] = [@ EXCEPT !.report = a]]
    <3>1. PICK a : job' = [job EXCEPT ![j] = [@ EXCEPT !.report = a]]
      BY <2>5
    <3>2. PICK new : new = [job[j] EXCEPT !.report = a]
      OBVIOUS
    <3>3. new.derivatives = job[j].derivatives /\ new.alone = job[j].alone
      BY <1>1, <3>2, Assigned
    <3>4. job' = [job EXCEPT ![j] = new]
      BY <3>1, <3>2
    <3> QED
      BY <3>3, <3>4
  <2>6. CASE Fetch(j) \/ SkipInterpretive(j)
    BY <2>1, <2>6 DEF Fetch, SkipInterpretive
  <2>7. CASE Probe(j)
    BY <2>2, <2>7 DEF Probe
  <2>8. CASE Qc(j)
    BY <2>1, <2>3, <2>8 DEF Qc
  <2>9. CASE Triage(j)
    BY <2>1, <2>4, <2>9 DEF Triage
  <2>10. CASE AiQc(j) \/ Synthetic(j) \/ Finalize(j)
    BY <2>1, <2>5, <2>10 DEF AiQc, Synthetic, Finalize
  <2> QED
    BY <2>6, <2>7, <2>8, <2>9, <2>10
<1> QED
  BY <1>1, <1>2, <1>3, NothingWritten, EarlyWrites

\* The run's evidence is listed when the run returns and not when it raises.
LEMMA InterpretiveWrites ==
  ASSUME TypeOK, NEW j \in Job,
         Interpretive(j) \/ InterpretiveRaises(j) \/ InterpretivePutFails(j)
  PROVE  \E wrote, listed \in SUBSET Key : Writes(j, wrote, listed)
<1>1. job[j] \in JobType
  BY DEF TypeOK
<1>2. CASE Interpretive(j)
  <2>1. PICK result \in Outcomes(ReportStatus(j), order.mode), kept \in SUBSET {"evidence"} :
          /\ job' = [job EXCEPT ![j] = [@ EXCEPT !.result = result,
                                                 !.derivatives = job[j].derivatives \cup kept]]
          /\ store' = [k \in Key |-> IF k \in kept THEN j ELSE store[k]]
    BY <1>2 DEF Interpretive
  <2>2. PICK new : new = [job[j] EXCEPT !.result = result,
                                        !.derivatives = job[j].derivatives \cup kept]
    OBVIOUS
  <2>3. new.derivatives = job[j].derivatives \cup kept /\ new.alone = job[j].alone
    BY <1>1, <2>2 DEF JobType
  <2>4. job' = [job EXCEPT ![j] = new]
    BY <2>1, <2>2
  <2>5. job'[j] = new /\ \A i \in Job \ {j} : job'[i] = job[i]
    BY <2>4 DEF TypeOK
  <2>6. /\ pc[j] = "interpretive" /\ pc'[j] = "interpretive_put" /\ faults' = faults
        /\ \A i \in Job \ {j} : pc'[i] = pc[i]
    BY <1>2 DEF Interpretive, At, Goto, TypeOK
  <2>7. Writes(j, kept, kept)
    BY <2>1, <2>3, <2>5, <2>6 DEF Writes, Running, Step, Early
  <2> QED
    BY <2>7 DEF Key
<1>3. CASE InterpretiveRaises(j) \/ InterpretivePutFails(j)
  <2>1. /\ pc[j] \in Early \ {"waiting"} /\ Goto(j, "thumbnail") /\ Fault
        /\ faults' \in {faults, faults + 1} /\ faults' > 0
    BY <1>3, FaultsCount DEF InterpretiveRaises, InterpretivePutFails, At, Early, Fault
  <2>2. PICK report : job' = [job EXCEPT ![j] = [@ EXCEPT !.report = report]]
    BY <1>3 DEF InterpretiveRaises, InterpretivePutFails
  <2>3. PICK wrote \in SUBSET {"evidence", "interpretive"} :
          store' = [x \in Key |-> IF x \in wrote THEN j ELSE store[x]]
    <3>1. CASE UNCHANGED store
      <4>1. store' = [x \in Key |-> IF x \in {} THEN j ELSE store[x]]
        BY <3>1, NothingWritten
      <4>2. PICK none : none = {}
        OBVIOUS
      <4>3. store' = [x \in Key |-> IF x \in none THEN j ELSE store[x]]
        BY <4>1, <4>2
      <4>4. none \in SUBSET {"evidence", "interpretive"}
        BY <4>2
      <4> QED
        BY <4>3, <4>4
    <3>2. ASSUME NEW k \in {"evidence", "interpretive"}, Put(k, j)
          PROVE  \E wrote \in SUBSET {"evidence", "interpretive"} :
                   store' = [x \in Key |-> IF x \in wrote THEN j ELSE store[x]]
      <4>1. store' = [x \in Key |-> IF x \in {k} THEN j ELSE store[x]]
        BY <3>2, PutWrites DEF Key
      <4> QED
        BY <4>1
    <3> QED
      BY <1>3, <3>1, <3>2 DEF InterpretiveRaises, InterpretivePutFails, PutLost
  <2>4. PICK new : new = [job[j] EXCEPT !.report = report]
    OBVIOUS
  <2>5. new.derivatives = job[j].derivatives /\ new.alone = job[j].alone
    BY <1>1, <2>4, Assigned
  <2>6. job' = [job EXCEPT ![j] = new]
    BY <2>2, <2>4
  <2>7. Writes(j, wrote, {})
    BY <2>1, <2>3, <2>5, <2>6, EarlyWrites DEF Steps, Step
  <2> QED
    BY <2>7 DEF Key
<1> QED
  BY <1>2, <1>3

\* The document is stored and listed in one step, and its decision is written
\* in the report in the same step.
LEMMA InterpretivePutWrites ==
  ASSUME TypeOK, NEW j \in Job, InterpretivePut(j)
  PROVE  Writes(j, {"interpretive"}, {"interpretive"})
<1>1. /\ pc[j] = "interpretive_put" /\ pc'[j] = "thumbnail" /\ faults' = faults
      /\ \A i \in Job \ {j} : pc'[i] = pc[i]
  BY DEF InterpretivePut, At, Goto, TypeOK
<1>2. store' = [x \in Key |-> IF x \in {"interpretive"} THEN j ELSE store[x]]
  BY PutWrites DEF InterpretivePut, Key
<1>3. PICK d : d = job[j].result.disposition
  OBVIOUS
<1>4. PICK report : report = Decided(job[j].report, d)
  OBVIOUS
<1>5. PICK new : new = [job[j] EXCEPT !.derivatives = job[j].derivatives \cup {"interpretive"},
                                      !.report = report]
  OBVIOUS
<1>6. job[j] \in JobType
  BY DEF TypeOK
<1>7. /\ new.derivatives = job[j].derivatives \cup {"interpretive"}
      /\ new.alone = job[j].alone /\ new.result = job[j].result /\ new.report = report
  BY <1>5, <1>6 DEF JobType
<1>8. report # NoReport => report.disposition = d
  BY <1>4, <1>6 DEF Decided, JobType, ReportType
<1>9. job' = [job EXCEPT ![j] = new]
  BY <1>3, <1>4, <1>5 DEF InterpretivePut
<1>10. job'[j] = new /\ \A i \in Job \ {j} : job'[i] = job[i]
  BY <1>9 DEF TypeOK
<1>11. Agree(new)
  BY <1>3, <1>7, <1>8 DEF Agree
<1> QED
  BY <1>1, <1>2, <1>7, <1>10, <1>11 DEF Writes, Running, Step, Early

\* A step after the interpretive document that lists what it stored.
LEMMA LateWrites ==
  ASSUME TypeOK, NEW j \in Job, pc[j] \in Step \ Early,
         NEW next \in Steps \ Early, Goto(j, next),
         NEW listed \in SUBSET Key,
         job' = [job EXCEPT ![j] = [@ EXCEPT !.derivatives = job[j].derivatives \cup listed]],
         NEW wrote \in SUBSET Key,
         store' = [x \in Key |-> IF x \in wrote THEN j ELSE store[x]],
         faults' \in {faults, faults + 1},
         "interpretive" \notin listed,
         "manifest" \in wrote => next \in {"done", "dead"},
         listed \subseteq wrote \/ (pc[j] = "selection" /\ listed \subseteq wrote \cup {"thumb"}),
         \A k \in wrote \ (listed \cup {"manifest"}) :
           /\ faults' > 0 \/ (k = "thumb" /\ next = "selection")
           /\ k = "report" => next = "dead" /\ "manifest" \notin wrote,
         pc[j] = "selection" => "thumb" \in listed \/ faults' > 0,
         next = "selection" => "thumb" \in wrote
  PROVE  Writes(j, wrote, listed)
<1>1. /\ Running(j) /\ "waiting" \in Early
      /\ pc'[j] = next /\ \A i \in Job \ {j} : pc'[i] = pc[i]
  BY DEF Running, Early, Goto, TypeOK
<1>2. PICK new : new = [job[j] EXCEPT !.derivatives = job[j].derivatives \cup listed]
  OBVIOUS
<1>3. job[j] \in JobType
  BY DEF TypeOK
<1>4. /\ new.derivatives = job[j].derivatives \cup listed
      /\ new.alone = job[j].alone /\ new.result = job[j].result
      /\ new.report = job[j].report
  BY <1>2, <1>3 DEF JobType
<1>5. job' = [job EXCEPT ![j] = new]
  BY <1>2
<1>6. job'[j] = new /\ \A i \in Job \ {j} : job'[i] = job[i]
  BY <1>5 DEF TypeOK
<1>8. faults > 0 => faults' > 0
  BY FaultsCount
<1> QED
  BY <1>1, <1>4, <1>6, <1>8 DEF Writes

LEMMA NothingListed ==
  ASSUME TypeOK, NEW j \in Job, UNCHANGED job
  PROVE  job' = [job EXCEPT ![j] = [@ EXCEPT !.derivatives = job[j].derivatives \cup {}]]
<1>1. PICK new : new = [job[j] EXCEPT !.derivatives = job[j].derivatives \cup {}]
  OBVIOUS
<1>2. job[j] \in JobType
  BY DEF TypeOK
<1>3. new = job[j]
  BY <1>1, <1>2 DEF JobType
<1>4. job' = [job EXCEPT ![j] = new]
  BY <1>3 DEF TypeOK
<1> QED
  BY <1>1, <1>4

\* A put whose reply is lost stores its object or nothing.
LEMMA LostWrites ==
  ASSUME TypeOK, NEW j \in Job, NEW k \in Key, PutLost(k, j)
  PROVE  \E wrote \in SUBSET {k} : store' = [x \in Key |-> IF x \in wrote THEN j ELSE store[x]]
<1>1. CASE Put(k, j)
  <2>1. PICK wrote : wrote = {k}
    OBVIOUS
  <2>2. store' = [x \in Key |-> IF x \in wrote THEN j ELSE store[x]]
    BY <1>1, <2>1, PutWrites
  <2> QED
    BY <2>1, <2>2
<1>2. CASE UNCHANGED store
  <2>1. PICK wrote : wrote = {}
    OBVIOUS
  <2>2. store' = [x \in Key |-> IF x \in wrote THEN j ELSE store[x]]
    BY <1>2, <2>1, NothingWritten
  <2> QED
    BY <2>1, <2>2
<1> QED
  BY <1>1, <1>2 DEF PutLost

\* A failing step lists nothing, whatever it stored.
LEMMA FailingWrites ==
  ASSUME TypeOK, NEW j \in Job, UNCHANGED job, Fault,
         \/ pc[j] = "thumbnail" /\ PutLost("thumb", j) /\ Goto(j, "report")
         \/ pc[j] = "selection" /\ PutLost("selection", j) /\ Goto(j, "report")
         \/ pc[j] = "report" /\ PutLost("report", j) /\ Goto(j, "dead")
         \/ pc[j] = "manifest" /\ PutLost("manifest", j) /\ Goto(j, "dead")
  PROVE  \E wrote, listed \in SUBSET Key : Writes(j, wrote, listed)
<1>1. /\ job' = [job EXCEPT ![j] = [@ EXCEPT !.derivatives = job[j].derivatives \cup {}]]
      /\ faults' \in {faults, faults + 1} /\ faults' > 0
  BY NothingListed, FaultsCount DEF Fault
<1>2. PICK k \in {"thumb", "selection", "report", "manifest"},
            next \in {"report", "dead"} :
        /\ PutLost(k, j) /\ Goto(j, next) /\ pc[j] \in Step \ Early
        /\ k \in {"report", "manifest"} => next = "dead"
  BY DEF Step, Early
<1>3. k \in Key
  BY DEF Key
<1>4. PICK wrote \in SUBSET {k} : store' = [x \in Key |-> IF x \in wrote THEN j ELSE store[x]]
  BY <1>2, <1>3, LostWrites
<1>5. next \in Steps \ Early /\ wrote \in SUBSET Key
  BY <1>2, <1>3, <1>4 DEF Steps, Step, Early
<1>6. /\ "manifest" \in wrote => next \in {"done", "dead"}
      /\ \A x \in wrote : x = "report" => next = "dead" /\ "manifest" \notin wrote
      /\ next # "selection"
  BY <1>2, <1>4
<1>7. Writes(j, wrote, {})
  BY <1>1, <1>2, <1>4, <1>5, <1>6, LateWrites
<1> QED
  BY <1>5, <1>7

\* Poster, summary and manifest: the list stays as it is.
LEMMA UnlistedWrites ==
  ASSUME TypeOK, NEW j \in Job, Thumbnail(j) \/ Summarize(j) \/ PutManifest(j)
  PROVE  \E wrote, listed \in SUBSET Key : Writes(j, wrote, listed)
<1>1. /\ pc[j] \in {"thumbnail", "summarize", "manifest"} /\ UNCHANGED job
      /\ faults' \in {faults, faults + 1}
  BY DEF Thumbnail, Summarize, PutManifest, At, Fault, Smooth, Die
<1>2. job' = [job EXCEPT ![j] = [@ EXCEPT !.derivatives = job[j].derivatives \cup {}]]
  BY <1>1, NothingListed
<1>3. CASE Put("thumb", j) /\ Goto(j, "selection")
  <2>1. store' = [x \in Key |-> IF x \in {"thumb"} THEN j ELSE store[x]]
    BY <1>3, PutWrites DEF Key
  <2>2. Writes(j, {"thumb"}, {})
    BY <1>1, <1>2, <1>3, <2>1, LateWrites DEF Key, Early, Steps, Step
  <2> QED
    BY <2>2 DEF Key
<1>4. CASE Put("manifest", j) /\ Goto(j, "done")
  <2>1. store' = [x \in Key |-> IF x \in {"manifest"} THEN j ELSE store[x]]
    BY <1>4, PutWrites DEF Key
  <2>2. pc[j] \in Step \ Early /\ pc[j] # "selection" /\ "done" \in Steps \ Early
    BY <1>1 DEF Early, Steps, Step
  <2>3. {"manifest"} \in SUBSET Key /\ {"manifest"} \ ({} \cup {"manifest"}) = {}
    BY DEF Key
  <2>4. Writes(j, {"manifest"}, {})
    BY <1>1, <1>2, <1>4, <2>1, <2>2, <2>3, LateWrites
  <2> QED
    BY <2>3, <2>4
<1>5. CASE UNCHANGED store /\ \E next \in {"report", "manifest"} : Goto(j, next)
  <2>1. PICK next \in {"report", "manifest"} : Goto(j, next)
    BY <1>5
  <2>2. store' = [x \in Key |-> IF x \in {} THEN j ELSE store[x]]
    BY <1>5, NothingWritten
  <2>3. Writes(j, {}, {})
    BY <1>1, <1>2, <2>1, <2>2, LateWrites DEF Key, Early, Steps, Step
  <2> QED
    BY <2>3
<1>6. CASE Thumbnail(j)
  BY <1>1, <1>3, <1>5, <1>6, FailingWrites DEF Thumbnail, At
<1>7. CASE Summarize(j)
  BY <1>5, <1>7 DEF Summarize
<1>8. CASE PutManifest(j)
  BY <1>1, <1>4, <1>8, FailingWrites DEF PutManifest, At, Die
<1> QED
  BY <1>6, <1>7, <1>8

\* The poster is listed with its selection, a report once it is stored.
LEMMA ListedWrites ==
  ASSUME TypeOK, NEW j \in Job, Selection(j) \/ PutReport(j)
  PROVE  \E wrote, listed \in SUBSET Key : Writes(j, wrote, listed)
<1>1. /\ pc[j] \in {"selection", "report"} /\ faults' \in {faults, faults + 1}
  BY DEF Selection, PutReport, At, Fault, Smooth, Die
<1>2. CASE UNCHANGED job /\ UNCHANGED store /\ pc[j] = "report" /\ Goto(j, "summarize")
  <2>1. job' = [job EXCEPT ![j] = [@ EXCEPT !.derivatives = job[j].derivatives \cup {}]]
    BY <1>2, NothingListed
  <2>2. store' = [x \in Key |-> IF x \in {} THEN j ELSE store[x]]
    BY <1>2, NothingWritten
  <2>3. Writes(j, {}, {})
    BY <1>1, <1>2, <2>1, <2>2, LateWrites DEF Key, Early, Steps, Step
  <2> QED
    BY <2>3
<1>3. CASE /\ pc[j] = "selection" /\ Put("selection", j) /\ Goto(j, "report")
           /\ job' = [job EXCEPT ![j] =
                [@ EXCEPT !.derivatives = job[j].derivatives \cup {"thumb", "selection"}]]
  <2>1. store' = [x \in Key |-> IF x \in {"selection"} THEN j ELSE store[x]]
    BY <1>3, PutWrites DEF Key
  <2>2. Writes(j, {"selection"}, {"thumb", "selection"})
    BY <1>1, <1>3, <2>1, LateWrites DEF Key, Early, Steps, Step
  <2> QED
    BY <2>2 DEF Key
<1>4. CASE /\ pc[j] = "report" /\ Put("report", j) /\ Goto(j, "summarize")
           /\ job' = [job EXCEPT ![j] = [@ EXCEPT !.derivatives = job[j].derivatives \cup {"report"}]]
  <2>1. store' = [x \in Key |-> IF x \in {"report"} THEN j ELSE store[x]]
    BY <1>4, PutWrites DEF Key
  <2>2. pc[j] \in Step \ Early /\ pc[j] # "selection" /\ "summarize" \in Steps \ Early
    BY <1>4 DEF Early, Steps, Step
  <2>3. /\ {"report"} \in SUBSET Key /\ {"report"} \subseteq {"report"}
        /\ "interpretive" \notin {"report"} /\ "manifest" \notin {"report"}
        /\ {"report"} \ ({"report"} \cup {"manifest"}) = {}
    BY DEF Key
  <2>4. Writes(j, {"report"}, {"report"})
    BY <1>1, <1>4, <2>1, <2>2, <2>3, LateWrites
  <2> QED
    BY <2>3, <2>4
<1>5. CASE Selection(j)
  <2>1. pc[j] = "selection" /\ Goto(j, "report")
    BY <1>5 DEF Selection, At
  <2> QED
    BY <1>3, <1>5, <2>1, FailingWrites DEF Selection
<1>6. CASE PutReport(j)
  <2>1. pc[j] = "report"
    BY <1>6 DEF PutReport, At
  <2> QED
    BY <1>2, <1>4, <1>6, <2>1, FailingWrites DEF PutReport, Die
<1> QED
  BY <1>5, <1>6

LEMMA TakeWrites ==
  ASSUME TypeOK, NEW j \in Job, Take(j)
  PROVE  \E wrote, listed \in SUBSET Key : Writes(j, wrote, listed)
<1>1. CASE Writes(j, {}, {})
  BY <1>1
<1>2. CASE Writes(j, {"interpretive"}, {"interpretive"})
  BY <1>2 DEF Key
<1> QED
  BY <1>1, <1>2, MeasuringWrites, InterpretiveWrites, InterpretivePutWrites,
     UnlistedWrites, ListedWrites
  DEF Take

-----------------------------------------------------------------------------
(* The theorems.                                                           *)

\* A job that starts beside others leaves none of them alone.
LEMMA AcceptStores ==
  ASSUME TypeOK, SInv, NEW j \in Job, Accept(j)
  PROVE  SInv'
<1> DEFINE others == {i \in Job \ {j} : pc[i] # "waiting"}
<1>1. /\ pc[j] = "waiting" /\ store' = store /\ faults' = faults
      /\ pc' = [pc EXCEPT ![j] = "fetch"]
  BY DEF Accept, At, Goto
<1>2. pc'[j] = "fetch" /\ \A i \in Job \ {j} : pc'[i] = pc[i]
  BY <1>1 DEF TypeOK
<1>3. ASSUME NEW i \in Job \ {j}
      PROVE  StoreInOrder(i)'
  <2>1. PICK b : b = (job[i].alone /\ i \notin others)
    OBVIOUS
  <2>2. job'[i] = [job[i] EXCEPT !.alone = b]
    <3>1. job'[i] = [job[i] EXCEPT !.alone = job[i].alone /\ i \notin others]
      BY DEF Accept
    <3> QED
      BY <2>1, <3>1
  <2>3. Started(i) => ~b
    BY <2>1 DEF Started
  <2> HIDE DEF others
  <2>4. /\ job'[i].alone = b
        /\ \A f \in {"report", "result", "derivatives"} : job'[i][f] = job[i][f]
    BY <2>2 DEF TypeOK, JobType
  <2> QED
    BY <1>1, <1>2, <2>3, <2>4 DEF SInv, StoreInOrder, Started, Agree
<1>4. StoreInOrder(j)'
  <2>1. PICK b : b = \A o \in others : ~Running(o)
    OBVIOUS
  <2>2. job'[j] = [job[j] EXCEPT !.alone = b]
    <3>1. job'[j] = [job[j] EXCEPT !.alone = \A o \in others : ~Running(o)]
      BY DEF Accept
    <3> QED
      BY <2>1, <3>1
  <2>3. b => \A i \in Job \ {j} : ~Running(i)'
    BY <1>2, <2>1 DEF Running, Step
  <2> HIDE DEF others
  <2>4. /\ job'[j].alone = b
        /\ \A f \in {"report", "result", "derivatives"} : job'[j][f] = job[j][f]
    BY <2>2 DEF TypeOK, JobType
  <2> QED
    BY <1>1, <1>2, <2>3, <2>4 DEF SInv, StoreInOrder, Started, Agree, Key
<1> QED
  BY <1>3, <1>4 DEF SInv

LEMMA CrashStores ==
  ASSUME TypeOK, SInv, Crash
  PROVE  SInv'
<1>1. /\ store' = store /\ job' = job
      /\ pc' = [j \in Job |-> IF Running(j) THEN "dead" ELSE pc[j]]
  BY DEF Crash
<1>2. faults' > 0
  BY FaultsCount DEF Crash
<1>3. ASSUME NEW j \in Job
      PROVE  StoreInOrder(j)'
  <2>1. StoreInOrder(j)
    BY DEF SInv
  <2>2. /\ Started(j)' <=> Started(j)
        /\ pc'[j] \in Early => pc[j] \in Early
        /\ pc'[j] # "selection"
        /\ pc[j] = "done" => pc'[j] = "done"
        /\ \A i \in Job : ~Running(i)'
    BY <1>1 DEF Started, Early, Running, Step
  <2> QED
    BY <1>1, <1>2, <2>1, <2>2 DEF StoreInOrder
<1> QED
  BY <1>3 DEF SInv

LEMMA InitStores == Init => SInv
<1> SUFFICES ASSUME Init, NEW j \in Job
             PROVE  StoreInOrder(j)
  BY DEF SInv
<1>1. job[j] = Blank /\ Blank.derivatives = {} /\ pc[j] = "waiting"
  BY DEF Init, Blank
<1>2. \A k \in Key : store[k] # j
  BY WorkerAssumption DEF Init
<1> QED
  BY <1>1, <1>2 DEF StoreInOrder, Started, Key

LEMMA StepStores == TypeOK /\ TypeOK' /\ SInv /\ [Next]_vars => SInv'
<1> SUFFICES ASSUME TypeOK, TypeOK', SInv, [Next]_vars
             PROVE  SInv'
  OBVIOUS
<1>1. CASE Crash
  BY <1>1, CrashStores
<1>2. ASSUME NEW j \in Job, Accept(j)
      PROVE  SInv'
  BY <1>2, AcceptStores
<1>3. ASSUME NEW j \in Job, Take(j)
      PROVE  SInv'
  BY <1>3, TakeWrites, WritesKeep
<1>4. CASE UNCHANGED vars
  BY <1>4 DEF vars, SInv, StoreInOrder, Started, Running, Agree
<1> QED
  BY <1>1, <1>2, <1>3, <1>4 DEF Next

LEMMA StoresInvariant == Spec => []SInv
<1>1. Spec => []TypeOK
  BY TypeCorrect
<1> QED
  BY <1>1, InitStores, StepStores, PTL DEF Spec

\* For any number of jobs and faults, whatever reply is lost: unless another job ran
\* on the transfer, what a manifest lists is in the store as its run put it there,
\* and it leaves an object out only after a failure, the report never
\* (put_object, build_manifest).
THEOREM ManifestListsItsRun == Spec => []ManifestIsExact
<1>1. TypeOK /\ SInv => ManifestIsExact
  <2> SUFFICES ASSUME TypeOK, SInv, Manifest # Nobody, job[Manifest].alone,
                      NEW k \in Key \ {"manifest"}
               PROVE  IF k \in job[Manifest].derivatives THEN store[k] = Manifest
                      ELSE store[k] = Manifest => faults > 0 /\ k # "report"
    BY DEF ManifestIsExact
  <2>1. Manifest \in Job
    BY DEF Manifest, TypeOK, Key
  <2>2. /\ StoreInOrder(Manifest) /\ pc[Manifest] \in {"done", "dead"}
        /\ store["manifest"] = Manifest
    BY <2>1 DEF SInv, StoreInOrder, Manifest
  <2> HIDE DEF Manifest
  <2> QED
    BY <2>2 DEF StoreInOrder, Started
<1> QED
  BY <1>1, StoresInvariant, TypeCorrect, PTL

\* The report and the manifest of a run give one disposition whenever its
\* interpretive document was stored (run_pipeline, the interpretive step).
THEOREM DocumentsAlwaysAgree == Spec => []DocumentsAgree
<1>1. IInv /\ SInv => DocumentsAgree
  <2> SUFFICES ASSUME IInv, SInv, NEW j \in Job,
                      "report" \in job[j].derivatives, job[j].result # NoResult,
                      "interpretive" \in job[j].derivatives
               PROVE  job[j].report.disposition = job[j].result.disposition
    BY DEF DocumentsAgree
  <2>1. job[j].report # NoReport
    BY DEF IInv, InOrder
  <2> QED
    BY <2>1 DEF SInv, StoreInOrder, Agree
<1>2. Spec => []IInv
  BY InitInOrder, StepInOrder, PTL DEF Spec
<1> QED
  BY <1>1, <1>2, StoresInvariant, PTL
================================================================================
